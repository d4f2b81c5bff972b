------------------------------ MODULE Sessions ------------------------------
(***************************************************************************)
(* One conversation of harness2/sessions.py: run_session_turn() over the   *)
(* rows of session_turns, with the operations of class SessionService that *)
(* it calls and the session's close() and resume().                        *)
(*                                                                         *)
(* A turn goes through five transactions and a run of an engine, and the   *)
(* process may die (or be interrupted, which no handler catches) between   *)
(* any two of them; several terminals may chat in the same session.  Of the*)
(* two classifications of a turn, sensitive and untrusted, which the code  *)
(* treats alike, one is modelled.                                          *)
(***************************************************************************)
EXTENDS Integers, Sequences, FiniteSets

CONSTANTS
    Chats,      \* processes that talk in the session
    Prompts,    \* what a user may say
    TurnLimit,  \* turns of history in a prompt
    MaxTurns    \* bound: rows of the session

ASSUME SessionConstantsOK ==
    /\ TurnLimit \in Nat \ {0}
    /\ MaxTurns \in Nat

VARIABLES
    open,    \* sessions.state
    turns,   \* session_turns, by seq
    chat     \* what each process is doing

vars == <<open, turns, chat>>

-----------------------------------------------------------------------------
(***************************************************************************)
(* A user turn carries its prompt, an assistant turn the seq of the turn it*)
(* answers.  origins is history: the user turns whose content may have gone*)
(* into this one.                                                          *)
(***************************************************************************)
Status == {"pending", "processing", "interrupted", "completed", "failed"}

NoPrompt == "no prompt"

Seqs == 1..Len(turns)

IsUser(i) == turns[i].role = "user"

UserTurn(p, sensitive, seq) ==
    [role |-> "user", status |-> "pending", prompt |-> p, answers |-> 0,
     sensitive |-> sensitive, origins |-> {seq}]

AssistantTurn(seq, success, sensitive, origins) ==
    [role |-> "assistant", status |-> IF success THEN "completed" ELSE "failed",
     prompt |-> NoPrompt, answers |-> seq, sensitive |-> sensitive, origins |-> origins]

\* A turn in the making: the prompt and the flag of the caller, the seq of its
\* user turn once there is one, and the flag and the origins of its context.
Idle == [at |-> "idle"]

Turn(at, p, flag, seq, sensitive, origins) ==
    [at |-> at, prompt |-> p, flag |-> flag, seq |-> seq,
     sensitive |-> sensitive, origins |-> origins]

Init ==
    /\ open = TRUE
    /\ turns = <<>>
    /\ chat = [c \in Chats |-> Idle]

Doing(c, place) == chat[c].at = place

Becomes(c, state) == chat' = [chat EXCEPT ![c] = state]

Goes(c, place) == Becomes(c, [chat[c] EXCEPT !.at = place])

\* A bound: there is room for so many more rows.
Room(rows) == Len(turns) + rows <= MaxTurns

-----------------------------------------------------------------------------
(***************************************************************************)
(* run_session_turn().                                                     *)
(***************************************************************************)
\* require_open() passes. The flag is that of the command: a retry need not repeat it.
Begin(c, p, flag) ==
    /\ Doing(c, "idle")
    /\ open
    /\ Room(2)
    /\ Becomes(c, Turn("build", p, flag, 0, flag, {}))
    /\ UNCHANGED <<open, turns>>

Eligible == {i \in Seqs : turns[i].status = "completed"}

Newest(S) == {i \in S : Cardinality({j \in S : j >= i}) <= TurnLimit}

\* Mutant: the run is classified by the current request alone.
EffectiveCurrent(flag, included) == flag

Effective(flag, included) == flag \/ \E i \in included : turns[i].sensitive

\* build_context(): the newest turns among those that fit the byte limit.
BuildContext(c) ==
    /\ Doing(c, "build")
    /\ \E fitting \in SUBSET Eligible :
        LET included == Newest(fitting)
        IN Becomes(c, [chat[c] EXCEPT
                         !.at = "look up",
                         !.sensitive = Effective(chat[c].flag, included),
                         !.origins = UNION {turns[i].origins : i \in included}])
    /\ UNCHANGED <<open, turns>>

Unfinished ==
    {i \in Seqs : IsUser(i) /\ turns[i].status \in {"pending", "processing", "interrupted"}}

\* Mutant: a turn that a crash left in processing is not taken up again.
TrailingMarked(i) ==
    i \in Unfinished /\ turns[i].status # "processing" /\ \A j \in Unfinished : j <= i

Trailing(i) == i \in Unfinished /\ \A j \in Unfinished : j <= i

\* trailing_unfinished_user_turn() and the comparison with the prompt.
LookUp(c) ==
    /\ Doing(c, "look up")
    /\ \/ \E i \in Seqs :
            /\ Trailing(i)
            /\ turns[i].prompt = chat[c].prompt
            /\ Becomes(c, [chat[c] EXCEPT !.at = "mark", !.seq = i])
       \/ /\ \A i \in Seqs : Trailing(i) => turns[i].prompt # chat[c].prompt
          /\ Goes(c, "append")
    /\ UNCHANGED <<open, turns>>

\* append_user_turn() requires an open session, then inserts.
RequireOpen(c) ==
    /\ Doing(c, "append")
    /\ IF open THEN Goes(c, "insert") ELSE Becomes(c, Idle)
    /\ UNCHANGED <<open, turns>>

Insert(c) ==
    /\ Doing(c, "insert")
    /\ Room(2)
    /\ turns' = Append(turns, UserTurn(chat[c].prompt, chat[c].flag, Len(turns) + 1))
    /\ Becomes(c, [chat[c] EXCEPT !.at = "mark", !.seq = Len(turns) + 1])
    /\ UNCHANGED open

MarkProcessing(c) ==
    /\ Doing(c, "mark")
    /\ turns' = [turns EXCEPT ![chat[c].seq].status = "processing"]
    /\ Goes(c, "run")
    /\ UNCHANGED open

\* Mutant: the answer is stored and its question is left as it is.
AnswerOnly(c, success) ==
    /\ Doing(c, "run")
    /\ Room(1)
    /\ turns' = Append(turns, AssistantTurn(chat[c].seq, success, chat[c].sensitive,
                                            chat[c].origins \cup {chat[c].seq}))
    /\ Becomes(c, Idle)
    /\ UNCHANGED open

\* The run returned, with success or not: append_assistant_turn().
Answer(c, success) ==
    /\ Doing(c, "run")
    /\ Room(1)
    /\ turns' = Append([turns EXCEPT ![chat[c].seq].status = "completed"],
                       AssistantTurn(chat[c].seq, success, chat[c].sensitive,
                                     chat[c].origins \cup {chat[c].seq}))
    /\ Becomes(c, Idle)
    /\ UNCHANGED open

\* The run raised: mark_interrupted().
Interrupt(c) ==
    /\ Doing(c, "run")
    /\ turns' = [turns EXCEPT ![chat[c].seq].status = "interrupted"]
    /\ Becomes(c, Idle)
    /\ UNCHANGED open

Die(c) ==
    /\ ~Doing(c, "idle")
    /\ Becomes(c, Idle)
    /\ UNCHANGED <<open, turns>>

Close == open /\ open' = FALSE /\ UNCHANGED <<turns, chat>>

Resume == ~open /\ open' = TRUE /\ UNCHANGED <<turns, chat>>

ChatStep(c) ==
    \/ BuildContext(c)
    \/ LookUp(c)
    \/ RequireOpen(c)
    \/ Insert(c)
    \/ MarkProcessing(c)
    \/ \E success \in BOOLEAN : Answer(c, success)
    \/ Interrupt(c)
    \/ Die(c)

Next ==
    \/ Close
    \/ Resume
    \/ \E c \in Chats :
        \/ \E p \in Prompts, flag \in BOOLEAN : Begin(c, p, flag)
        \/ ChatStep(c)

Spec == Init /\ [][Next]_vars

\* A process has looked for a turn to answer and has not answered it.
InSection(c) == chat[c].at \in {"append", "insert", "mark", "run"}

\* Terminals of which at most one is there: what one user does, or what a lock
\* over the section would leave. The code has no such lock.
OneInSection == \A c, d \in Chats : InSection(c) /\ InSection(d) => c = d

SerialSpec == Init /\ [][Next /\ OneInSection']_vars

-----------------------------------------------------------------------------
(***************************************************************************)
(* Properties.                                                             *)
(***************************************************************************)
\* Rows keep to their columns, and an answer to a user turn before it.
TypeOK ==
    /\ open \in BOOLEAN
    /\ Len(turns) <= MaxTurns
    /\ \A i \in Seqs :
         /\ turns[i].role \in {"user", "assistant"}
         /\ turns[i].status \in Status
         /\ turns[i].sensitive \in BOOLEAN
         /\ turns[i].origins \subseteq {j \in Seqs : IsUser(j)}
         /\ ~IsUser(i) => turns[i].answers \in 1..(i - 1) /\ IsUser(turns[i].answers)
    /\ \A c \in Chats : Doing(c, "mark") \/ Doing(c, "run") => chat[c].seq \in Seqs

Answers(i) == {j \in Seqs : turns[j].answers = i}

\* However often a process dies or a run fails, a user turn is completed once
\* there is a result for it and not before, and it has one result: a crash
\* "never fabricates a success" (docs/architecture/PHASE10_SESSIONS.md).
OneResultWhenCompleted ==
    \A i \in Seqs : IsUser(i) =>
        Cardinality(Answers(i)) = IF turns[i].status = "completed" THEN 1 ELSE 0

\* A retry of what was left unfinished "never duplicates the user turn"
\* (docs/architecture/PHASE10_SESSIONS.md): of two unfinished turns with
\* nothing unfinished between them, the later says something else.
RetryReusesTurn ==
    \A i, j \in Unfinished :
        i < j /\ (\A k \in Unfinished : ~(i < k /\ k < j)) =>
            turns[i].prompt # turns[j].prompt

\* Turn o was answered, by row n, in a run without its classification.
Declassified(o, n) == \E k \in 1..n : turns[k].answers = o /\ ~turns[k].sensitive

\* Of "security classification that is additive across history, never downgraded"
\* (docs/architecture/PHASE10_SESSIONS.md) what the code keeps: the sensitivity of a
\* turn is lost only where the turn itself was answered without it, because whoever
\* ran it again left the flag out. It is never lost through other answers, by turns
\* that leave the window, a death, a close or another terminal's turns.
LostOnlyByRetry ==
    \A i \in Seqs : ~IsUser(i) =>
        \A o \in turns[i].origins :
            turns[o].sensitive => turns[i].sensitive \/ Declassified(o, i)

\* The statement itself, which one retry without the flag breaks: an answer into
\* which a sensitive turn has gone is sensitive.
NeverDowngraded ==
    \A i \in Seqs :
        ~IsUser(i) /\ (\E o \in turns[i].origins : turns[o].sensitive) =>
            turns[i].sensitive

\* "interrupted: crash/failure, no result": a turn that is interrupted has no
\* result, however many terminals talk in the session.
InterruptedHasNoResult ==
    \A i \in Seqs : turns[i].status = "interrupted" => Answers(i) = {}

=============================================================================
