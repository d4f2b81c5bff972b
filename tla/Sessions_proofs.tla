--------------------------- MODULE Sessions_proofs ---------------------------
(***************************************************************************)
(* Proofs about Sessions.tla, for any prompts, any window of turns and a   *)
(* session of any length: for any number of terminals what is classified,  *)
(* and for one of them what is answered and retried.                       *)
(***************************************************************************)
EXTENDS Sessions, SequenceTheorems, FiniteSetTheorems, TLAPS

-----------------------------------------------------------------------------
(***************************************************************************)
(* The inductive invariant of any number of terminals.                     *)
(***************************************************************************)
Row ==
    [role : {"user", "assistant"}, status : Status, prompt : Prompts \cup {NoPrompt},
     answers : Nat, sensitive : BOOLEAN, origins : SUBSET Nat]

Places == {"build", "look up", "append", "insert", "mark", "run"}

TurnInTheMaking ==
    [at : Places, prompt : Prompts, flag : BOOLEAN, seq : Nat, sensitive : BOOLEAN,
     origins : SUBSET Nat]

Users == {i \in Seqs : IsUser(i)}

\* A turn has been answered without its classification by now.
DeclassifiedNow(o) == Declassified(o, Len(turns))

\* A turn is as sensitive as what went into it, but for what was answered without.
SoundRow(i) ==
    /\ IsUser(i) => /\ turns[i].answers = 0 /\ turns[i].status # "failed"
    /\ ~IsUser(i) => /\ turns[i].answers \in 1..(i - 1) /\ IsUser(turns[i].answers)
                     /\ turns[i].status \in {"completed", "failed"}
    /\ turns[i].origins \subseteq Users
    /\ \A o \in turns[i].origins :
         turns[o].sensitive => turns[i].sensitive \/ Declassified(o, i)

\* So is what a terminal is about to send.
SoundTurn(r) ==
    r # Idle =>
        /\ r \in TurnInTheMaking
        /\ r.origins \subseteq Users
        /\ \A o \in r.origins : turns[o].sensitive => r.sensitive \/ DeclassifiedNow(o)
        /\ r.at \in {"mark", "run"} => r.seq \in Users /\ turns[r.seq].prompt = r.prompt

IInv ==
    /\ open \in BOOLEAN
    /\ turns \in Seq(Row)
    /\ Len(turns) <= MaxTurns
    /\ chat = [c \in Chats |-> chat[c]]
    /\ \A i \in Seqs : SoundRow(i)
    /\ \A c \in Chats : SoundTurn(chat[c])

(***************************************************************************)
(* That of terminals that wait for each other: nobody comes between the    *)
(* look-up and the answer of one of them, so that what it found when it    *)
(* looked still holds when it writes.                                      *)
(***************************************************************************)
Answered ==
    \A i \in Users :
        IF turns[i].status = "completed" THEN \E j \in Seqs : Answers(i) = {j}
        ELSE Answers(i) = {}

\* A turn that is about to run is the last unfinished one; one that is about to be
\* inserted repeats none.
LastUnfinished ==
    \A c \in Chats :
        /\ Doing(c, "mark") \/ Doing(c, "run") => Trailing(chat[c].seq)
        /\ Doing(c, "append") \/ Doing(c, "insert") =>
             \A i \in Seqs : Trailing(i) => turns[i].prompt # chat[c].prompt

SingleIInv == IInv /\ Answered /\ LastUnfinished /\ RetryReusesTurn

-----------------------------------------------------------------------------
(***************************************************************************)
(* What the steps write into a turn in the making, one field after the     *)
(* other.                                                                  *)
(***************************************************************************)
LEMMA SetAt ==
    \A r, at, s :
        r \in TurnInTheMaking /\ at \in Places /\ s = [r EXCEPT !.at = at]
        => /\ s \in TurnInTheMaking
           /\ s.at = at /\ s.prompt = r.prompt /\ s.flag = r.flag /\ s.seq = r.seq /\ s.sensitive = r.sensitive /\ s.origins = r.origins
BY DEF TurnInTheMaking

LEMMA SetSeq ==
    \A r, seq, s :
        r \in TurnInTheMaking /\ seq \in Nat /\ s = [r EXCEPT !.seq = seq]
        => /\ s \in TurnInTheMaking
           /\ s.at = r.at /\ s.prompt = r.prompt /\ s.flag = r.flag /\ s.seq = seq /\ s.sensitive = r.sensitive /\ s.origins = r.origins
BY DEF TurnInTheMaking

LEMMA SetSensitive ==
    \A r, b, s :
        r \in TurnInTheMaking /\ b \in BOOLEAN /\ s = [r EXCEPT !.sensitive = b]
        => /\ s \in TurnInTheMaking
           /\ s.at = r.at /\ s.prompt = r.prompt /\ s.flag = r.flag /\ s.seq = r.seq /\ s.sensitive = b /\ s.origins = r.origins
BY DEF TurnInTheMaking

LEMMA SetOrigins ==
    \A r, set, s :
        r \in TurnInTheMaking /\ set \in (SUBSET Nat) /\ s = [r EXCEPT !.origins = set]
        => /\ s \in TurnInTheMaking
           /\ s.at = r.at /\ s.prompt = r.prompt /\ s.flag = r.flag /\ s.seq = r.seq /\ s.sensitive = r.sensitive /\ s.origins = set
BY DEF TurnInTheMaking

LEMMA IdleApart ==
    /\ Idle \notin TurnInTheMaking
    /\ Idle.at = "idle"
    /\ \A r \in TurnInTheMaking : r.at \in Places /\ r.at # "idle" /\ r # Idle
<1>1. Idle.at = "idle"
  BY DEF Idle
<1>2. \A r \in TurnInTheMaking : r.at \in Places
  BY DEF TurnInTheMaking
<1>3. "idle" \notin Places
  BY DEF Places
<1>4. QED
  BY <1>1, <1>2, <1>3

LEMMA StatusSet ==
    \A r, x, s :
        r \in Row /\ x \in Status /\ s = [r EXCEPT !.status = x]
        => /\ s \in Row
           /\ s.role = r.role /\ s.status = x /\ s.prompt = r.prompt /\ s.answers = r.answers
           /\ s.sensitive = r.sensitive /\ s.origins = r.origins
BY DEF Row

-----------------------------------------------------------------------------
(***************************************************************************)
(* The rows.  A step adds one, or changes the status of one: whatever else *)
(* a row says, it says for good.                                           *)
(***************************************************************************)
Same(i) ==
    /\ turns'[i].role = turns[i].role /\ turns'[i].prompt = turns[i].prompt
    /\ turns'[i].answers = turns[i].answers /\ turns'[i].sensitive = turns[i].sensitive
    /\ turns'[i].origins = turns[i].origins

Extended ==
    /\ turns' \in Seq(Row)
    /\ Len(turns) <= Len(turns')
    /\ \A i \in Seqs : Same(i)

LEMMA RowFacts ==
    ASSUME turns \in Seq(Row)
    PROVE  /\ Len(turns) \in Nat /\ \A i \in Seqs : turns[i] \in Row /\ i \in Nat
           /\ turns' = turns => Extended
BY LenProperties, ElementOfSeq DEF Seqs, Extended, Same

\* What a changed status leaves.
WithStatus(k, x) == [turns EXCEPT ![k].status = x]

LEMMA StatusChange ==
    ASSUME turns \in Seq(Row), NEW k \in Seqs, NEW x \in Status, NEW t,
           t = WithStatus(k, x)
    PROVE  /\ t \in Seq(Row) /\ Len(t) = Len(turns)
           /\ \A i \in Seqs :
                /\ t[i].role = turns[i].role /\ t[i].prompt = turns[i].prompt
                /\ t[i].answers = turns[i].answers /\ t[i].sensitive = turns[i].sensitive
                /\ t[i].origins = turns[i].origins
                /\ t[i].status = IF i = k THEN x ELSE turns[i].status
<1>1. Len(turns) \in Nat /\ turns \in [1..Len(turns) -> Row] /\ DOMAIN turns = 1..Len(turns)
  BY LenProperties
<1> DEFINE row == turns[k]
           new == [row EXCEPT !.status = x]
<1>2. row \in Row
  BY <1>1 DEF Seqs
<1>3. /\ new \in Row
      /\ new.role = row.role /\ new.status = x /\ new.prompt = row.prompt
      /\ new.answers = row.answers
      /\ new.sensitive = row.sensitive /\ new.origins = row.origins
  <2>1. new = [row EXCEPT !.status = x]
    OBVIOUS
  <2> HIDE DEF new, row
  <2>2. QED
    BY <1>2, <2>1, StatusSet
<1>4. t = [turns EXCEPT ![k] = new]
  BY DEF WithStatus
<1> HIDE DEF new
<1>5. t = [i \in 1..Len(turns) |-> IF i = k THEN new ELSE turns[i]]
  BY <1>1, <1>4 DEF Seqs
<1>6. t \in [1..Len(turns) -> Row]
  BY <1>1, <1>3, <1>5
<1>7. t \in Seq(Row)
  BY <1>1, <1>6, SeqDef
<1>8. Len(t) = Len(turns)
  BY <1>1, <1>5, <1>7, LenProperties
<1>9. \A i \in Seqs : t[i] = IF i = k THEN new ELSE turns[i]
  BY <1>5 DEF Seqs
<1>10. QED
  BY <1>3, <1>7, <1>8, <1>9

\* What was sound stays sound.
LEMMA UsersStay ==
    ASSUME IInv, Extended
    PROVE  Users \subseteq Users' /\ \A i \in Seqs : i \in Seqs' /\ IsUser(i)' = IsUser(i)
<1>1. Len(turns) \in Nat /\ Len(turns') \in Nat
  BY LenProperties DEF IInv, Extended
<1>2. \A i \in Seqs : i \in Seqs'
  BY <1>1 DEF Seqs, Extended
<1>3. \A i \in Seqs : IsUser(i)' = IsUser(i)
  BY DEF Extended, Same, IsUser
<1>4. QED
  BY <1>2, <1>3 DEF Users

LEMMA DeclassifiedKept ==
    ASSUME IInv, Extended, NEW o
    PROVE  /\ \A n \in Seqs : Declassified(o, n) => Declassified(o, n)'
           /\ \A n \in Seqs : Declassified(o, n) => DeclassifiedNow(o)
           /\ DeclassifiedNow(o) => DeclassifiedNow(o)'
<1>1. Len(turns) \in Nat /\ Len(turns') \in Nat /\ Len(turns) <= Len(turns')
  BY LenProperties DEF IInv, Extended
<1>2. \A k \in Seqs : /\ turns'[k].answers = turns[k].answers
                      /\ turns'[k].sensitive = turns[k].sensitive
  BY DEF Extended, Same
<1>3. \A n \in Seqs : 1..n \subseteq Seqs /\ 1..Len(turns) \subseteq 1..Len(turns')
  BY <1>1 DEF Seqs
<1>4. ASSUME NEW n \in Seqs PROVE Declassified(o, n) => Declassified(o, n)'
  BY <1>2, <1>3 DEF Declassified
<1>5. ASSUME NEW n \in Seqs PROVE Declassified(o, n) => DeclassifiedNow(o)
  BY <1>3 DEF Declassified, DeclassifiedNow, Seqs
<1>6. DeclassifiedNow(o) => DeclassifiedNow(o)'
  <2>1. 1..Len(turns) \subseteq 1..Len(turns')
    BY <1>1
  <2>2. QED
    BY <1>2, <2>1 DEF Declassified, DeclassifiedNow, Seqs
<1>7. QED
  BY <1>4, <1>5, <1>6

LEMMA TurnKept ==
    ASSUME IInv, Extended
    PROVE  \A r : SoundTurn(r) => SoundTurn(r)'
<1> SUFFICES ASSUME NEW r, SoundTurn(r), r # Idle PROVE SoundTurn(r)'
  BY DEF SoundTurn
<1>1. /\ r \in TurnInTheMaking /\ r.origins \subseteq Users
      /\ \A o \in r.origins : turns[o].sensitive => r.sensitive \/ DeclassifiedNow(o)
      /\ r.at \in {"mark", "run"} => r.seq \in Users /\ turns[r.seq].prompt = r.prompt
  BY DEF SoundTurn
<1>2. Users \subseteq Users' /\ Users \subseteq Seqs
  BY UsersStay DEF Users
<1>3. \A i \in Users : turns'[i].sensitive = turns[i].sensitive /\ turns'[i].prompt = turns[i].prompt
  BY <1>2 DEF Extended, Same
<1>4. \A o \in r.origins : turns'[o].sensitive => r.sensitive \/ DeclassifiedNow(o)'
  BY <1>1, <1>3, DeclassifiedKept
<1>5. QED
  BY <1>1, <1>2, <1>3, <1>4 DEF SoundTurn

LEMMA RowKept ==
    ASSUME IInv, Extended, NEW i \in Seqs,
           IsUser(i) => turns'[i].status # "failed",
           ~IsUser(i) => turns'[i].status = turns[i].status
    PROVE  SoundRow(i)'
<1>1. SoundRow(i) /\ Same(i) /\ IsUser(i)' = IsUser(i) /\ i \in Nat
  BY UsersStay, RowFacts DEF IInv, Extended
<1>2. Users \subseteq Users' /\ Users \subseteq Seqs
  BY UsersStay DEF Users
<1>3. \A o \in turns[i].origins : turns'[o].sensitive = turns[o].sensitive
  BY <1>1, <1>2 DEF SoundRow, Extended, Same
<1>4. ASSUME ~IsUser(i) PROVE turns[i].answers \in 1..(i - 1) /\ IsUser(turns[i].answers)'
  <2>1. turns[i].answers \in 1..(i - 1) /\ IsUser(turns[i].answers)
    BY <1>1, <1>4 DEF SoundRow
  <2>2. turns[i].answers \in Seqs
    BY <1>1, <2>1, RowFacts DEF Seqs, IInv
  <2>3. PICK k : k = turns[i].answers
    OBVIOUS
  <2>4. IsUser(k)'
    BY <2>1, <2>2, <2>3, UsersStay
  <2>5. turns'[i].answers = k
    BY <1>1, <2>3 DEF Same
  <2>6. QED
    BY <2>1, <2>4, <2>5, <2>3
<1>5. \A o \in turns[i].origins :
        turns'[o].sensitive => turns[i].sensitive \/ Declassified(o, i)'
  <2>1. ASSUME NEW o PROVE Declassified(o, i) => Declassified(o, i)'
    BY DeclassifiedKept
  <2>2. \A o \in turns[i].origins : turns[o].sensitive => turns[i].sensitive \/ Declassified(o, i)
    BY <1>1 DEF SoundRow
  <2>3. QED
    BY <1>3, <2>1, <2>2
<1>6. QED
  BY <1>1, <1>2, <1>4, <1>5 DEF SoundRow, Same

\* A step of one terminal.
LEMMA TerminalStep ==
    ASSUME IInv, NEW c \in Chats, NEW r, Becomes(c, r), SoundTurn(r)',
           Extended, Len(turns') <= MaxTurns, open' \in BOOLEAN,
           \A i \in 1..Len(turns') : SoundRow(i)'
    PROVE  /\ IInv' /\ chat'[c] = r
           /\ \A d \in Chats : d # c => chat'[d] = chat[d]
<1>1. /\ chat'[c] = r /\ chat' = [d \in Chats |-> chat'[d]]
      /\ \A d \in Chats : d # c => chat'[d] = chat[d]
  BY DEF IInv, Becomes
<1>2. ASSUME NEW d \in Chats PROVE SoundTurn(chat[d])'
  <2>1. PICK q : q = chat[d]
    OBVIOUS
  <2>2. SoundTurn(q)'
    BY <2>1, TurnKept DEF IInv
  <2>3. CASE d = c
    <3>1. chat'[d] = r
      BY <1>1, <2>3
    <3>2. QED
      BY <3>1
  <2>4. CASE d # c
    <3>1. chat'[d] = q
      BY <1>1, <2>1, <2>4
    <3>2. QED
      BY <2>2, <3>1
  <2>5. QED
    BY <2>3, <2>4
<1>3. QED
  BY <1>1, <1>2 DEF IInv, Extended, Seqs

\* One that writes no row.
LEMMA ReadingStep ==
    ASSUME IInv, NEW c \in Chats, NEW r, Becomes(c, r), SoundTurn(r),
           turns' = turns, open' = open
    PROVE  /\ IInv' /\ chat'[c] = r
           /\ \A d \in Chats : d # c => chat'[d] = chat[d]
<1>1. Extended
  BY RowFacts DEF IInv
<1>2. SoundTurn(r)'
  BY <1>1, TurnKept
<1>3. \A i \in 1..Len(turns') : SoundRow(i)'
  BY <1>1, RowKept DEF IInv, Seqs, SoundRow
<1>4. QED
  BY <1>1, <1>2, <1>3, TerminalStep DEF IInv

-----------------------------------------------------------------------------
(***************************************************************************)
(* The steps, for any number of terminals.                                 *)
(***************************************************************************)
\* A terminal that is done, or dead.
LEMMA IdleStep ==
    ASSUME IInv, NEW c \in Chats, Becomes(c, Idle), turns' = turns, open' = open
    PROVE  IInv' /\ chat'[c] = Idle /\ \A d \in Chats : d # c => chat'[d] = chat[d]
BY ReadingStep DEF SoundTurn

\* One that goes on as it is.
LEMMA GoesStep ==
    ASSUME IInv, NEW c \in Chats, ~Doing(c, "idle"), NEW place \in {"append", "insert"},
           Goes(c, place), turns' = turns, open' = open
    PROVE  /\ IInv' /\ chat'[c].at = place /\ chat'[c].prompt = chat[c].prompt
           /\ \A d \in Chats : d # c => chat'[d] = chat[d]
<1> DEFINE o == chat[c]
           r == [o EXCEPT !.at = place]
<1>1. o \in TurnInTheMaking /\ SoundTurn(o)
  BY IdleApart DEF IInv, Doing, SoundTurn
<1>2. place \in Places
  BY DEF Places
<1>3. Becomes(c, r)
  BY DEF Goes
<1>4. /\ r \in TurnInTheMaking /\ r.at = place /\ r.prompt = o.prompt /\ r.flag = o.flag
      /\ r.sensitive = o.sensitive /\ r.origins = o.origins
  <2>1. r = [o EXCEPT !.at = place]
    OBVIOUS
  <2> HIDE DEF o, r
  <2>2. QED
    BY ONLY <1>1, <1>2, <2>1, SetAt
<1>5. r.at \notin {"mark", "run"}
  BY <1>4
<1> HIDE DEF r, o
<1>6. SoundTurn(r)
  BY <1>1, <1>4, <1>5, IdleApart DEF SoundTurn
<1>7. QED
  BY <1>3, <1>4, <1>6, ReadingStep DEF o

LEMMA BeginStep ==
    ASSUME IInv, NEW c \in Chats, NEW p \in Prompts, NEW flag \in BOOLEAN, Begin(c, p, flag)
    PROVE  /\ IInv' /\ turns' = turns /\ chat'[c].at = "build"
           /\ \A d \in Chats : d # c => chat'[d] = chat[d]
<1> DEFINE r == Turn("build", p, flag, 0, flag, {})
<1>1. Becomes(c, r) /\ turns' = turns /\ open' = open
  BY DEF Begin
<1>2. /\ r.at = "build" /\ r.origins = {} /\ r \in TurnInTheMaking
  BY DEF Turn, TurnInTheMaking, Places
<1> HIDE DEF r
<1>3. SoundTurn(r)
  BY <1>2 DEF SoundTurn
<1>4. QED
  BY <1>1, <1>2, <1>3, ReadingStep

\* The turns that go into the prompt are there, and none is more sensitive than it.
LEMMA BuildContextStep ==
    ASSUME IInv, NEW c \in Chats, BuildContext(c)
    PROVE  /\ IInv' /\ turns' = turns /\ chat'[c].at = "look up"
           /\ \A d \in Chats : d # c => chat'[d] = chat[d]
<1> DEFINE o == chat[c]
           to == "look up"
<1>1. Doing(c, "build") /\ turns' = turns /\ open' = open
  BY DEF BuildContext
<1>2. PICK fitting \in SUBSET Eligible :
        Becomes(c, [chat[c] EXCEPT
                      !.at = "look up",
                      !.sensitive = Effective(chat[c].flag, Newest(fitting)),
                      !.origins = UNION {turns[i].origins : i \in Newest(fitting)}])
  BY DEF BuildContext
<1> DEFINE included == Newest(fitting)
           b == Effective(o.flag, included)
           set == UNION {turns[i].origins : i \in included}
           r1 == [o EXCEPT !.at = to]
           r2 == [r1 EXCEPT !.sensitive = b]
           r == [o EXCEPT !.at = to, !.sensitive = b, !.origins = set]
<1>3. Becomes(c, r)
  BY <1>2
<1>4. included \subseteq Seqs
  BY DEF Newest, Eligible
<1>5. o \in TurnInTheMaking /\ SoundTurn(o)
  BY <1>1, IdleApart DEF IInv, Doing, SoundTurn
<1>6. to \in Places /\ b \in BOOLEAN
  BY DEF Places, Effective
<1>7. set \subseteq Users /\ Users \subseteq Nat
  <2>1. \A i \in included : turns[i].origins \subseteq Users
    BY <1>4 DEF IInv, SoundRow
  <2>2. QED
    BY <2>1 DEF Users, Seqs
<1>8. \A x \in set : turns[x].sensitive => b \/ DeclassifiedNow(x)
  <2>1. \A i \in included : turns[i].sensitive => b
    BY DEF Effective
  <2>2. \A i \in included : \A x \in turns[i].origins :
          turns[x].sensitive => turns[i].sensitive \/ DeclassifiedNow(x)
    <3>1. Extended
      BY <1>1, RowFacts DEF IInv
    <3>2. ASSUME NEW i \in included, NEW x \in turns[i].origins, turns[x].sensitive
          PROVE  turns[i].sensitive \/ DeclassifiedNow(x)
      <4>1. i \in Seqs /\ SoundRow(i)
        BY <1>4 DEF IInv
      <4>2. turns[i].sensitive \/ Declassified(x, i)
        BY <3>2, <4>1 DEF SoundRow
      <4>3. Declassified(x, i) => DeclassifiedNow(x)
        BY <3>1, <4>1, DeclassifiedKept
      <4>4. QED
        BY <4>2, <4>3
    <3>3. QED
      BY <3>2
  <2>3. QED
    BY <2>1, <2>2
<1>9. /\ r \in TurnInTheMaking /\ r.at = to /\ r.prompt = o.prompt /\ r.flag = o.flag
      /\ r.sensitive = b /\ r.origins = set
  <2>1. r1 = [o EXCEPT !.at = to]
    OBVIOUS
  <2>2. r2 = [r1 EXCEPT !.sensitive = b]
    OBVIOUS
  <2>3. r = [r2 EXCEPT !.origins = set]
    OBVIOUS
  <2>4. set \in (SUBSET Nat)
    BY <1>7
  <2> HIDE DEF o, to, included, b, set, r1, r2, r
  <2>5. r1 \in TurnInTheMaking /\ r1.at = to /\ r1.prompt = o.prompt /\ r1.flag = o.flag
    BY ONLY <1>5, <1>6, <2>1, SetAt
  <2>6. /\ r2 \in TurnInTheMaking /\ r2.at = to /\ r2.prompt = o.prompt /\ r2.flag = o.flag
        /\ r2.sensitive = b
    BY ONLY <1>6, <2>2, <2>5, SetSensitive
  <2>7. QED
    BY ONLY <2>3, <2>4, <2>6, SetOrigins
<1>10. r.at \notin {"mark", "run"}
  BY <1>9
<1> HIDE DEF r, o, b, set, included
<1>11. SoundTurn(r)
  BY <1>5, <1>7, <1>8, <1>9, <1>10, IdleApart DEF SoundTurn
<1>12. QED
  BY <1>1, <1>3, <1>9, <1>11, ReadingStep

\* A turn in the making that has found or made its row.
LEMMA MarkRecord ==
    ASSUME IInv, NEW c \in Chats, ~Doing(c, "idle"), NEW k \in Nat
    PROVE  LET r == [chat[c] EXCEPT !.at = "mark", !.seq = k] IN
           /\ r \in TurnInTheMaking /\ r.at = "mark" /\ r.seq = k /\ r.prompt = chat[c].prompt
           /\ r.flag = chat[c].flag /\ r.sensitive = chat[c].sensitive
           /\ r.origins = chat[c].origins
<1> DEFINE o == chat[c]
           to == "mark"
           r1 == [o EXCEPT !.at = to]
           r == [o EXCEPT !.at = to, !.seq = k]
<1>1. o \in TurnInTheMaking /\ to \in Places
  BY IdleApart DEF IInv, Doing, SoundTurn, Places
<1>2. r1 = [o EXCEPT !.at = to]
  OBVIOUS
<1>3. r = [r1 EXCEPT !.seq = k]
  OBVIOUS
<1> HIDE DEF o, to, r1, r
<1>4. /\ r1 \in TurnInTheMaking /\ r1.at = to /\ r1.prompt = o.prompt /\ r1.flag = o.flag
      /\ r1.sensitive = o.sensitive /\ r1.origins = o.origins
  BY ONLY <1>1, <1>2, SetAt
<1>5. /\ r \in TurnInTheMaking /\ r.at = to /\ r.seq = k /\ r.prompt = o.prompt /\ r.flag = o.flag
      /\ r.sensitive = o.sensitive /\ r.origins = o.origins
  BY ONLY <1>3, <1>4, SetSeq
<1>6. QED
  BY <1>5 DEF o, to, r

LEMMA LookUpStep ==
    ASSUME IInv, NEW c \in Chats, LookUp(c)
    PROVE  /\ IInv' /\ turns' = turns
           /\ \A d \in Chats : d # c => chat'[d] = chat[d]
           /\ \/ chat'[c].at = "mark" /\ Trailing(chat'[c].seq)
              \/ /\ chat'[c].at = "append"
                 /\ \A i \in Seqs : Trailing(i) => turns[i].prompt # chat'[c].prompt
<1>1. Doing(c, "look up") /\ turns' = turns /\ open' = open
  BY DEF LookUp
<1>2. ~Doing(c, "idle")
  BY <1>1 DEF Doing
<1>3. ASSUME NEW i \in Seqs, Trailing(i), turns[i].prompt = chat[c].prompt,
             Becomes(c, [chat[c] EXCEPT !.at = "mark", !.seq = i])
      PROVE  /\ IInv' /\ chat'[c].at = "mark" /\ Trailing(chat'[c].seq)
             /\ \A d \in Chats : d # c => chat'[d] = chat[d]
  <2> DEFINE o == chat[c]
             r == [o EXCEPT !.at = "mark", !.seq = i]
  <2>1. i \in Nat /\ i \in Users
    BY <1>3, RowFacts DEF IInv, Trailing, Unfinished, Users
  <2>2. /\ r \in TurnInTheMaking /\ r.at = "mark" /\ r.seq = i /\ r.prompt = o.prompt
        /\ r.flag = o.flag /\ r.sensitive = o.sensitive /\ r.origins = o.origins
    BY <1>2, <2>1, MarkRecord
  <2>3. Becomes(c, r)
    BY <1>3
  <2>4. SoundTurn(o) /\ o # Idle
    BY <1>2, IdleApart DEF IInv, Doing
  <2> HIDE DEF r
  <2>5. SoundTurn(r)
    <3>1. turns[i].prompt = o.prompt
      BY <1>3
    <3> HIDE DEF o
    <3>2. QED
      BY <2>1, <2>2, <2>4, <3>1 DEF SoundTurn
  <2>6. /\ IInv' /\ chat'[c] = r /\ \A d \in Chats : d # c => chat'[d] = chat[d]
    BY <1>1, <2>3, <2>5, ReadingStep
  <2>7. QED
    BY <1>3, <2>2, <2>6
<1>4. ASSUME \A i \in Seqs : Trailing(i) => turns[i].prompt # chat[c].prompt, Goes(c, "append")
      PROVE  /\ IInv' /\ chat'[c].at = "append" /\ chat'[c].prompt = chat[c].prompt
             /\ \A d \in Chats : d # c => chat'[d] = chat[d]
  BY <1>1, <1>2, <1>4, GoesStep
<1>5. QED
  BY <1>1, <1>3, <1>4 DEF LookUp

LEMMA RequireOpenStep ==
    ASSUME IInv, NEW c \in Chats, RequireOpen(c)
    PROVE  /\ IInv' /\ turns' = turns
           /\ \A d \in Chats : d # c => chat'[d] = chat[d]
           /\ \/ chat'[c] = Idle
              \/ chat'[c].at = "insert" /\ chat'[c].prompt = chat[c].prompt
<1>1. Doing(c, "append") /\ turns' = turns /\ open' = open
  BY DEF RequireOpen
<1>2. ~Doing(c, "idle")
  BY <1>1 DEF Doing
<1>3. CASE Becomes(c, Idle)
  BY <1>1, <1>3, IdleStep
<1>4. CASE Goes(c, "insert")
  BY <1>1, <1>2, <1>4, GoesStep
<1>5. QED
  BY <1>3, <1>4 DEF RequireOpen

\* What an appended row leaves.
LEMMA RowAppended ==
    ASSUME NEW t \in Seq(Row), NEW row \in Row, NEW u, u = Append(t, row)
    PROVE  /\ u \in Seq(Row) /\ Len(t) \in Nat /\ Len(u) = Len(t) + 1
           /\ \A i \in 1..Len(t) : u[i] = t[i]
           /\ u[Len(t) + 1] = row
BY AppendProperties, LenProperties

LEMMA InsertStep ==
    ASSUME IInv, NEW c \in Chats, Insert(c)
    PROVE  LET n == Len(turns) + 1 IN
           /\ IInv' /\ n \in Nat /\ Len(turns') = n
           /\ \A i \in Seqs : turns'[i] = turns[i]
           /\ turns'[n].role = "user" /\ turns'[n].status = "pending"
           /\ turns'[n].prompt = chat[c].prompt /\ turns'[n].answers = 0
           /\ chat'[c].at = "mark" /\ chat'[c].seq = n
           /\ \A d \in Chats : d # c => chat'[d] = chat[d]
<1> DEFINE n == Len(turns) + 1
           o == chat[c]
           row == UserTurn(o.prompt, o.flag, n)
           r == [o EXCEPT !.at = "mark", !.seq = n]
<1>1. /\ Doing(c, "insert") /\ Room(2) /\ turns' = Append(turns, row) /\ Becomes(c, r)
      /\ open' = open
  BY DEF Insert
<1>2. turns \in Seq(Row) /\ Len(turns) \in Nat /\ n \in Nat
  BY LenProperties DEF IInv
<1>3. SoundTurn(o) /\ o # Idle /\ ~Doing(c, "idle") /\ o \in TurnInTheMaking
  BY <1>1, IdleApart DEF IInv, Doing, SoundTurn
<1>4. o.prompt \in Prompts /\ o.flag \in BOOLEAN
  BY <1>3 DEF SoundTurn, TurnInTheMaking
<1>5. /\ r \in TurnInTheMaking /\ r.at = "mark" /\ r.seq = n /\ r.prompt = o.prompt
      /\ r.flag = o.flag /\ r.sensitive = o.sensitive /\ r.origins = o.origins
  BY <1>2, <1>3, MarkRecord
<1> HIDE DEF r
<1>6. /\ row \in Row /\ row.role = "user" /\ row.status = "pending" /\ row.prompt = o.prompt
      /\ row.answers = 0 /\ row.sensitive = o.flag /\ row.origins = {n}
  <2> HIDE DEF n, o
  <2>1. QED
    BY <1>2, <1>4 DEF UserTurn, Row, Status
<1> HIDE DEF row
<1>7. /\ turns' \in Seq(Row) /\ Len(turns') = n /\ turns'[n] = row
      /\ \A i \in Seqs : turns'[i] = turns[i]
  BY <1>1, <1>2, <1>6, RowAppended DEF Seqs
<1>8. Extended
  BY <1>2, <1>7 DEF Extended, Same
<1>9. Len(turns') <= MaxTurns
  BY <1>1, <1>2, <1>7, SessionConstantsOK DEF Room
<1>10. n \in Seqs' /\ n \in Users'
  BY <1>2, <1>6, <1>7 DEF Seqs, Users, IsUser
<1>11. ASSUME NEW i \in 1..Len(turns') PROVE SoundRow(i)'
  <2>1. CASE i \in Seqs
    BY <1>7, <1>8, <2>1, RowKept DEF IInv, SoundRow
  <2>2. CASE i = n
    <3>1. turns'[i] = row
      BY <1>7, <2>2
    <3>2. row.origins \subseteq Users'
      BY <1>6, <1>10
    <3>3. \A x \in row.origins : turns'[x].sensitive => row.sensitive
      BY <1>6, <1>7
    <3>4. QED
      BY <1>6, <3>1, <3>2, <3>3 DEF SoundRow, IsUser
  <2>3. QED
    BY <1>2, <1>7, <2>1, <2>2 DEF Seqs
<1>12. PICK s : s = r
  OBVIOUS
<1>13. /\ s.at = "mark" /\ s.seq = n /\ s.prompt = o.prompt /\ s \in TurnInTheMaking
       /\ s.flag = o.flag /\ s.sensitive = o.sensitive /\ s.origins = o.origins
  BY <1>5, <1>12
<1>14. SoundTurn(s)'
  <2>1. Users \subseteq Users' /\ Users \subseteq Seqs
    BY <1>8, UsersStay DEF Users
  <2>2. \A x \in Users : turns'[x].sensitive = turns[x].sensitive
    BY <2>1, <1>7
  <2>3. turns'[n].prompt = o.prompt
    BY <1>6, <1>7
  <2>4. PICK q : q = o
    OBVIOUS
  <2>5. SoundTurn(q)' /\ q # Idle
    BY <1>3, <1>8, <2>4, TurnKept
  <2>6. PICK m : m = n
    OBVIOUS
  <2>7. /\ s.at = "mark" /\ s.seq = m /\ s.prompt = q.prompt /\ s \in TurnInTheMaking
        /\ s.flag = q.flag /\ s.sensitive = q.sensitive /\ s.origins = q.origins
    BY <1>13, <2>4, <2>6
  <2> HIDE DEF o, n
  <2>8. QED
    BY <1>10, <2>1, <2>2, <2>3, <2>4, <2>5, <2>6, <2>7 DEF SoundTurn
<1>15. Becomes(c, s)
  BY <1>1, <1>12
<1>16. IInv' /\ chat'[c] = s /\ \A d \in Chats : d # c => chat'[d] = chat[d]
  BY <1>1, <1>8, <1>9, <1>11, <1>14, <1>15, TerminalStep DEF IInv
<1>17. QED
  BY <1>2, <1>6, <1>7, <1>13, <1>16

\* What a terminal knows of the row it works on.
LEMMA AtWork ==
    ASSUME IInv, NEW c \in Chats, chat[c].at \in {"mark", "run"}
    PROVE  /\ chat[c] \in TurnInTheMaking /\ SoundTurn(chat[c]) /\ chat[c] # Idle
           /\ chat[c].seq \in Users /\ chat[c].seq \in Seqs /\ chat[c].seq \in Nat
<1>1. chat[c] # Idle
  BY IdleApart
<1>2. SoundTurn(chat[c])
  BY DEF IInv
<1>3. QED
  BY <1>1, <1>2, RowFacts DEF SoundTurn, Users, IInv

\* A status that changes keeps the rows sound.
LEMMA StatusStep ==
    ASSUME IInv, NEW k \in Users, NEW x \in Status, x # "failed",
           turns' = [turns EXCEPT ![k].status = x]
    PROVE  /\ Extended /\ Len(turns') = Len(turns)
           /\ \A i \in Seqs : turns'[i].status = IF i = k THEN x ELSE turns[i].status
           /\ \A i \in 1..Len(turns') : SoundRow(i)'
<1>1. k \in Seqs /\ IsUser(k) /\ turns \in Seq(Row) /\ Len(turns) \in Nat
  BY LenProperties DEF Users, IInv
<1>2. /\ turns' \in Seq(Row) /\ Len(turns') = Len(turns)
      /\ \A i \in Seqs :
           /\ turns'[i].role = turns[i].role /\ turns'[i].prompt = turns[i].prompt
           /\ turns'[i].answers = turns[i].answers
           /\ turns'[i].sensitive = turns[i].sensitive
           /\ turns'[i].origins = turns[i].origins
           /\ turns'[i].status = IF i = k THEN x ELSE turns[i].status
  <2>1. PICK t : t = turns'
    OBVIOUS
  <2>2. t = WithStatus(k, x)
    BY <2>1 DEF WithStatus
  <2>3. /\ t \in Seq(Row) /\ Len(t) = Len(turns)
        /\ \A i \in Seqs :
             /\ t[i].role = turns[i].role /\ t[i].prompt = turns[i].prompt
             /\ t[i].answers = turns[i].answers
             /\ t[i].sensitive = turns[i].sensitive
             /\ t[i].origins = turns[i].origins
             /\ t[i].status = IF i = k THEN x ELSE turns[i].status
    BY ONLY <1>1, <2>2, x \in Status, StatusChange
  <2>4. QED
    BY <2>1, <2>3
<1>3. Extended
  BY <1>1, <1>2 DEF Extended, Same
<1>4. ASSUME NEW i \in Seqs PROVE SoundRow(i)'
  <2>1. IsUser(i) => turns'[i].status # "failed"
    BY <1>2 DEF IInv, SoundRow
  <2>2. ~IsUser(i) => turns'[i].status = turns[i].status
    BY <1>1, <1>2
  <2>3. QED
    BY <1>3, <2>1, <2>2, RowKept
<1>5. QED
  BY <1>2, <1>3, <1>4 DEF Seqs

LEMMA MarkProcessingStep ==
    ASSUME IInv, NEW c \in Chats, MarkProcessing(c)
    PROVE  /\ IInv' /\ Extended /\ Len(turns') = Len(turns)
           /\ \A i \in Seqs :
                turns'[i].status = IF i = chat[c].seq THEN "processing" ELSE turns[i].status
           /\ chat'[c].at = "run" /\ chat'[c].seq = chat[c].seq
           /\ \A d \in Chats : d # c => chat'[d] = chat[d]
<1> DEFINE o == chat[c]
           to == "run"
           r == [o EXCEPT !.at = to]
<1>1. /\ Doing(c, "mark") /\ turns' = [turns EXCEPT ![o.seq].status = "processing"]
      /\ Becomes(c, r) /\ open' = open
  BY DEF MarkProcessing, Goes
<1>2. o \in TurnInTheMaking /\ SoundTurn(o) /\ o # Idle /\ o.seq \in Users /\ o.at = "mark"
  BY <1>1, AtWork DEF Doing
<1>3. /\ Extended /\ Len(turns') = Len(turns)
      /\ \A i \in Seqs : turns'[i].status = IF i = o.seq THEN "processing" ELSE turns[i].status
      /\ \A i \in 1..Len(turns') : SoundRow(i)'
  BY <1>1, <1>2, StatusStep DEF Status
<1>4. PICK q : q = o
  OBVIOUS
<1>5. SoundTurn(q) /\ SoundTurn(q)' /\ q \in TurnInTheMaking /\ q # Idle /\ q.at = "mark"
  BY <1>2, <1>3, <1>4, TurnKept
<1>6. to \in Places
  BY DEF Places
<1>7. PICK s : s = [q EXCEPT !.at = to]
  OBVIOUS
<1>8. Becomes(c, s)
  BY <1>1, <1>4, <1>7
<1>9. /\ s \in TurnInTheMaking /\ s.at = to /\ s.prompt = q.prompt /\ s.flag = q.flag
      /\ s.seq = q.seq /\ s.sensitive = q.sensitive /\ s.origins = q.origins
  BY ONLY <1>5, <1>6, <1>7, SetAt
<1>10. SoundTurn(s)'
  <2> HIDE DEF to, o, r
  <2>1. QED
    BY <1>5, <1>9 DEF SoundTurn
<1>11. /\ IInv' /\ chat'[c] = s /\ \A d \in Chats : d # c => chat'[d] = chat[d]
  BY <1>1, <1>3, <1>8, <1>10, TerminalStep DEF IInv
<1>12. QED
  BY <1>3, <1>4, <1>9, <1>11

LEMMA InterruptStep ==
    ASSUME IInv, NEW c \in Chats, Interrupt(c)
    PROVE  /\ IInv' /\ Extended /\ Len(turns') = Len(turns)
           /\ \A i \in Seqs :
                turns'[i].status = IF i = chat[c].seq THEN "interrupted" ELSE turns[i].status
           /\ chat'[c] = Idle
           /\ \A d \in Chats : d # c => chat'[d] = chat[d]
<1>1. /\ Doing(c, "run") /\ turns' = [turns EXCEPT ![chat[c].seq].status = "interrupted"]
      /\ Becomes(c, Idle) /\ open' = open
  BY DEF Interrupt
<1>2. chat[c].seq \in Users
  BY <1>1, AtWork DEF Doing
<1>3. /\ Extended /\ Len(turns') = Len(turns)
      /\ \A i \in Seqs :
           turns'[i].status = IF i = chat[c].seq THEN "interrupted" ELSE turns[i].status
      /\ \A i \in 1..Len(turns') : SoundRow(i)'
  BY <1>1, <1>2, StatusStep DEF Status
<1>4. SoundTurn(Idle)'
  BY DEF SoundTurn
<1>5. QED
  BY <1>1, <1>3, <1>4, TerminalStep DEF IInv

LEMMA AnswerStep ==
    ASSUME IInv, NEW c \in Chats, NEW success \in BOOLEAN, Answer(c, success)
    PROVE  LET n == Len(turns) + 1
               k == chat[c].seq IN
           /\ IInv' /\ n \in Nat /\ Len(turns') = n
           /\ \A i \in Seqs :
                /\ Same(i)
                /\ turns'[i].status = IF i = k THEN "completed" ELSE turns[i].status
           /\ turns'[n].role = "assistant" /\ turns'[n].answers = k
           /\ chat'[c] = Idle
           /\ \A d \in Chats : d # c => chat'[d] = chat[d]
<1> DEFINE n == Len(turns) + 1
           o == chat[c]
           k == o.seq
           set == o.origins \cup {k}
           row == AssistantTurn(k, success, o.sensitive, set)
           t == WithStatus(k, "completed")
<1>1. /\ Doing(c, "run") /\ Room(1) /\ turns' = Append(t, row) /\ Becomes(c, Idle)
      /\ open' = open
  BY DEF Answer, WithStatus
<1>2. turns \in Seq(Row) /\ Len(turns) \in Nat /\ n \in Nat
  BY LenProperties DEF IInv
<1>3. /\ o \in TurnInTheMaking /\ SoundTurn(o) /\ o # Idle /\ o.at = "run"
      /\ k \in Users /\ k \in Seqs /\ k \in Nat
  BY <1>1, AtWork DEF Doing
<1>4. /\ t \in Seq(Row) /\ Len(t) = Len(turns)
      /\ \A i \in Seqs :
           /\ t[i].role = turns[i].role /\ t[i].prompt = turns[i].prompt
           /\ t[i].answers = turns[i].answers /\ t[i].sensitive = turns[i].sensitive
           /\ t[i].origins = turns[i].origins
           /\ t[i].status = IF i = k THEN "completed" ELSE turns[i].status
  <2>1. "completed" \in Status
    BY DEF Status
  <2>2. t = WithStatus(k, "completed")
    OBVIOUS
  <2>3. PICK x \in Status : x = "completed"
    BY <2>1
  <2> HIDE DEF t, k
  <2>4. t = WithStatus(k, x)
    BY <2>2, <2>3
  <2>5. /\ t \in Seq(Row) /\ Len(t) = Len(turns)
        /\ \A i \in Seqs :
             /\ t[i].role = turns[i].role /\ t[i].prompt = turns[i].prompt
             /\ t[i].answers = turns[i].answers /\ t[i].sensitive = turns[i].sensitive
             /\ t[i].origins = turns[i].origins
             /\ t[i].status = IF i = k THEN x ELSE turns[i].status
    BY ONLY <1>2, <1>3, <2>3, <2>4, StatusChange
  <2>6. QED
    BY <2>3, <2>5
<1>5. o.sensitive \in BOOLEAN /\ o.origins \subseteq Users /\ set \subseteq Users /\ set \subseteq Nat
  BY <1>3 DEF SoundTurn, TurnInTheMaking, Users, Seqs
<1>6. /\ row \in Row /\ row.role = "assistant" /\ row.status \in {"completed", "failed"}
      /\ row.answers = k /\ row.sensitive = o.sensitive /\ row.origins = set
  <2> HIDE DEF k, o, set
  <2>1. QED
    BY <1>3, <1>5 DEF AssistantTurn, Row, Status, NoPrompt
<1>7. \A x \in o.origins : turns[x].sensitive => o.sensitive \/ DeclassifiedNow(x)
  BY <1>3 DEF SoundTurn
<1> HIDE DEF t, row
<1>8. /\ turns' \in Seq(Row) /\ Len(turns') = n /\ turns'[n] = row
      /\ \A i \in Seqs : turns'[i] = t[i]
  BY <1>1, <1>2, <1>4, <1>6, RowAppended DEF Seqs
<1>9. Extended
  BY <1>2, <1>4, <1>8 DEF Extended, Same
<1>10. Len(turns') <= MaxTurns
  BY <1>1, <1>2, <1>8, SessionConstantsOK DEF Room
<1>11. n \in Seqs' /\ Users \subseteq Users' /\ k \in Users' /\ Users \subseteq Seqs
  BY <1>2, <1>3, <1>8, <1>9, UsersStay DEF Seqs, Users
<1>12. ASSUME NEW i \in 1..Len(turns') PROVE SoundRow(i)'
  <2>1. CASE i \in Seqs
    <3>1. IsUser(i) => turns'[i].status # "failed"
      BY <1>4, <1>8, <2>1 DEF IInv, SoundRow
    <3>2. ~IsUser(i) => turns'[i].status = turns[i].status
      BY <1>3, <1>4, <1>8, <2>1 DEF Users
    <3>3. QED
      BY <1>9, <2>1, <3>1, <3>2, RowKept
  <2>2. CASE i = n
    <3>1. turns'[i] = row
      BY <1>8, <2>2
    <3>2. PICK m : m = k
      OBVIOUS
    <3>3. m \in 1..(i - 1) /\ IsUser(m)'
      BY <1>2, <1>3, <1>11, <2>2, <3>2 DEF Seqs, Users
    <3>4. row.origins \subseteq Users'
      BY <1>5, <1>6, <1>11
    <3>5. \A x \in row.origins : turns'[x].sensitive => row.sensitive \/ Declassified(x, i)'
      <4>1. \A x \in row.origins : turns'[x].sensitive = turns[x].sensitive
        BY <1>4, <1>5, <1>6, <1>8, <1>11
      <4>2. \A x : DeclassifiedNow(x) => Declassified(x, i)'
        BY <1>8, <1>9, <2>2, DeclassifiedKept DEF DeclassifiedNow
      <4>3. ~row.sensitive => Declassified(m, i)'
        <5>1. n \in 1..i /\ turns'[n].answers = m /\ turns'[n].sensitive = row.sensitive
          BY <1>2, <1>6, <1>8, <2>2, <3>2
        <5> HIDE DEF k, n
        <5>2. QED
          BY <5>1 DEF Declassified
      <4>4. row.origins = o.origins \cup {m} /\ row.sensitive = o.sensitive
        BY <1>6, <3>2
      <4> HIDE DEF k, set, o, n
      <4>5. QED
        BY <1>7, <4>1, <4>2, <4>3, <4>4
    <3>6. row.answers = m
      BY <1>6, <3>2
    <3> HIDE DEF k, set, o, n
    <3>7. QED
      BY <1>6, <3>1, <3>3, <3>4, <3>5, <3>6 DEF SoundRow, IsUser
  <2>3. QED
    BY <1>2, <1>8, <2>1, <2>2 DEF Seqs
<1>13. SoundTurn(Idle)'
  BY DEF SoundTurn
<1>14. IInv' /\ chat'[c] = Idle /\ \A d \in Chats : d # c => chat'[d] = chat[d]
  BY <1>1, <1>9, <1>10, <1>12, <1>13, TerminalStep DEF IInv
<1>15. QED
  BY <1>2, <1>4, <1>6, <1>8, <1>9, <1>14 DEF Extended

\* A session that is closed or resumed, and nothing at all.
LEMMA StillStep ==
    ASSUME IInv, open' \in BOOLEAN, turns' = turns, chat' = chat
    PROVE  IInv'
<1>1. Extended
  BY RowFacts DEF IInv
<1>2. \A i \in Seqs : SoundRow(i)'
  BY <1>1, RowKept DEF IInv, SoundRow
<1>3. \A c \in Chats : SoundTurn(chat[c])'
  <2> SUFFICES ASSUME NEW c \in Chats PROVE SoundTurn(chat[c])'
    OBVIOUS
  <2>1. PICK r : r = chat[c]
    OBVIOUS
  <2>2. SoundTurn(r)'
    BY <1>1, <2>1, TurnKept DEF IInv
  <2>3. QED
    BY <2>1, <2>2
<1>4. QED
  BY <1>2, <1>3 DEF IInv, Seqs

LEMMA InitIInv == Init => IInv
<1> SUFFICES ASSUME Init PROVE IInv
  OBVIOUS
<1>1. turns = << >> /\ turns \in Seq(Row) /\ Len(turns) = 0 /\ Seqs = {}
  BY EmptySeq DEF Init, Seqs
<1>2. \A c \in Chats : chat[c] = Idle
  BY DEF Init
<1>3. QED
  BY <1>1, <1>2, SessionConstantsOK DEF Init, IInv, SoundTurn

LEMMA NextIInv == IInv /\ [Next]_vars => IInv'
<1> SUFFICES ASSUME IInv, [Next]_vars PROVE IInv'
  OBVIOUS
<1>1. CASE Close \/ Resume \/ UNCHANGED vars
  BY <1>1, StillStep DEF IInv, Close, Resume, vars
<1>2. ASSUME NEW c \in Chats, NEW p \in Prompts, NEW flag \in BOOLEAN, Begin(c, p, flag)
      PROVE  IInv'
  BY <1>2, BeginStep
<1>3. ASSUME NEW c \in Chats, ChatStep(c) PROVE IInv'
  <2>1. CASE BuildContext(c)
    BY <2>1, BuildContextStep
  <2>2. CASE LookUp(c)
    BY <2>2, LookUpStep
  <2>3. CASE RequireOpen(c)
    BY <2>3, RequireOpenStep
  <2>4. CASE Insert(c)
    BY <2>4, InsertStep
  <2>5. CASE MarkProcessing(c)
    BY <2>5, MarkProcessingStep
  <2>6. ASSUME NEW success \in BOOLEAN, Answer(c, success) PROVE IInv'
    BY <2>6, AnswerStep
  <2>7. CASE Interrupt(c)
    BY <2>7, InterruptStep
  <2>8. CASE Die(c)
    BY <2>8, IdleStep DEF Die
  <2>9. QED
    BY <1>3, <2>1, <2>2, <2>3, <2>4, <2>5, <2>6, <2>7, <2>8 DEF ChatStep
<1>4. QED
  BY <1>1, <1>2, <1>3 DEF Next

\* The invariant holds for any number of terminals (run_session_turn, close, resume).
THEOREM SessionInvariance == Spec => []IInv
BY InitIInv, NextIInv, PTL DEF Spec

\* kernel/migrations.py:303-324: the rows keep to their columns and their references.
THEOREM SessionTypeCorrect == Spec => []TypeOK
<1>1. IInv => TypeOK
  <2> SUFFICES ASSUME IInv PROVE TypeOK
    OBVIOUS
  <2>1. \A i \in Seqs : turns[i].role \in {"user", "assistant"} /\ turns[i].status \in Status
                         /\ turns[i].sensitive \in BOOLEAN
    BY RowFacts DEF IInv, Row
  <2>2. \A c \in Chats : Doing(c, "mark") \/ Doing(c, "run") => chat[c].seq \in Seqs
    BY AtWork DEF Doing
  <2>3. QED
    BY <2>1, <2>2 DEF IInv, TypeOK, SoundRow, Users
<1>2. QED
  BY <1>1, SessionInvariance, PTL

\* sessions.py:530-588, run_session_turn(): with any number of terminals talking, dying and
\* coming back with whatever flags, an answer into which a sensitive turn has gone is
\* sensitive, unless that turn had been answered without its flag.
THEOREM ClassificationKept == Spec => []LostOnlyByRetry
<1>1. IInv => LostOnlyByRetry
  BY DEF IInv, LostOnlyByRetry, SoundRow
<1>2. QED
  BY <1>1, SessionInvariance, PTL

-----------------------------------------------------------------------------
(***************************************************************************)
(* Terminals that wait for each other.                                     *)
(***************************************************************************)
\* LastUnfinished, of one turn in the making.
InPlace(r) ==
    /\ r.at \in {"mark", "run"} => Trailing(r.seq)
    /\ r.at \in {"append", "insert"} =>
         \A i \in Seqs : Trailing(i) => turns[i].prompt # r.prompt

LEMMA InPlaceAgrees == LastUnfinished <=> \A c \in Chats : InPlace(chat[c])
BY DEF LastUnfinished, InPlace, Doing

\* Rows that stay as they are.
LEMMA RowsStill ==
    ASSUME SingleIInv, turns' = turns
    PROVE  /\ Answered' /\ RetryReusesTurn'
           /\ \A r : InPlace(r) => InPlace(r)'
<1>1. Seqs' = Seqs /\ Unfinished' = Unfinished /\ Users' = Users
  BY DEF Seqs, Unfinished, Users, IsUser
<1>2. \A i : Trailing(i)' = Trailing(i) /\ Answers(i)' = Answers(i)
  BY <1>1 DEF Trailing, Answers
<1>3. \A r : InPlace(r) => InPlace(r)'
  BY <1>1, <1>2 DEF InPlace
<1>4. Answered'
  BY <1>1, <1>2 DEF SingleIInv, Answered
<1>5. RetryReusesTurn'
  BY <1>1 DEF SingleIInv, RetryReusesTurn
<1>6. QED
  BY <1>3, <1>4, <1>5

OthersStay(c) == \A d \in Chats : d # c => chat'[d] = chat[d]

\* A terminal that writes is the only one in the section.
LEMMA OnlyOne ==
    ASSUME SingleIInv, OneInSection, NEW c \in Chats, NEW r, chat'[c] = r, InPlace(r)',
           OthersStay(c), turns' = turns \/ InSection(c)
    PROVE  LastUnfinished'
<1>1. ASSUME NEW d \in Chats PROVE \E q : chat'[d] = q /\ InPlace(q)'
  <2>1. CASE d = c
    BY <2>1
  <2>2. CASE d # c
    <3>1. PICK q : q = chat[d]
      OBVIOUS
    <3>2. chat'[d] = q /\ InPlace(q)
      BY <2>2, <3>1, InPlaceAgrees DEF OthersStay, SingleIInv
    <3>3. CASE turns' = turns
      <4>1. InPlace(q)'
        BY <3>2, <3>3, RowsStill
      <4>2. QED
        BY <3>2, <4>1
    <3>4. CASE InSection(c)
      <4>1. q.at \notin {"append", "insert", "mark", "run"}
        BY <2>2, <3>1, <3>4 DEF OneInSection, InSection
      <4>2. InPlace(q)'
        BY <4>1 DEF InPlace
      <4>3. QED
        BY <3>2, <4>2
    <3>5. QED
      BY <3>3, <3>4
  <2>3. QED
    BY <2>1, <2>2
<1>2. QED
  BY <1>1 DEF LastUnfinished, InPlace, Doing

\* A row that goes from one unfinished status to another.
LEMMA StillUnfinished ==
    ASSUME SingleIInv, Extended, Len(turns') = Len(turns),
           NEW k \in Unfinished, NEW x \in {"processing", "interrupted"},
           \A i \in Seqs : turns'[i].status = IF i = k THEN x ELSE turns[i].status
    PROVE  /\ Answered' /\ RetryReusesTurn'
           /\ \A i : Trailing(i)' = Trailing(i)
<1>1. Seqs' = Seqs
  BY DEF Seqs
<1>2. Users' = Users /\ k \in Users
  BY <1>1 DEF Users, Extended, Same, IsUser, Unfinished
<1>3. Unfinished' = Unfinished
  BY <1>1, <1>2 DEF Unfinished, Extended, Same, IsUser
<1>4. \A i : Trailing(i)' = Trailing(i) /\ Answers(i)' = Answers(i)
  BY <1>1, <1>3 DEF Trailing, Answers, Extended, Same
<1>5. Answered'
  <2>1. ASSUME NEW i \in Users
        PROVE  /\ i \in Seqs
               /\ turns'[i].status = "completed" <=> turns[i].status = "completed"
    BY DEF Users, Unfinished
  <2>2. QED
    BY <1>1, <1>2, <1>4, <2>1 DEF SingleIInv, Answered
<1>6. RetryReusesTurn'
  <2>1. \A i \in Unfinished : turns'[i].prompt = turns[i].prompt
    BY DEF Unfinished, Extended, Same
  <2>2. QED
    BY <1>3, <2>1 DEF SingleIInv, RetryReusesTurn
<1>7. QED
  BY <1>4, <1>5, <1>6

LEMMA InsertAlone ==
    ASSUME SingleIInv, OneInSection, NEW c \in Chats, Insert(c)
    PROVE  SingleIInv'
<1>1. PICK n : n = Len(turns) + 1
  OBVIOUS
<1>2. /\ IInv' /\ n \in Nat /\ Len(turns') = n
      /\ \A i \in Seqs : turns'[i] = turns[i]
      /\ turns'[n].role = "user" /\ turns'[n].status = "pending"
      /\ turns'[n].prompt = chat[c].prompt /\ turns'[n].answers = 0
      /\ chat'[c].at = "mark" /\ chat'[c].seq = n
      /\ OthersStay(c) /\ InSection(c)
  BY <1>1, InsertStep DEF SingleIInv, OthersStay, Insert, Doing, InSection
<1>3. \A i \in Seqs : Trailing(i) => turns[i].prompt # chat[c].prompt
  BY DEF SingleIInv, LastUnfinished, Insert, Doing
<1>4. /\ Len(turns) \in Nat /\ Seqs' = Seqs \cup {n} /\ n \notin Seqs
      /\ \A i \in Seqs : i < n /\ i \in Nat /\ i # 0
  <2>1. Len(turns) \in Nat
    BY LenProperties DEF SingleIInv, IInv
  <2>2. QED
    BY <1>1, <1>2, <2>1 DEF Seqs
<1>5. Users' = Users \cup {n} /\ Unfinished' = Unfinished \cup {n}
  BY <1>2, <1>4 DEF Users, Unfinished, IsUser
<1>6. Trailing(n)'
  <2>1. n \in Unfinished' /\ \A i \in Unfinished' : i <= n
    BY <1>2, <1>4, <1>5 DEF Unfinished
  <2>2. QED
    BY <2>1 DEF Trailing
<1>7. LastUnfinished'
  <2>1. PICK r : r = chat'[c]
    OBVIOUS
  <2>2. r.at = "mark" /\ r.seq = n
    BY <1>2, <2>1
  <2>3. InPlace(r)'
    BY <1>6, <2>2 DEF InPlace
  <2>4. QED
    BY <1>2, <2>1, <2>3, OnlyOne
<1>8. Answered'
  <2>1. \A j \in Seqs : turns[j].answers # n
    <3>1. \A j \in Seqs : turns[j].answers \in 0..(j - 1)
      BY <1>4 DEF SingleIInv, IInv, SoundRow
    <3>2. QED
      BY <1>2, <1>4, <3>1
  <2>2. Answers(n)' = {}
    <3>1. n # 0
      BY <1>1, <1>4
    <3>2. \A j \in Seqs' : turns'[j].answers # n
      BY <1>2, <1>4, <2>1, <3>1
    <3>3. QED
      BY <3>2 DEF Answers
  <2>3. ASSUME NEW i \in Users PROVE Answers(i)' = Answers(i) /\ turns'[i].status = turns[i].status
    BY <1>2, <1>4 DEF Answers, Users
  <2>4. QED
    BY <1>2, <1>4, <1>5, <2>2, <2>3 DEF SingleIInv, Answered
<1>9. RetryReusesTurn'
  <2> SUFFICES ASSUME NEW i \in Unfinished', NEW j \in Unfinished', i < j,
                      \A k \in Unfinished' : ~(i < k /\ k < j)
               PROVE  turns'[i].prompt # turns'[j].prompt
    BY DEF RetryReusesTurn
  <2>1. i \in Unfinished /\ i \in Seqs
    <3>1. \A m \in Unfinished' : m <= n
      BY <1>2, <1>4, <1>5 DEF Unfinished
    <3>2. i # n
      <4>1. j <= n /\ j \in Nat
        BY <1>2, <1>4, <3>1 DEF Unfinished
      <4>2. QED
        BY <1>2, <4>1
    <3>3. QED
      BY <1>5, <3>2 DEF Unfinished
  <2>2. CASE j = n
    <3>1. \A k \in Unfinished : k <= i
      BY <1>4, <1>5, <2>1, <2>2 DEF Unfinished
    <3>2. Trailing(i)
      BY <2>1, <3>1 DEF Trailing
    <3>3. QED
      BY <1>2, <1>3, <2>1, <2>2, <3>2
  <2>3. CASE j \in Unfinished
    <3>1. turns[i].prompt # turns[j].prompt
      BY <1>5, <2>1, <2>3 DEF SingleIInv, RetryReusesTurn
    <3>2. QED
      BY <1>2, <2>1, <2>3, <3>1 DEF Unfinished
  <2>4. QED
    BY <1>5, <2>2, <2>3
<1>10. QED
  BY <1>2, <1>7, <1>8, <1>9 DEF SingleIInv

LEMMA AnswerAlone ==
    ASSUME SingleIInv, OneInSection, NEW c \in Chats, NEW success \in BOOLEAN,
           Answer(c, success)
    PROVE  SingleIInv'
<1>1. PICK n, k : n = Len(turns) + 1 /\ k = chat[c].seq
  OBVIOUS
<1>2. /\ IInv' /\ n \in Nat /\ Len(turns') = n
      /\ \A i \in Seqs :
           /\ Same(i)
           /\ turns'[i].status = IF i = k THEN "completed" ELSE turns[i].status
      /\ turns'[n].role = "assistant" /\ turns'[n].answers = k
      /\ chat'[c] = Idle
      /\ OthersStay(c) /\ InSection(c)
  BY <1>1, AnswerStep DEF SingleIInv, OthersStay, Answer, Doing, InSection
<1>3. Trailing(k) /\ k \in Unfinished /\ k \in Users /\ \A i \in Unfinished : i <= k
  BY <1>1 DEF SingleIInv, LastUnfinished, Answer, Doing, Trailing, Unfinished, Users
<1>4. /\ Len(turns) \in Nat /\ Seqs' = Seqs \cup {n} /\ n \notin Seqs
      /\ \A i \in Seqs : i < n /\ i \in Nat /\ i # 0
  <2>1. Len(turns) \in Nat
    BY LenProperties DEF SingleIInv, IInv
  <2>2. QED
    BY <1>1, <1>2, <2>1 DEF Seqs
<1>5. Users' = Users /\ Unfinished' = Unfinished \ {k}
  <2>1. \A i \in Seqs : IsUser(i)' = IsUser(i)
    BY <1>2 DEF IsUser, Same
  <2>2. ~IsUser(n)'
    BY <1>2 DEF IsUser
  <2>3. Users' = Users
    BY <1>4, <2>1, <2>2 DEF Users
  <2>4. ASSUME NEW i \in Seqs PROVE i \in Unfinished' <=> i \in Unfinished /\ i # k
    <3>1. turns'[i].status = IF i = k THEN "completed" ELSE turns[i].status
      BY <1>2
    <3>2. i \in Seqs'
      BY <1>4
    <3>3. CASE i = k
      BY <3>1, <3>3 DEF Unfinished
    <3>4. CASE i # k
      BY <2>1, <3>1, <3>2, <3>4 DEF Unfinished
    <3>5. QED
      BY <3>3, <3>4
  <2>5. n \notin Unfinished' /\ n \notin Unfinished
    BY <1>4, <2>2 DEF Unfinished
  <2>6. Unfinished' \subseteq Seqs \cup {n} /\ Unfinished \subseteq Seqs
    BY <1>4 DEF Unfinished
  <2>7. QED
    BY <2>3, <2>4, <2>5, <2>6
<1>6. LastUnfinished'
  <2>1. InPlace(Idle)'
    BY IdleApart DEF InPlace
  <2>2. QED
    BY <1>2, <2>1, OnlyOne
<1>7. Answered'
  <2>1. k \in Seqs /\ turns[k].status # "completed" /\ Answers(k) = {}
    BY <1>3 DEF SingleIInv, Answered, Unfinished
  <2>2. Answers(k)' = {n}
    BY <1>2, <1>4, <2>1 DEF Answers, Same
  <2>3. ASSUME NEW i \in Users, i # k
        PROVE  Answers(i)' = Answers(i) /\ turns'[i].status = turns[i].status
    BY <1>2, <1>4, <2>3 DEF Answers, Users, Same
  <2>4. turns'[k].status = "completed"
    BY <1>2, <2>1
  <2>5. QED
    BY <1>4, <1>5, <2>2, <2>3, <2>4 DEF SingleIInv, Answered
<1>8. RetryReusesTurn'
  <2> SUFFICES ASSUME NEW i \in Unfinished', NEW j \in Unfinished', i < j,
                      \A m \in Unfinished' : ~(i < m /\ m < j)
               PROVE  turns'[i].prompt # turns'[j].prompt
    BY DEF RetryReusesTurn
  <2>1. i \in Unfinished /\ j \in Unfinished /\ i \in Seqs /\ j \in Seqs
    BY <1>5 DEF Unfinished
  <2>2. ~(k < j)
    BY <1>3, <1>4, <2>1 DEF Unfinished
  <2>3. \A m \in Unfinished : ~(i < m /\ m < j)
    BY <1>5, <2>2
  <2>4. turns[i].prompt # turns[j].prompt
    BY <2>1, <2>3 DEF SingleIInv, RetryReusesTurn
  <2>5. QED
    BY <1>2, <2>1, <2>4 DEF Same
<1>9. QED
  BY <1>2, <1>6, <1>7, <1>8 DEF SingleIInv

LEMMA NextSingleIInv == OneInSection /\ SingleIInv /\ [Next]_vars => SingleIInv'
<1> SUFFICES ASSUME OneInSection, SingleIInv, [Next]_vars PROVE SingleIInv'
  OBVIOUS
<1>1. IInv /\ IInv'
  BY NextIInv DEF SingleIInv
<1>2. CASE Close \/ Resume \/ UNCHANGED vars
  <2>1. turns' = turns /\ chat' = chat
    BY <1>2 DEF Close, Resume, vars
  <2>2. Answered' /\ RetryReusesTurn' /\ \A r : InPlace(r) => InPlace(r)'
    BY <2>1, RowsStill
  <2>3. LastUnfinished'
    <3>1. \A c \in Chats : InPlace(chat[c])
      BY InPlaceAgrees DEF SingleIInv
    <3>2. ASSUME NEW c \in Chats PROVE LastUnfinished'
      <4>1. PICK r : r = chat[c]
        OBVIOUS
      <4>2. InPlace(r)' /\ chat'[c] = r /\ OthersStay(c)
        BY <2>1, <2>2, <3>1, <4>1 DEF OthersStay
      <4>3. QED
        BY <2>1, <4>2, OnlyOne
    <3>3. QED
      BY <3>2 DEF LastUnfinished
  <2>4. QED
    BY <1>1, <2>2, <2>3 DEF SingleIInv
<1>3. ASSUME NEW c \in Chats, NEW r, chat'[c] = r, OthersStay(c), turns' = turns, InPlace(r)
      PROVE  SingleIInv'
  <2>1. Answered' /\ RetryReusesTurn' /\ InPlace(r)'
    BY <1>3, RowsStill
  <2>2. QED
    BY <1>1, <1>3, <2>1, OnlyOne DEF SingleIInv
<1>4. ASSUME NEW r, r.at \notin {"mark", "run", "append", "insert"} PROVE InPlace(r)
  BY <1>4 DEF InPlace
<1>5. ASSUME NEW c \in Chats, NEW p \in Prompts, NEW flag \in BOOLEAN, Begin(c, p, flag)
      PROVE  SingleIInv'
  BY <1>1, <1>3, <1>4, <1>5, BeginStep DEF OthersStay
<1>6. ASSUME NEW c \in Chats, ChatStep(c) PROVE SingleIInv'
  <2>1. CASE BuildContext(c)
    <3>1. turns' = turns /\ chat'[c].at = "look up" /\ OthersStay(c)
      BY <1>1, <2>1, BuildContextStep DEF OthersStay
    <3>2. PICK r : r = chat'[c]
      OBVIOUS
    <3>3. InPlace(r)
      BY <3>1, <3>2 DEF InPlace
    <3>4. QED
      BY <1>3, <3>1, <3>2, <3>3
  <2>2. CASE LookUp(c)
    <3>1. turns' = turns /\ OthersStay(c)
      BY <1>1, <2>2, LookUpStep DEF OthersStay
    <3>2. PICK r : r = chat'[c]
      OBVIOUS
    <3>3. InPlace(r)
      BY <1>1, <2>2, <3>2, LookUpStep DEF InPlace
    <3>4. QED
      BY <1>3, <3>1, <3>2, <3>3
  <2>3. CASE RequireOpen(c)
    <3>1. turns' = turns /\ chat[c].at = "append"
      BY <2>3 DEF RequireOpen, Doing
    <3>2. PICK r : r = chat'[c]
      OBVIOUS
    <3>3. OthersStay(c) /\ (r = Idle \/ (r.at = "insert" /\ r.prompt = chat[c].prompt))
      BY <1>1, <2>3, <3>2, RequireOpenStep DEF OthersStay
    <3>4. InPlace(chat[c])
      BY InPlaceAgrees DEF SingleIInv
    <3>5. InPlace(r)
      BY <3>1, <3>3, <3>4, IdleApart DEF InPlace
    <3>6. QED
      BY <1>3, <3>1, <3>2, <3>3, <3>5
  <2>4. CASE Insert(c)
    BY <2>4, InsertAlone
  <2>5. CASE MarkProcessing(c)
    <3>1. PICK k : k = chat[c].seq
      OBVIOUS
    <3>2. /\ Extended /\ Len(turns') = Len(turns)
          /\ \A i \in Seqs : turns'[i].status = IF i = k THEN "processing" ELSE turns[i].status
          /\ chat'[c].at = "run" /\ chat'[c].seq = k
          /\ OthersStay(c) /\ InSection(c)
      BY <1>1, <2>5, <3>1, MarkProcessingStep DEF OthersStay, MarkProcessing, Doing, InSection
    <3>3. Trailing(k) /\ k \in Unfinished
      BY <2>5, <3>1 DEF SingleIInv, LastUnfinished, MarkProcessing, Doing, Trailing
    <3>4. Answered' /\ RetryReusesTurn' /\ Trailing(k)'
      BY <3>2, <3>3, StillUnfinished
    <3>5. PICK r : r = chat'[c]
      OBVIOUS
    <3>6. r.at = "run" /\ r.seq = k
      BY <3>2, <3>5
    <3>7. InPlace(r)'
      BY <3>4, <3>6 DEF InPlace
    <3>8. QED
      BY <1>1, <3>2, <3>4, <3>5, <3>7, OnlyOne DEF SingleIInv
  <2>6. ASSUME NEW success \in BOOLEAN, Answer(c, success) PROVE SingleIInv'
    BY <2>6, AnswerAlone
  <2>7. CASE Interrupt(c)
    <3>1. PICK k : k = chat[c].seq
      OBVIOUS
    <3>2. /\ Extended /\ Len(turns') = Len(turns)
          /\ \A i \in Seqs : turns'[i].status = IF i = k THEN "interrupted" ELSE turns[i].status
          /\ chat'[c] = Idle /\ OthersStay(c)
      BY <1>1, <2>7, <3>1, InterruptStep DEF OthersStay
    <3>3. k \in Unfinished
      BY <2>7, <3>1 DEF SingleIInv, LastUnfinished, Interrupt, Doing, Trailing
    <3>4. Answered' /\ RetryReusesTurn'
      BY <3>2, <3>3, StillUnfinished
    <3>5. InPlace(Idle)'
      BY IdleApart DEF InPlace
    <3>6. InSection(c)
      BY <2>7 DEF Interrupt, Doing, InSection
    <3>7. QED
      BY <1>1, <3>2, <3>4, <3>5, <3>6, OnlyOne DEF SingleIInv
  <2>8. CASE Die(c)
    <3>1. chat'[c] = Idle /\ turns' = turns /\ OthersStay(c)
      BY <1>1, <2>8, IdleStep DEF Die, OthersStay
    <3>2. QED
      BY <1>3, <1>4, <3>1, IdleApart
  <2>9. QED
    BY <1>6, <2>1, <2>2, <2>3, <2>4, <2>5, <2>6, <2>7, <2>8 DEF ChatStep
<1>7. QED
  BY <1>2, <1>5, <1>6 DEF Next

LEMMA InitSingleIInv == Init => SingleIInv
<1> SUFFICES ASSUME Init PROVE SingleIInv
  OBVIOUS
<1>1. Seqs = {} /\ Users = {} /\ Unfinished = {}
  BY EmptySeq DEF Init, Seqs, Users, Unfinished
<1>2. \A c \in Chats : chat[c].at = "idle"
  BY DEF Init, Idle
<1>3. QED
  BY <1>1, <1>2, InitIInv
     DEF SingleIInv, Answered, LastUnfinished, RetryReusesTurn, Doing

\* What a terminal has found when it looked still holds when it writes, if nobody else
\* is in the section (trailing_unfinished_user_turn, append_user_turn,
\* append_assistant_turn).
THEOREM SerialInvariance == SerialSpec => [](SingleIInv /\ OneInSection)
<1>1. Init => SingleIInv /\ OneInSection
  BY InitSingleIInv DEF Init, Idle, OneInSection, InSection
<1>2. SingleIInv /\ OneInSection /\ [Next /\ OneInSection']_vars => (SingleIInv /\ OneInSection)'
  <2> SUFFICES ASSUME SingleIInv, OneInSection, [Next /\ OneInSection']_vars
               PROVE  SingleIInv' /\ OneInSection'
    OBVIOUS
  <2>1. SingleIInv'
    BY NextSingleIInv
  <2>2. OneInSection'
    BY DEF vars, OneInSection, InSection
  <2>3. QED
    BY <2>1, <2>2
<1>3. QED
  BY <1>1, <1>2, PTL DEF SerialSpec

\* One terminal alone waits for nobody.
THEOREM OneTerminal == (\A c, d \in Chats : c = d) => (Spec => SerialSpec)
<1> SUFFICES ASSUME \A c, d \in Chats : c = d PROVE Spec => SerialSpec
  OBVIOUS
<1>1. OneInSection'
  BY DEF OneInSection
<1>2. [Next]_vars => [Next /\ OneInSection']_vars
  BY <1>1
<1>3. QED
  BY <1>2, PTL DEF Spec, SerialSpec

\* sessions.py:374-408: in a session whose terminals wait for each other, however often they
\* die and whatever they say again, a user turn is completed when it has its one result.
THEOREM OneResult == SerialSpec => []OneResultWhenCompleted
<1>1. SingleIInv => OneResultWhenCompleted
  <2> SUFFICES ASSUME SingleIInv, NEW i \in Seqs, IsUser(i)
               PROVE  Cardinality(Answers(i)) = IF turns[i].status = "completed" THEN 1 ELSE 0
    BY DEF OneResultWhenCompleted
  <2>1. i \in Users
    BY DEF Users
  <2>2. CASE turns[i].status = "completed"
    <3>1. PICK j \in Seqs : Answers(i) = {j}
      BY <2>1, <2>2 DEF SingleIInv, Answered
    <3>2. QED
      BY <2>2, <3>1, FS_Singleton
  <2>3. CASE turns[i].status # "completed"
    BY <2>1, <2>3, FS_EmptySet DEF SingleIInv, Answered
  <2>4. QED
    BY <2>2, <2>3
<1>2. QED
  BY <1>1, SerialInvariance, PTL

\* sessions.py:335-342 and 546-556: and what is said again is put to the turn left unfinished.
THEOREM RetryReuses == SerialSpec => []RetryReusesTurn
<1>1. SingleIInv => RetryReusesTurn
  BY DEF SingleIInv
<1>2. QED
  BY <1>1, SerialInvariance, PTL

\* sessions.py:366-373, mark_interrupted(): none of them marks a turn that has its result, as
\* two that do not wait may.
THEOREM InterruptedSerial == SerialSpec => []InterruptedHasNoResult
<1>1. SingleIInv => InterruptedHasNoResult
  <2> SUFFICES ASSUME SingleIInv, NEW i \in Seqs, turns[i].status = "interrupted"
               PROVE  Answers(i) = {}
    BY DEF InterruptedHasNoResult
  <2>1. IsUser(i)
    BY DEF SingleIInv, IInv, SoundRow
  <2>2. QED
    BY <2>1 DEF SingleIInv, Answered, Users
<1>2. QED
  BY <1>1, SerialInvariance, PTL

===============================================================================
