--------------------------- MODULE ProcessBoundary ---------------------------
(***************************************************************************)
(* run_process() of harness2/execution.py: one engine process, a helper it *)
(* may start, the thread that reads their standard output and the          *)
(* controller that polls, limits, terminates and collects.                 *)
(*                                                                         *)
(* Both processes write whole events to one pipe.  Standard error is a pipe*)
(* of the same kind whose content is only shown; it counts as the flood    *)
(* that passes its limit.  SIGKILL takes effect at once, and a reader has  *)
(* read what the process wrote before the grace of a join is over.         *)
(***************************************************************************)
EXTENDS Naturals, Sequences

CONSTANTS
    Limit,    \* stdout_limit, in events
    MaxNoise, \* events of the helper that are unread or kept
    Noisy     \* what the helper writes

ASSUME BoundaryConstantsOK == Limit \in Nat \ {0} /\ MaxNoise \in Nat

VARIABLES
    leader,   \* the process: none, running, ended, failed, killed
    helper,   \* none, holding the pipe, silent, escaped to a session of its own, gone
    said,     \* what the process has written (history)
    pipe,     \* what is written and not read
    reader,   \* _BoundedPipeReader of standard output: at and data
    limited,  \* the event the readers set
    late,     \* the deadline has passed
    control,  \* the controller: at, what it does next, cleaned_up, timed_out, raised
    out       \* ProcessResult

boundary == <<leader, helper, said, pipe, reader, limited, late, control, out>>

processes == <<leader, helper, said, pipe>>

-----------------------------------------------------------------------------
NoResult == [code |-> "none", stdout |-> <<>>, timed_out |-> FALSE, limited |-> FALSE]

BoundaryInit ==
    /\ leader = "none"
    /\ helper = "none"
    /\ said = <<>>
    /\ pipe = <<>>
    /\ reader = [at |-> "reading", data |-> <<>>]
    /\ limited = FALSE
    /\ late = FALSE
    /\ control = [at |-> "spawn", next |-> "none", cleaned |-> FALSE,
                  timed_out |-> FALSE, raised |-> FALSE]
    /\ out = NoResult

At(place) == control.at = place

\* Some process has the write end.
Held == leader = "running" \/ helper \in {"holding", "escaped"}

\* What the process has written is read, and flagged if it was too much.
CaughtUp ==
    /\ \A i \in 1..Len(pipe) : pipe[i] = Noisy
    /\ reader.at = "reading" \/ (reader.at = "flagging" /\ limited)

-----------------------------------------------------------------------------
(***************************************************************************)
(* The engine and its helper.                                              *)
(***************************************************************************)
Say(t) ==
    /\ leader = "running"
    /\ said' = Append(said, t)
    /\ pipe' = Append(pipe, t)
    /\ UNCHANGED <<leader, helper, reader, limited, late, control, out>>

Flood ==
    /\ leader = "running"
    /\ limited' = TRUE
    /\ UNCHANGED <<processes, reader, late, control, out>>

Exit ==
    /\ leader = "running"
    /\ leader' \in {"ended", "failed"}
    /\ UNCHANGED <<helper, said, pipe, reader, limited, late, control, out>>

HelperLives ==
    /\ \/ leader = "running" /\ helper = "none" /\ helper' = "holding"
       \/ helper = "holding" /\ helper' \in {"silent", "escaped", "gone"}
       \/ helper = "escaped" /\ helper' = "gone"
    /\ UNCHANGED <<leader, said, pipe, reader, limited, late, control, out>>

HelperSays ==
    /\ helper \in {"holding", "escaped"}
    /\ Len(SelectSeq(pipe \o reader.data, LAMBDA t : t = Noisy)) < MaxNoise
    /\ pipe' = Append(pipe, Noisy)
    /\ UNCHANGED <<leader, helper, said, reader, limited, late, control, out>>

-----------------------------------------------------------------------------
(***************************************************************************)
(* The reader keeps what fits, and flags the rest afterwards.              *)
(***************************************************************************)
Read ==
    /\ reader.at = "reading"
    /\ pipe # <<>>
    /\ LET data == reader.data \o pipe
       IN reader' = IF Len(data) <= Limit
                    THEN [reader EXCEPT !.data = data]
                    ELSE [at |-> "flagging", data |-> SubSeq(data, 1, Limit)]
    /\ pipe' = <<>>
    /\ UNCHANGED <<leader, helper, said, limited, late, control, out>>

FlagLimit ==
    /\ reader.at = "flagging"
    /\ limited' = TRUE
    /\ reader' = [reader EXCEPT !.at = "reading"]
    /\ UNCHANGED <<processes, late, control, out>>

EndOfFile ==
    /\ reader.at = "reading"
    /\ pipe = <<>>
    /\ ~Held
    /\ leader # "none"
    /\ reader' = [reader EXCEPT !.at = "done"]
    /\ UNCHANGED <<processes, limited, late, control, out>>

Reads == Read \/ FlagLimit \/ EndOfFile

Expire ==
    /\ leader # "none"
    /\ ~late
    /\ late' = TRUE
    /\ UNCHANGED <<processes, reader, limited, control, out>>

-----------------------------------------------------------------------------
(***************************************************************************)
(* The controller.                                                         *)
(***************************************************************************)
Goes(place) == control' = [control EXCEPT !.at = place]

\* The directories are verified once more, and Popen.
Spawn ==
    /\ At("spawn")
    /\ \/ leader' = "running" /\ Goes("poll")
       \/ UNCHANGED leader /\ Goes("refused")
    /\ UNCHANGED <<helper, said, pipe, reader, limited, late, out>>

Terminating(next) == [control EXCEPT !.at = "term", !.next = next, !.cleaned = TRUE]

Poll ==
    /\ At("poll")
    /\ \/ leader # "running" /\ Goes("join")
       \/ leader = "running" /\ limited /\ control' = Terminating("join")
       \/ /\ leader = "running" /\ ~limited /\ late
          /\ control' = [Terminating("join") EXCEPT !.timed_out = TRUE]
    /\ UNCHANGED <<processes, reader, limited, late, out>>

\* _terminate_process_tree(): who is asked may go, who is left is killed.
Terminate ==
    /\ At("term")
    /\ leader' \in {leader} \cup (IF leader = "running" THEN {"killed"} ELSE {})
    /\ helper' \in {helper} \cup (IF helper \in {"holding", "silent"} THEN {"gone"} ELSE {})
    /\ Goes("kill")
    /\ UNCHANGED <<said, pipe, reader, limited, late, out>>

Kill ==
    /\ At("kill")
    /\ leader' = (IF leader = "running" THEN "killed" ELSE leader)
    /\ helper' = (IF helper \in {"holding", "silent"} THEN "gone" ELSE helper)
    /\ Goes(control.next)
    /\ UNCHANGED <<said, pipe, reader, limited, late, out>>

\* Mutant: the readers are joined without a timeout.
JoinForEver ==
    /\ At("join")
    /\ reader.at = "done"
    /\ Goes("collect")
    /\ UNCHANGED <<processes, reader, limited, late, out>>

\* A grace passes while somebody holds the pipe.
Join ==
    /\ At("join")
    /\ \/ reader.at = "done" /\ Goes("collect")
       \/ /\ Held /\ CaughtUp
          /\ IF control.cleaned THEN Goes("collect")
             ELSE control' = Terminating("collect")
    /\ UNCHANGED <<processes, reader, limited, late, out>>

\* The output is taken first and the flag read afterwards.
Collect ==
    /\ At("collect")
    /\ out' = [out EXCEPT !.code = leader, !.stdout = reader.data]
    /\ Goes("flags")
    /\ UNCHANGED <<processes, reader, limited, late>>

Flags ==
    /\ At("flags")
    /\ out' = [out EXCEPT !.timed_out = control.timed_out, !.limited = limited]
    /\ Goes("finally")
    /\ UNCHANGED <<processes, reader, limited, late>>

\* Mutant: what still runs is left to itself.
FinallyCloses ==
    /\ At("finally")
    /\ Goes("returned")
    /\ UNCHANGED <<processes, reader, limited, late, out>>

Finally ==
    /\ At("finally")
    /\ IF leader = "running" \/ reader.at # "done"
       THEN control' = Terminating("returned")
       ELSE Goes("returned")
    /\ UNCHANGED <<processes, reader, limited, late, out>>

InTry == {"poll", "join", "collect", "flags"}

\* An exception in the controller, once; within the grace of a termination too.
Cancel ==
    /\ ~control.raised
    /\ At("poll") \/ At("join") \/ At("collect") \/ At("flags")
       \/ (control.next \in InTry /\ (At("term") \/ At("kill")))
    /\ control' = [control EXCEPT !.at = "finally", !.raised = TRUE]
    /\ UNCHANGED <<processes, reader, limited, late, out>>

Controls ==
    Spawn \/ Poll \/ Terminate \/ Kill \/ Join \/ Collect \/ Flags \/ Finally

-----------------------------------------------------------------------------
(***************************************************************************)
(* Properties.                                                             *)
(***************************************************************************)

\* When run_process() is over, however it was over, the process has ended and
\* nothing in its group holds a pipe.  A helper in the group is left only if it
\* has let go of its output and the process ended by itself, or an exception cut
\* a termination short (run_process: "must not orphan the isolated process
\* group").
NothingHoldsOn ==
    At("returned") =>
        /\ leader \notin {"none", "running"}
        /\ helper # "holding"
        /\ helper = "silent" =>
              control.raised \/ (leader \in {"ended", "failed"} /\ ~control.cleaned)

\* run_process() ends, whatever the engine and its helpers do, ignore or keep
\* open (the deadline, the limits and the timed joins of run_process).
BoundaryEnds == At("poll") ~> At("returned")

=============================================================================
