-------------------------- MODULE EngineRun_proofs --------------------------
(***************************************************************************)
(* That no engine's process is left running or holding a pipe; that an     *)
(* engine succeeds only if its process ended by itself with status zero or *)
(* its body came whole, and gives then all that the process wrote; and what*)
(* the parsers make of it: for every limit and every set of streams,       *)
(* whatever the engine, its helper and the server do.                      *)
(***************************************************************************)
EXTENDS EngineRun, WellFoundedInduction, NaturalsInduction, TLAPS

Places ==
    {"spawn", "refused", "poll", "term", "kill", "join", "collect", "flags",
     "finally", "returned"}

Killing == control.at \in {"term", "kill"}

Spawned == control.at \notin {"spawn", "refused"}

BoundaryTyped ==
    /\ leader \in {"none", "running", "ended", "failed", "killed"}
    /\ helper \in {"none", "holding", "silent", "escaped", "gone"}
    /\ reader = [at |-> reader.at, data |-> reader.data]
    /\ control \in [at : Places, next : {"none", "join", "collect", "returned"},
                    cleaned : BOOLEAN, timed_out : BOOLEAN, raised : BOOLEAN]
    /\ out = [code |-> out.code, stdout |-> out.stdout,
              timed_out |-> out.timed_out, limited |-> out.limited]

\* There is a process from the spawn on, and the end of the pipe is the end of
\* everybody who held it.
Alive ==
    /\ IF Spawned THEN leader # "none"
       ELSE leader = "none" /\ helper = "none" /\ ~control.cleaned
    /\ reader.at = "done" => Spawned /\ ~Held

\* The controller waits for the pipe only after the process, and takes its exit
\* code for the result.
Waited ==
    /\ control.at \in {"join", "collect", "flags"} => leader # "running"
    /\ out.code = "ended" => leader = "ended"

\* Who has been killed has been killed by a termination, and a termination that no
\* exception cut short leaves nobody in the group.
Terminated ==
    /\ control.cleaned \/ (~Killing /\ leader # "killed")
    /\ Killing => control.next # "none"
    /\ control.cleaned /\ ~control.raised /\ ~Killing =>
          leader # "running" /\ helper \notin {"holding", "silent"}

\* The inductive invariant of run_process().
BoundaryIInv == BoundaryTyped /\ Alive /\ Waited /\ Terminated /\ NothingHoldsOn

LEMMA BoundaryStart == BoundaryInit => BoundaryIInv
  BY DEF BoundaryInit, BoundaryIInv, BoundaryTyped, Alive, Waited, Terminated, NothingHoldsOn,
         Spawned, Killing, Held, Places, NoResult, At

\* What the engine and its helper do.
LEMMA ProcessesKeepIt ==
    ASSUME BoundaryIInv,
           (\E t : Say(t)) \/ Flood \/ Exit \/ HelperLives \/ HelperSays
    PROVE  BoundaryIInv'
  BY DEF Say, Flood, Exit, HelperLives, HelperSays, processes, BoundaryIInv, BoundaryTyped, Alive,
         Waited, Terminated, NothingHoldsOn, Spawned, Killing, Held, Places, At

\* What the reader does, and the time.
LEMMA ReaderKeepsIt ==
    ASSUME BoundaryIInv, Reads \/ Expire
    PROVE  BoundaryIInv'
  BY DEF Reads, Read, FlagLimit, EndOfFile, Expire, processes, BoundaryIInv, BoundaryTyped, Alive,
         Waited, Terminated, NothingHoldsOn, Spawned, Killing, Held, Places, At

\* What the controller does.
LEMMA ControllerKeepsIt ==
    ASSUME BoundaryIInv, Controls \/ Cancel
    PROVE  BoundaryIInv'
<1> USE DEF processes, BoundaryIInv, BoundaryTyped, Alive, Waited, Terminated, NothingHoldsOn,
            Spawned, Killing, Held, Places, At, Goes, Terminating
<1>1. CASE Spawn
  BY <1>1 DEF Spawn
<1>2. CASE Poll
  BY <1>2 DEF Poll
<1>3. CASE Terminate
  BY <1>3 DEF Terminate
<1>4. CASE Kill
  BY <1>4 DEF Kill
<1>5. CASE Join
  BY <1>5 DEF Join
<1>6. CASE Collect
  BY <1>6 DEF Collect
<1>7. CASE Flags
  BY <1>7 DEF Flags
<1>8. CASE Finally
  <2>1. CASE leader = "running" \/ reader.at # "done"
    <3>1. /\ control.at = "finally"
          /\ control' = [[[control EXCEPT !.at = "term"] EXCEPT !.next = "returned"] EXCEPT !.cleaned = TRUE]
          /\ UNCHANGED <<leader, helper, reader, out>>
      BY <1>8, <2>1 DEF Finally
    <3>2. BoundaryTyped' /\ Alive' /\ NothingHoldsOn'
      BY <3>1, <1>8
    <3>3. Waited' /\ Terminated'
      BY <3>1, <1>8
    <3> QED
      BY <3>2, <3>3
  <2>2. CASE ~(leader = "running" \/ reader.at # "done")
    <3>1. control' = [control EXCEPT !.at = "returned"] /\ UNCHANGED <<leader, helper, reader, out>>
      BY <1>8, <2>2 DEF Finally
    <3>2. NothingHoldsOn'
      BY <1>8, <2>2, <3>1 DEF Finally
    <3> QED
      BY <1>8, <3>1, <3>2, <2>2 DEF Finally
  <2> QED
    BY <2>1, <2>2
<1>9. CASE Cancel
  BY <1>9 DEF Cancel, InTry
<1>10. QED
  BY <1>1, <1>2, <1>3, <1>4, <1>5, <1>6, <1>7, <1>8, <1>9 DEF Controls

-----------------------------------------------------------------------------
(***************************************************************************)
(* The adapters around it.                                                 *)
(***************************************************************************)
\* An HTTP engine has no process, and what has come of its body stays as it is once
\* the exchange is over.
Exchanged ==
    /\ body = [at |-> body.at, size |-> body.size, got |-> body.got]
    /\ IF OverHTTP THEN control.at = "spawn" ELSE body.at = "request"
    /\ OverHTTP /\ result.success => body.at = "ended"

\* What a success takes, whatever a parser made of the output: the process ended
\* by itself with status zero, or the body came whole.
EarnedSuccess ==
    result.success => IF OverHTTP THEN body.got = body.size ELSE leader = "ended"

\* The inductive invariant.
RunIInv == BoundaryIInv /\ Exchanged /\ EarnedSuccess

LEMMA RunStart == Init => RunIInv
<1> SUFFICES ASSUME Init PROVE RunIInv
  OBVIOUS
<1>1. BoundaryIInv
  BY BoundaryStart DEF Init
<1>2. Exchanged /\ EarnedSuccess
  BY DEF Init, Exchanged, EarnedSuccess, OverHTTP, Pending, Failure, Result, BoundaryInit
<1> QED
  BY <1>1, <1>2 DEF RunIInv

\* A process that has ended stays ended.
LEMMA EndedStays ==
    ASSUME BoundaryIInv, leader = "ended",
           (\E t : Say(t)) \/ Flood \/ Exit \/ HelperLives \/ HelperSays \/ Reads \/ Expire
              \/ Controls \/ Cancel
    PROVE  leader' = "ended"
<1>1. CASE Controls \/ Cancel
  BY <1>1 DEF Controls, Cancel, Spawn, Poll, Terminate, Kill, Join, Collect, Flags, Finally, processes,
              BoundaryIInv, Alive, Spawned, At
<1>2. CASE ~(Controls \/ Cancel)
  BY <1>2 DEF Say, Flood, Exit, HelperLives, HelperSays, Reads, Read, FlagLimit, EndOfFile, Expire,
              processes
<1> QED
  BY <1>1, <1>2

\* A step of run_process() or of the processes it watches.
LEMMA BoundaryStep ==
    ASSUME RunIInv, Run \/ Cancelled \/ Boundary(Processes) \/ ReaderRuns \/ TimePasses
    PROVE  RunIInv'
<1>1. ~OverHTTP /\ UNCHANGED <<engine, body, result>>
  BY DEF Run, Cancelled, ReaderRuns, TimePasses, Boundary
<1>2. \/ Controls \/ Cancel \/ Reads \/ Expire
      \/ (\E t : Say(t)) \/ Flood \/ Exit \/ HelperLives \/ HelperSays
  BY DEF Run, Cancelled, ReaderRuns, TimePasses, Boundary, Processes
<1>3. BoundaryIInv'
  BY <1>2, ProcessesKeepIt, ReaderKeepsIt, ControllerKeepsIt DEF RunIInv
<1>4. Exchanged'
  BY <1>1 DEF RunIInv, Exchanged, OverHTTP
<1>5. EarnedSuccess'
  BY <1>1, <1>2, EndedStays DEF RunIInv, EarnedSuccess, OverHTTP
<1> QED
  BY <1>3, <1>4, <1>5 DEF RunIInv

\* No adapter calls a run a success whose process did not end with status zero.
LEMMA OutcomeIsEarned ==
    ASSUME Outcome(out).success
    PROVE  out.code = "ended"
<1>1. CASE Streaming
  BY <1>1 DEF Outcome, Streamed, Failure, Result
<1>2. CASE ~Streaming
  BY <1>2 DEF Outcome, Plain, Failure, Result
<1> QED
  BY <1>1, <1>2

LEMMA AnswerStep ==
    ASSUME RunIInv, Answer \/ Refuse
    PROVE  RunIInv'
<1>1. UNCHANGED <<leader, helper, reader, control, out, engine, body>>
  BY DEF Answer, Refuse, boundary
<1>2. BoundaryIInv'
  BY <1>1 DEF RunIInv, BoundaryIInv, BoundaryTyped, Alive, Waited, Terminated, NothingHoldsOn, Spawned,
              Killing, Held, At
<1>3. result'.success => ~OverHTTP /\ leader = "ended"
  <2>1. CASE Refuse
    BY <2>1 DEF Refuse, Failure, Result
  <2>2. CASE Answer
    <3>1. CASE result' = Outcome(out) /\ At("returned")
      BY <3>1, OutcomeIsEarned DEF RunIInv, BoundaryIInv, Waited, Exchanged, At
    <3>2. CASE ~(result' = Outcome(out) /\ At("returned"))
      BY <2>2, <3>2 DEF Answer, Failure, Result
    <3> QED
      BY <3>1, <3>2
  <2> QED
    BY <2>1, <2>2
<1>4. Exchanged' /\ EarnedSuccess'
  BY <1>1, <1>3 DEF RunIInv, Exchanged, EarnedSuccess, OverHTTP
<1> QED
  BY <1>2, <1>4 DEF RunIInv

\* A step of an HTTP exchange.
LEMMA ExchangeStep ==
    ASSUME RunIInv, HTTP \/ BodyLate
    PROVE  RunIInv'
<1>1. UNCHANGED <<leader, helper, reader, control, out, engine>>
  BY DEF HTTP, Request, Chunk, Silence, BodyLate, boundary, processes
<1>2. BoundaryIInv'
  BY <1>1 DEF RunIInv, BoundaryIInv, BoundaryTyped, Alive, Waited, Terminated, NothingHoldsOn, Spawned,
              Killing, Held, At
<1>3. CASE BodyLate
  BY <1>1, <1>2, <1>3 DEF BodyLate, RunIInv, Exchanged, EarnedSuccess, OverHTTP
<1>4. CASE Request
  BY <1>1, <1>2, <1>4 DEF Request, Ends, Failure, Pending, Result, RunIInv, Exchanged, EarnedSuccess, OverHTTP
<1>5. CASE Chunk
  <2>1. body.at = "body" /\ OverHTTP /\ ~result.success
    BY <1>5 DEF Chunk, RunIInv, Exchanged
  <2>2. \/ body' = [body EXCEPT !.got = body.got + 1] /\ UNCHANGED result
        \/ body' = [body EXCEPT !.at = "ended"] /\ (result'.success => body.got = body.size)
    BY <1>5 DEF Chunk, Ends, Failure, Result
  <2> QED
    BY <1>1, <1>2, <2>1, <2>2 DEF RunIInv, Exchanged, EarnedSuccess, OverHTTP
<1>6. CASE Silence
  BY <1>1, <1>2, <1>6 DEF Silence, Ends, Failure, Pending, Result, RunIInv, Exchanged, EarnedSuccess, OverHTTP
<1> QED
  BY <1>3, <1>4, <1>5, <1>6 DEF HTTP

LEMMA RunStep ==
    ASSUME RunIInv, [Next]_vars
    PROVE  RunIInv'
<1>1. CASE UNCHANGED vars
  BY <1>1 DEF vars, boundary, RunIInv, BoundaryIInv, BoundaryTyped, Alive, Waited, Terminated, NothingHoldsOn,
              Spawned, Killing, Held, At, Exchanged, EarnedSuccess, OverHTTP
<1>2. CASE Next
  BY <1>2, BoundaryStep, AnswerStep, ExchangeStep DEF Next
<1> QED
  BY <1>1, <1>2

THEOREM EngineInvariance == Spec => []RunIInv
<1>1. Init => RunIInv
  BY RunStart
<1>2. RunIInv /\ [Next]_vars => RunIInv'
  BY RunStep
<1> QED
  BY <1>1, <1>2, PTL DEF Spec

\* When run_process() is over, however it was over, the process has ended and
\* nothing in its group holds a pipe (the property NothingHoldsOn of the runs).
THEOREM NobodyHoldsOn == Spec => []NothingHoldsOn
<1>1. RunIInv => NothingHoldsOn
  BY DEF RunIInv, BoundaryIInv
<1> QED
  BY <1>1, EngineInvariance, PTL

\* No engine succeeds whose process was killed, failed or still runs, or whose body
\* came short (run() of the adapters).
THEOREM SuccessIsEarned == Spec => []EarnedSuccess
<1>1. RunIInv => EarnedSuccess
  BY DEF RunIInv
<1> QED
  BY <1>1, EngineInvariance, PTL

-----------------------------------------------------------------------------
(***************************************************************************)
(* Folds.  What a fold over a sequence does is said once for all of those  *)
(* that the model has: Turn is one turn of the fold of a kind, and Folds   *)
(* says that f[n] is what it has come to after n lines.                    *)
(***************************************************************************)
Turn(kind, arg, r, t) ==
    CASE kind = "own"   -> IF t = Noisy THEN r ELSE Append(r, t)
      [] kind = "parts" -> IF t.type = arg THEN Append(r, t.part) ELSE r
      [] kind = "parse" -> Line(arg, r, t)

Folds(f, kind, arg, base, lines) ==
    /\ f[0] = base
    /\ \A n \in Nat : n < Len(lines) => f[n + 1] = Turn(kind, arg, f[n], lines[n + 1])

\* A set that holds zero and the successor of each of its numbers holds them all.
LEMMA InductionOnNat ==
    ASSUME NEW S, 0 \in S, \A n \in Nat : n \in S => n + 1 \in S
    PROVE  \A n \in Nat : n \in S
<1> DEFINE T == Nat \ S
           R == OpToRel(<, Nat)
<1>1. SUFFICES ASSUME T # {} PROVE FALSE
  OBVIOUS
<1>2. PICK x \in T : \A y \in T : <<y, x>> \notin R
  <2>1. IsWellFoundedOn(R, Nat)
    BY NatLessThanWellFounded
  <2>2. T \subseteq Nat
    OBVIOUS
  <2> HIDE DEF R, T
  <2>3. QED
    BY <1>1, <2>1, <2>2, WFMin
<1>3. x - 1 \in Nat
  OBVIOUS
<1>4. <<x - 1, x>> \in R
  BY <1>3 DEF OpToRel
<1>5. x - 1 \in S
  BY <1>2, <1>3, <1>4
<1>6. QED
  BY <1>3, <1>5

\* The greatest number of a set that has one.
LEMMA MaxIs ==
    ASSUME NEW S \in SUBSET Nat, NEW m \in S, \A x \in S : x <= m
    PROVE  Max(S) = m
<1>1. \A y \in S : m >= y
  OBVIOUS
<1>2. \A x \in S : (\A y \in S : x >= y) => x = m
  OBVIOUS
<1> QED
  BY <1>1, <1>2 DEF Max

\* What a fold has come to, by the set of the indices it has folded.
Iterates(g, kind, arg, base, lines, n) ==
    g = [s \in SUBSET (1..n) |->
           IF s = {} THEN base ELSE Turn(kind, arg, g[s \ {Max(s)}], lines[Max(s)])]

\* A nonempty set of indices has a greatest one.
LEMMA MaxBelow ==
    ASSUME NEW n \in Nat, NEW s \in SUBSET (1..(n + 1)), s # {}
    PROVE  IF n + 1 \in s THEN Max(s) = n + 1 ELSE s \in SUBSET (1..n)
<1>1. CASE n + 1 \in s
  <2>1. s \in SUBSET Nat /\ \A x \in s : x <= n + 1
    OBVIOUS
  <2> QED
    BY <1>1, <2>1, MaxIs
<1> QED
  BY <1>1

\* The recursion of a fold defines a function.
LEMMA FoldExists ==
    ASSUME NEW kind, NEW arg, NEW base, NEW lines, NEW n \in Nat
    PROVE  \E g : Iterates(g, kind, arg, base, lines, n)
<1> DEFINE S == {k \in Nat : \E g : Iterates(g, kind, arg, base, lines, k)}
<1>1. 0 \in S
  <2> DEFINE g == [s \in SUBSET (1..0) |-> base]
  <2>1. \A s \in SUBSET (1..0) : s = {}
    OBVIOUS
  <2>2. g = [s \in SUBSET (1..0) |->
               IF s = {} THEN base ELSE Turn(kind, arg, g[s \ {Max(s)}], lines[Max(s)])]
    BY <2>1
  <2>3. Iterates(g, kind, arg, base, lines, 0)
    BY <2>2 DEF Iterates
  <2> HIDE DEF g
  <2> QED
    BY <2>3
<1>2. ASSUME NEW k \in Nat, k \in S PROVE k + 1 \in S
  <2>1. PICK f : Iterates(f, kind, arg, base, lines, k)
    BY <1>2
  <2> DEFINE g == [s \in SUBSET (1..(k + 1)) |->
                     IF k + 1 \in s THEN Turn(kind, arg, f[s \ {k + 1}], lines[k + 1]) ELSE f[s]]
             Value(h, s) == IF s = {} THEN base ELSE Turn(kind, arg, h[s \ {Max(s)}], lines[Max(s)])
  <2>2. \A s \in SUBSET (1..k) : s \in SUBSET (1..(k + 1)) /\ k + 1 \notin s
    OBVIOUS
  <2>3. \A s \in SUBSET (1..k) : g[s] = f[s] /\ f[s] = Value(f, s)
    BY <2>1, <2>2 DEF Iterates
  <2>4. ASSUME NEW s \in SUBSET (1..(k + 1)) PROVE g[s] = Value(g, s)
    <3>1. CASE k + 1 \in s
      <4>1. Max(s) = k + 1 /\ s # {}
        BY <3>1, MaxBelow
      <4>2. s \ {k + 1} \in SUBSET (1..k)
        OBVIOUS
      <4>3. g[s \ {k + 1}] = f[s \ {k + 1}]
        BY <2>3, <4>2
      <4> QED
        BY <3>1, <4>1, <4>3
    <3>2. CASE k + 1 \notin s
      <4> s \in SUBSET (1..k)
        BY <3>2
      <4>1. g[s] = Value(f, s)
        BY <2>3
      <4>2. CASE s # {}
        <5>1. s \ {Max(s)} \in SUBSET (1..k)
          OBVIOUS
        <5> QED
          BY <2>3, <4>1, <4>2, <5>1
      <4> QED
        BY <4>1, <4>2
    <3> QED
      BY <3>1, <3>2
  <2>5. g = [s \in SUBSET (1..(k + 1)) |-> Value(g, s)]
    <3>1. g = [s \in SUBSET (1..(k + 1)) |-> g[s]]
      OBVIOUS
    <3> HIDE DEF g, Value
    <3> QED
      BY <2>4, <3>1
  <2>6. Iterates(g, kind, arg, base, lines, k + 1)
    BY <2>5 DEF Iterates
  <2> HIDE DEF g
  <2> QED
    BY <2>6
<1>3. n \in S
  <2> HIDE DEF S
  <2> QED
    BY <1>1, <1>2, InductionOnNat
<1> QED
  BY <1>3

\* Such a function goes through the sequence line by line.
LEMMA FoldGoesOn ==
    ASSUME NEW kind, NEW arg, NEW base, NEW lines, Len(lines) \in Nat, NEW g,
           Iterates(g, kind, arg, base, lines, Len(lines))
    PROVE  \E f : Folds(f, kind, arg, base, lines) /\ f[Len(lines)] = g[1..Len(lines)]
<1> DEFINE f == [n \in Nat |-> g[1..n]]
<1>1. f[0] = base
  <2>1. 1..0 = {} /\ {} \in SUBSET (1..Len(lines))
    OBVIOUS
  <2> QED
    BY <2>1 DEF Iterates
<1>2. ASSUME NEW n \in Nat, n < Len(lines)
      PROVE  f[n + 1] = Turn(kind, arg, f[n], lines[n + 1])
  <2>1. 1..(n + 1) \in SUBSET (1..Len(lines)) /\ 1..(n + 1) # {}
    BY <1>2
  <2>2. Max(1..(n + 1)) = n + 1
    BY MaxBelow
  <2>3. (1..(n + 1)) \ {n + 1} = 1..n
    OBVIOUS
  <2>4. g[1..(n + 1)] = Turn(kind, arg, g[1..n], lines[n + 1])
    BY <2>1, <2>2, <2>3 DEF Iterates
  <2> QED
    BY <2>4
<1>3. f[Len(lines)] = g[1..Len(lines)]
  OBVIOUS
<1> HIDE DEF f
<1> QED
  BY <1>1, <1>2, <1>3 DEF Folds

\* The folds of the model.
LEMMA ParseFolds ==
    ASSUME NEW format, NEW S, NEW lines \in Seq(S)
    PROVE  \E f : Folds(f, "parse", format, Nothing, lines) /\ Parse(format, lines) = Strict(f[Len(lines)])
<1> DEFINE Rec(g) == g = [s \in SUBSET DOMAIN lines |->
                            IF s = {} THEN Nothing ELSE Line(format, g[s \ {Max(s)}], lines[Max(s)])]
           iter == CHOOSE iter : Rec(iter)
<1>1. Len(lines) \in Nat /\ DOMAIN lines = 1..Len(lines)
  OBVIOUS
<1>2. Parse(format, lines) = Strict(iter[DOMAIN lines])
  BY DEF Parse, FoldLeft, MapThenFoldSet
<1>3. \A g : Rec(g) <=> Iterates(g, "parse", format, Nothing, lines, Len(lines))
  BY <1>1 DEF Iterates, Turn
<1> HIDE DEF Rec
<1>4. \E g : Rec(g)
  BY <1>1, <1>3, FoldExists
<1>5. Rec(iter)
  BY <1>4
<1> HIDE DEF iter
<1> QED
  BY <1>1, <1>2, <1>3, <1>5, FoldGoesOn

LEMMA OwnFolds ==
    ASSUME NEW S, NEW lines \in Seq(S)
    PROVE  \E f : Folds(f, "own", "all", <<>>, lines) /\ Own(lines) = f[Len(lines)]
<1> DEFINE Rec(g) == g = [s \in SUBSET DOMAIN lines |->
                            IF s = {} THEN <<>> ELSE IF lines[Max(s)] = Noisy THEN g[s \ {Max(s)}]
                                 ELSE Append(g[s \ {Max(s)}], lines[Max(s)])]
           iter == CHOOSE iter : Rec(iter)
<1>1. Len(lines) \in Nat /\ DOMAIN lines = 1..Len(lines)
  OBVIOUS
<1>2. Own(lines) = iter[DOMAIN lines]
  BY DEF Own, FoldLeft, MapThenFoldSet
<1>3. \A g : Rec(g) <=> Iterates(g, "own", "all", <<>>, lines, Len(lines))
  BY <1>1 DEF Iterates, Turn
<1> HIDE DEF Rec
<1>4. \E g : Rec(g)
  BY <1>1, <1>3, FoldExists
<1>5. Rec(iter)
  BY <1>4
<1> HIDE DEF iter
<1> QED
  BY <1>1, <1>2, <1>3, <1>5, FoldGoesOn

LEMMA PartsFolds ==
    ASSUME NEW type, NEW S, NEW lines \in Seq(S)
    PROVE  \E f : Folds(f, "parts", type, <<>>, lines) /\ PartsOf(type, lines) = f[Len(lines)]
<1> DEFINE Rec(g) == g = [s \in SUBSET DOMAIN lines |->
                            IF s = {} THEN <<>> ELSE IF lines[Max(s)].type = type
                                 THEN Append(g[s \ {Max(s)}], lines[Max(s)].part)
                                 ELSE g[s \ {Max(s)}]]
           iter == CHOOSE iter : Rec(iter)
<1>1. Len(lines) \in Nat /\ DOMAIN lines = 1..Len(lines)
  OBVIOUS
<1>2. PartsOf(type, lines) = iter[DOMAIN lines]
  BY DEF PartsOf, FoldLeft, MapThenFoldSet
<1>3. \A g : Rec(g) <=> Iterates(g, "parts", type, <<>>, lines, Len(lines))
  BY <1>1 DEF Iterates, Turn
<1> HIDE DEF Rec
<1>4. \E g : Rec(g)
  BY <1>1, <1>3, FoldExists
<1>5. Rec(iter)
  BY <1>4
<1> HIDE DEF iter
<1> QED
  BY <1>1, <1>2, <1>3, <1>5, FoldGoesOn

\* The lines of s are the first ones of t.
Begins(s, t) ==
    /\ Len(s) \in Nat /\ Len(t) \in Nat /\ Len(s) <= Len(t)
    /\ \A i \in 1..Len(s) : s[i] = t[i]

\* Two folds that see the same lines come to the same.
LEMMA FoldsAgree ==
    ASSUME NEW kind, NEW arg, NEW base, NEW s, NEW t, Begins(s, t),
           NEW f, NEW g, Folds(f, kind, arg, base, s), Folds(g, kind, arg, base, t)
    PROVE  \A n \in Nat : n <= Len(s) => f[n] = g[n]
<1> DEFINE S == {n \in Nat : n <= Len(s) => f[n] = g[n]}
<1>1. 0 \in S
  BY DEF Folds
<1>2. ASSUME NEW n \in Nat, n \in S PROVE n + 1 \in S
  <2>1. SUFFICES ASSUME n + 1 <= Len(s) PROVE f[n + 1] = g[n + 1]
    OBVIOUS
  <2>2. n < Len(s) /\ n < Len(t) /\ s[n + 1] = t[n + 1] /\ f[n] = g[n]
    BY <1>2, <2>1 DEF Begins
  <2> QED
    BY <2>2 DEF Folds
<1>3. \A n \in Nat : n \in S
  <2> HIDE DEF S
  <2> QED
    BY <1>1, <1>2, InductionOnNat
<1> QED
  BY <1>3

-----------------------------------------------------------------------------
(***************************************************************************)
(* The lines of the engine among those of its helper.                      *)
(***************************************************************************)
\* So do two that keep the engine's lines.
LEMMA OwnAgree ==
    ASSUME NEW s, NEW t, Begins(s, t),
           NEW f, NEW g, Folds(f, "own", "all", <<>>, s), Folds(g, "own", "all", <<>>, t)
    PROVE  g[Len(s)] = f[Len(s)]
<1>1. \A n \in Nat : n <= Len(s) => f[n] = g[n]
  BY FoldsAgree
<1> QED
  BY <1>1 DEF Begins

\* Lines of the helper at the end are not the engine's.
LEMMA OwnKeeps ==
    ASSUME NEW S, NEW s \in Seq(S), NEW t \in Seq(S), Len(s) <= Len(t),
           \A i \in 1..Len(s) : s[i] = t[i],
           \A i \in (Len(s) + 1)..Len(t) : t[i] = Noisy
    PROVE  Own(t) = Own(s)
<1>1. PICK f : Folds(f, "own", "all", <<>>, s) /\ Own(s) = f[Len(s)]
  BY OwnFolds
<1>2. PICK g : Folds(g, "own", "all", <<>>, t) /\ Own(t) = g[Len(t)]
  BY OwnFolds
<1>3. Len(s) \in Nat /\ Len(t) \in Nat /\ Len(s) <= Len(t) /\ \A i \in 1..Len(s) : s[i] = t[i]
  OBVIOUS
<1>4. g[Len(s)] = f[Len(s)]
  <2>1. Begins(s, t)
    BY <1>3 DEF Begins
  <2> QED
    BY <1>1, <1>2, <2>1, OwnAgree
<1> DEFINE T == {k \in Nat : Len(s) + k <= Len(t) => g[Len(s) + k] = f[Len(s)]}
<1>5. 0 \in T
  BY <1>3, <1>4
<1>6. ASSUME NEW k \in Nat, k \in T PROVE k + 1 \in T
  <2>1. SUFFICES ASSUME Len(s) + (k + 1) <= Len(t) PROVE g[Len(s) + (k + 1)] = f[Len(s)]
    OBVIOUS
  <2> DEFINE n == Len(s) + k
  <2>2. n \in Nat /\ n < Len(t) /\ n + 1 = Len(s) + (k + 1) /\ g[n] = f[Len(s)] /\ t[n + 1] = Noisy
    BY <1>3, <1>6, <2>1
  <2> HIDE DEF n
  <2> QED
    BY <1>2, <2>2 DEF Folds, Turn
<1>7. \A k \in Nat : k \in T
  <2> HIDE DEF T
  <2> QED
    BY <1>5, <1>6, InductionOnNat
<1>8. Len(t) - Len(s) \in Nat /\ Len(s) + (Len(t) - Len(s)) = Len(t)
  BY <1>3
<1> QED
  BY <1>1, <1>2, <1>7, <1>8

\* One more line.
LEMMA OwnAppend ==
    ASSUME NEW S, NEW s \in Seq(S), NEW x \in S
    PROVE  Own(Append(s, x)) = IF x = Noisy THEN Own(s) ELSE Append(Own(s), x)
<1> DEFINE t == Append(s, x)
<1>1. PICK f : Folds(f, "own", "all", <<>>, s) /\ Own(s) = f[Len(s)]
  BY OwnFolds
<1>2. PICK g : Folds(g, "own", "all", <<>>, t) /\ Own(t) = g[Len(t)]
  <2>1. t \in Seq(S)
    OBVIOUS
  <2> HIDE DEF t
  <2> QED
    BY <2>1, OwnFolds
<1>3. /\ Len(s) \in Nat /\ Len(t) = Len(s) + 1 /\ Len(t) \in Nat /\ Len(s) <= Len(t) /\ t[Len(s) + 1] = x
      /\ \A i \in 1..Len(s) : s[i] = t[i]
  OBVIOUS
<1> HIDE DEF t
<1>4. g[Len(s)] = f[Len(s)]
  <2>1. Begins(s, t)
    BY <1>3 DEF Begins
  <2> QED
    BY <1>1, <1>2, <2>1, OwnAgree
<1>5. g[Len(s) + 1] = Turn("own", "all", g[Len(s)], x)
  BY <1>2, <1>3 DEF Folds
<1> QED
  BY <1>1, <1>2, <1>3, <1>4, <1>5 DEF Turn, t

\* Lines without one of the helper's are the engine's own.
LEMMA OwnAll ==
    ASSUME NEW S, NEW s \in Seq(S), \A i \in 1..Len(s) : s[i] # Noisy
    PROVE  Own(s) = s
<1>1. PICK f : Folds(f, "own", "all", <<>>, s) /\ Own(s) = f[Len(s)]
  BY OwnFolds
<1> DEFINE T == {n \in Nat : n <= Len(s) => f[n] = SubSeq(s, 1, n)}
<1>2. 0 \in T
  <2>1. SubSeq(s, 1, 0) = <<>>
    OBVIOUS
  <2> QED
    BY <1>1, <2>1 DEF Folds
<1>3. ASSUME NEW n \in Nat, n \in T PROVE n + 1 \in T
  <2>1. SUFFICES ASSUME n + 1 <= Len(s) PROVE f[n + 1] = SubSeq(s, 1, n + 1)
    OBVIOUS
  <2>2. n < Len(s) /\ s[n + 1] # Noisy /\ f[n] = SubSeq(s, 1, n)
    BY <1>3, <2>1
  <2>3. f[n + 1] = Append(SubSeq(s, 1, n), s[n + 1])
    BY <1>1, <2>2 DEF Folds, Turn
  <2>4. Append(SubSeq(s, 1, n), s[n + 1]) = SubSeq(s, 1, n + 1)
    BY <2>2
  <2> QED
    BY <2>3, <2>4
<1>4. \A n \in Nat : n \in T
  <2> HIDE DEF T
  <2> QED
    BY <1>2, <1>3, InductionOnNat
<1>5. Len(s) \in Nat /\ SubSeq(s, 1, Len(s)) = s
  OBVIOUS
<1> QED
  BY <1>1, <1>4, <1>5

-----------------------------------------------------------------------------
(***************************************************************************)
(* The parsers.                                                            *)
(***************************************************************************)
Shaped(r) ==
    /\ r = [text |-> r.text, error |-> r.error, events |-> r.events, terminal |-> r.terminal,
            malformed |-> r.malformed, trailing |-> r.trailing, last |-> r.last]
    /\ {r.terminal, r.malformed, r.trailing} \subseteq BOOLEAN

NoFault(r) == r.error = NoError /\ ~r.malformed /\ ~r.trailing

\* A line that is no error with an empty text, which would be taken for none.
Sound(t) == t.type = "error" => t.part # NoError

\* A line that leaves OpenCode's session without a fault.
LEMMA OpenCodeLine ==
    ASSUME NEW r, NEW t, Shaped(r), Sound(t), NEW u, u = Line("opencode", r, t)
    PROVE  /\ Shaped(u)
           /\ NoFault(u) =>
                 /\ NoFault(r) /\ ~r.terminal
                 /\ t.type \notin {"noise", "error"}
                 /\ u.text = IF t.type = "text" THEN Append(r.text, t.part) ELSE r.text
                 /\ u.terminal => t.type = "step_finish" /\ t.part \in Endings
<1> DEFINE s == [r EXCEPT !.events = r.events + 1]
           again == r.last = "error" /\ t.type = "error"
           o == [s EXCEPT !.trailing = s.trailing \/ (s.terminal /\ ~again)]
<1>1. CASE r.error = EventLimit
  BY <1>1 DEF Line, NoFault, EventLimit, NoError
<1>2. CASE r.error # EventLimit /\ s.events > MaxEvents
  <2>1. u = [s EXCEPT !.error = EventLimit]
    BY <1>2 DEF Line
  <2> QED
    BY <2>1 DEF NoFault, EventLimit, NoError, Shaped
<1>3. CASE r.error # EventLimit /\ ~(s.events > MaxEvents) /\ t.type = "noise"
  <2>1. u = [s EXCEPT !.malformed = TRUE, !.trailing = s.trailing \/ s.terminal]
    BY <1>3 DEF Line, Malformed
  <2> QED
    BY <2>1 DEF NoFault, Shaped
<1>4. CASE r.error # EventLimit /\ ~(s.events > MaxEvents) /\ t.type # "noise"
  <2>1. u = OpenCodeEvent(s, t)
    BY <1>4 DEF Line
  <2>2. /\ Shaped(o) /\ o.trailing = (r.trailing \/ (r.terminal /\ ~again)) /\ o.text = r.text
        /\ o.error = r.error /\ o.malformed = r.malformed /\ o.terminal = r.terminal
    <3>1. /\ Shaped(s) /\ s.trailing = r.trailing /\ s.text = r.text /\ s.last = r.last
          /\ s.error = r.error /\ s.malformed = r.malformed /\ s.terminal = r.terminal
      BY DEF Shaped
    <3> HIDE DEF s
    <3> QED
      BY <3>1 DEF Shaped
  <2>3. u = CASE t.type = "text"  -> [o EXCEPT !.text = Append(o.text, t.part)]
              [] t.type = "error" -> [o EXCEPT !.terminal = TRUE, !.last = "error", !.error = t.part]
              [] t.type = "step_finish" /\ t.part \in Endings ->
                                     [o EXCEPT !.terminal = TRUE, !.last = "step_finish"]
              [] OTHER            -> o
    BY <2>1 DEF OpenCodeEvent, Shaped
  <2> HIDE DEF o, s
  <2>4. CASE t.type = "text"
    <3>1. u = [o EXCEPT !.text = Append(o.text, t.part)]
      BY <2>3, <2>4
    <3> QED
      BY <2>2, <2>4, <3>1 DEF NoFault, Shaped
  <2>5. CASE t.type = "error"
    <3>1. u = [o EXCEPT !.terminal = TRUE, !.last = "error", !.error = t.part]
      BY <2>3, <2>5
    <3> QED
      BY <2>2, <2>5, <3>1 DEF NoFault, Shaped, Sound
  <2>6. CASE t.type = "step_finish" /\ t.part \in Endings
    <3>1. u = [o EXCEPT !.terminal = TRUE, !.last = "step_finish"]
      BY <2>3, <2>6
    <3> QED
      BY <2>2, <2>6, <3>1 DEF NoFault, Shaped
  <2>7. CASE t.type \notin {"text", "error"} /\ ~(t.type = "step_finish" /\ t.part \in Endings)
    <3>1. u = o
      BY <2>3, <2>7
    <3> QED
      BY <1>4, <2>2, <2>7, <3>1 DEF NoFault, Shaped
  <2> QED
    BY <2>4, <2>5, <2>6, <2>7
<1> QED
  BY <1>1, <1>2, <1>3, <1>4

Messages == {"message_end", "turn_end", "agent_end"}

\* A line that leaves Prime's session without a fault.
LEMMA PrimeLine ==
    ASSUME NEW r, NEW t, Shaped(r), NEW u, u = Line("prime", r, t)
    PROVE  /\ Shaped(u)
           /\ NoFault(u) =>
                 /\ NoFault(r) /\ ~r.terminal
                 /\ t.type # "noise"
                 /\ t.type \in Messages => t.part # Failing
                 /\ IF t.type \in Messages /\ t.part \notin {"none", r.last}
                    THEN u.text = Append(r.text, t.part) /\ u.last = t.part
                    ELSE u.text = r.text /\ u.last = r.last
                 /\ u.terminal => t.type = "agent_end"
<1> DEFINE s == [r EXCEPT !.events = r.events + 1]
           o == [s EXCEPT !.trailing = s.trailing \/ s.terminal]
           p == Said(o, t.part)
           m == Recorded(p, t.part)
<1>1. CASE r.error = EventLimit
  BY <1>1 DEF Line, NoFault, EventLimit, NoError
<1>2. CASE r.error # EventLimit /\ s.events > MaxEvents
  <2>1. u = [s EXCEPT !.error = EventLimit]
    BY <1>2 DEF Line
  <2> QED
    BY <2>1 DEF NoFault, EventLimit, NoError, Shaped
<1>3. CASE r.error # EventLimit /\ ~(s.events > MaxEvents) /\ t.type = "noise"
  <2>1. u = [s EXCEPT !.malformed = TRUE, !.trailing = s.trailing \/ s.terminal]
    BY <1>3 DEF Line, Malformed
  <2> QED
    BY <2>1 DEF NoFault, Shaped
<1>4. CASE r.error # EventLimit /\ ~(s.events > MaxEvents) /\ t.type # "noise"
  <2>1. u = PrimeEvent(s, t)
    BY <1>4 DEF Line
  <2>2. /\ Shaped(o) /\ o.trailing = (r.trailing \/ r.terminal) /\ o.text = r.text /\ o.last = r.last
        /\ o.error = r.error /\ o.malformed = r.malformed /\ o.terminal = r.terminal
    <3>1. /\ Shaped(s) /\ s.trailing = r.trailing /\ s.text = r.text /\ s.last = r.last
          /\ s.error = r.error /\ s.malformed = r.malformed /\ s.terminal = r.terminal
      BY DEF Shaped
    <3> HIDE DEF s
    <3> QED
      BY <3>1 DEF Shaped
  <2>3. u = CASE t.type = "agent_end"                   -> [m EXCEPT !.terminal = TRUE]
              [] t.type \in {"message_end", "turn_end"} -> m
              [] OTHER                                  -> o
    BY <2>1 DEF PrimeEvent, Shaped
  <2> HIDE DEF o, s
  <2>4. /\ Shaped(p) /\ p.error = o.error /\ p.malformed = o.malformed /\ p.trailing = o.trailing
        /\ p.terminal = o.terminal
        /\ IF t.part \notin {"none", o.last} THEN p.text = Append(o.text, t.part) /\ p.last = t.part
           ELSE p.text = o.text /\ p.last = o.last
    <3>1. p = IF t.part \in {"none", o.last} THEN o
              ELSE [o EXCEPT !.text = Append(o.text, t.part), !.last = t.part]
      BY DEF Said
    <3> HIDE DEF p
    <3> QED
      BY <2>2, <3>1 DEF Shaped
  <2> HIDE DEF p
  <2>5. /\ Shaped(m) /\ m.text = p.text /\ m.last = p.last /\ m.malformed = p.malformed
        /\ m.trailing = p.trailing /\ m.terminal = p.terminal
        /\ m.error = IF t.part = Failing THEN Failing ELSE p.error
    BY <2>4 DEF Recorded, Shaped
  <2> HIDE DEF m
  <2>6. CASE t.type \notin Messages
    <3>1. u = o
      BY <2>3, <2>6 DEF Messages
    <3> QED
      BY <1>4, <2>2, <2>6, <3>1 DEF NoFault, Messages, Shaped
  <2>7. CASE t.type \in Messages
    <3>1. /\ Shaped(u) /\ u.text = m.text /\ u.last = m.last /\ u.error = m.error
          /\ u.malformed = m.malformed /\ u.trailing = m.trailing
          /\ u.terminal => t.type = "agent_end" \/ m.terminal
      <4>1. CASE t.type = "agent_end"
        <5>1. u = [m EXCEPT !.terminal = TRUE]
          BY <2>3, <4>1
        <5> QED
          BY <2>5, <4>1, <5>1 DEF Shaped
      <4>2. CASE t.type # "agent_end"
        <5>1. u = m
          BY <2>3, <2>7, <4>2 DEF Messages
        <5> QED
          BY <2>5, <5>1
      <4> QED
        BY <4>1, <4>2
    <3>2. Failing # NoError
      BY DEF Failing, NoError
    <3> QED
      BY <1>4, <2>2, <2>4, <2>5, <2>7, <3>1, <3>2 DEF NoFault, Shaped
  <2> QED
    BY <2>6, <2>7
<1> QED
  BY <1>1, <1>2, <1>3, <1>4

\* What _strict_result() takes for clean.
LEMMA CleanIs ==
    ASSUME NEW r, Shaped(r), Clean(Strict(r))
    PROVE  NoFault(r) /\ r.terminal /\ Strict(r).text = r.text
<1>1. CASE r.error # NoError
  BY <1>1 DEF Clean, Strict
<1>2. CASE r.error = NoError /\ r.malformed
  BY <1>2 DEF Clean, Strict, NoError, Shaped
<1>3. CASE r.error = NoError /\ ~r.malformed /\ r.trailing
  BY <1>3 DEF Clean, Strict, NoError, Shaped
<1>4. CASE NoFault(r)
  BY <1>4 DEF Clean, Strict, NoFault
<1> QED
  BY <1>1, <1>2, <1>3, <1>4 DEF NoFault, Shaped

\* A stream that OpenCode's parser takes for a success.
LEMMA OpenCodeClean ==
    ASSUME NEW S, NEW lines \in Seq(S), \A i \in 1..Len(lines) : Sound(lines[i]),
           Clean(Parse("opencode", lines))
    PROVE  /\ Len(lines) > 0
           /\ lines[Len(lines)].type = "step_finish" /\ lines[Len(lines)].part \in Endings
           /\ \A i \in 1..Len(lines) : lines[i].type # "noise"
           /\ PartsOf("error", lines) = <<>>
           /\ Parse("opencode", lines).text = PartsOf("text", lines)
<1>1. PICK f : Folds(f, "parse", "opencode", Nothing, lines) /\ Parse("opencode", lines) = Strict(f[Len(lines)])
  BY ParseFolds
<1>2. PICK texts : Folds(texts, "parts", "text", <<>>, lines) /\ PartsOf("text", lines) = texts[Len(lines)]
  BY PartsFolds
<1>3. PICK errors : Folds(errors, "parts", "error", <<>>, lines) /\ PartsOf("error", lines) = errors[Len(lines)]
  BY PartsFolds
<1> DEFINE Fine(n) ==
             /\ \A i \in 1..n : lines[i].type # "noise"
             /\ f[n].text = texts[n]
             /\ errors[n] = <<>>
             /\ f[n].terminal => n > 0 /\ lines[n].type = "step_finish" /\ lines[n].part \in Endings
           T == {n \in Nat : n <= Len(lines) => Shaped(f[n]) /\ (NoFault(f[n]) => Fine(n))}
<1>4. 0 \in T
  <2>1. f[0] = Nothing /\ texts[0] = <<>> /\ errors[0] = <<>>
    BY <1>1, <1>2, <1>3 DEF Folds
  <2>2. Shaped(Nothing) /\ Nothing.text = <<>> /\ ~Nothing.terminal
    BY DEF Nothing, Shaped
  <2> QED
    BY <2>1, <2>2
<1>5. ASSUME NEW n \in Nat, n \in T PROVE n + 1 \in T
  <2>1. SUFFICES ASSUME n + 1 <= Len(lines)
                 PROVE  Shaped(f[n + 1]) /\ (NoFault(f[n + 1]) => Fine(n + 1))
    OBVIOUS
  <2> DEFINE t == lines[n + 1]
  <2>2. n < Len(lines) /\ n + 1 \in 1..Len(lines) /\ Shaped(f[n]) /\ (NoFault(f[n]) => Fine(n))
    BY <1>5, <2>1
  <2>3. f[n + 1] = Line("opencode", f[n], t)
    BY <1>1, <2>2 DEF Folds, Turn
  <2>4. texts[n + 1] = IF t.type = "text" THEN Append(texts[n], t.part) ELSE texts[n]
    BY <1>2, <2>2 DEF Folds, Turn
  <2>5. errors[n + 1] = IF t.type = "error" THEN Append(errors[n], t.part) ELSE errors[n]
    BY <1>3, <2>2 DEF Folds, Turn
  <2>6. Sound(t)
    BY <2>2
  <2>7. /\ Shaped(f[n + 1])
        /\ NoFault(f[n + 1]) =>
              /\ NoFault(f[n]) /\ ~f[n].terminal
              /\ t.type \notin {"noise", "error"}
              /\ f[n + 1].text = IF t.type = "text" THEN Append(f[n].text, t.part) ELSE f[n].text
              /\ f[n + 1].terminal => t.type = "step_finish" /\ t.part \in Endings
    <3> HIDE DEF t
    <3> QED
      BY <2>2, <2>3, <2>6, OpenCodeLine
  <2>8. ASSUME NoFault(f[n + 1]) PROVE Fine(n + 1)
    <3>1. \A i \in 1..(n + 1) : i \in 1..n \/ i = n + 1
      OBVIOUS
    <3> QED
      BY <2>2, <2>4, <2>5, <2>7, <2>8, <3>1
  <2> QED
    BY <2>7, <2>8
<1>6. \A n \in Nat : n \in T
  <2> HIDE DEF T
  <2> QED
    BY <1>4, <1>5, InductionOnNat
<1> DEFINE n == Len(lines)
<1>7. n \in Nat
  OBVIOUS
<1>8. Shaped(f[n]) /\ (NoFault(f[n]) => Fine(n))
  BY <1>6, <1>7
<1>9. NoFault(f[n]) /\ f[n].terminal /\ Strict(f[n]).text = f[n].text
  BY <1>1, <1>8, CleanIs
<1> QED
  BY <1>1, <1>2, <1>3, <1>7, <1>8, <1>9

\* The message that came last among the first n lines, or none.
LastSaid(lines, n, message) ==
    \/ message = "none" /\ \A k \in 1..n : lines[k].type # "message_end"
    \/ \E k \in 1..n :
          /\ lines[k].type = "message_end" /\ lines[k].part = message
          /\ \A m \in (k + 1)..n : lines[m].type # "message_end"

\* A line that repeats one repeats the last, and a message_end does not.
LEMMA RepeatsLast ==
    ASSUME NEW lines, NEW n \in Nat, NEW message, LastSaid(lines, n, message)
    PROVE  Repeats(lines, n + 1) <=> lines[n + 1].part \in {"none", message}
<1>1. (n + 1) - 1 = n
  OBVIOUS
<1>2. CASE message = "none" /\ \A k \in 1..n : lines[k].type # "message_end"
  BY <1>1, <1>2 DEF Repeats
<1>3. CASE \E k \in 1..n : /\ lines[k].type = "message_end" /\ lines[k].part = message
                           /\ \A m \in (k + 1)..n : lines[m].type # "message_end"
  <2>1. PICK k \in 1..n : /\ lines[k].type = "message_end" /\ lines[k].part = message
                          /\ \A m \in (k + 1)..n : lines[m].type # "message_end"
    BY <1>3
  <2>2. ASSUME NEW j \in 1..n, lines[j].type = "message_end",
               \A m \in (j + 1)..n : lines[m].type # "message_end"
        PROVE  j = k
    BY <2>1, <2>2
  <2> QED
    BY <1>1, <2>1, <2>2 DEF Repeats
<1> QED
  BY <1>2, <1>3 DEF LastSaid

\* One more line.
LEMMA LastSaidGoesOn ==
    ASSUME NEW lines, NEW n \in Nat, NEW message, LastSaid(lines, n, message)
    PROVE  LastSaid(lines, n + 1, IF lines[n + 1].type = "message_end" THEN lines[n + 1].part ELSE message)
<1>1. \A m \in 1..(n + 1) : m \in 1..n \/ m = n + 1
  OBVIOUS
<1>2. CASE lines[n + 1].type = "message_end"
  <2>1. n + 1 \in 1..(n + 1) /\ \A m \in ((n + 1) + 1)..(n + 1) : FALSE
    OBVIOUS
  <2> QED
    BY <1>2, <2>1 DEF LastSaid
<1>3. CASE lines[n + 1].type # "message_end"
  <2>1. CASE message = "none" /\ \A k \in 1..n : lines[k].type # "message_end"
    BY <1>1, <1>3, <2>1 DEF LastSaid
  <2>2. CASE \E k \in 1..n : /\ lines[k].type = "message_end" /\ lines[k].part = message
                             /\ \A m \in (k + 1)..n : lines[m].type # "message_end"
    <3>1. PICK k \in 1..n : /\ lines[k].type = "message_end" /\ lines[k].part = message
                            /\ \A m \in (k + 1)..n : lines[m].type # "message_end"
      BY <2>2
    <3>2. \A m \in (k + 1)..(n + 1) : m \in (k + 1)..n \/ m = n + 1
      OBVIOUS
    <3>3. \A m \in (k + 1)..(n + 1) : lines[m].type # "message_end"
      BY <1>3, <3>1, <3>2
    <3>4. k \in 1..(n + 1)
      OBVIOUS
    <3> QED
      BY <1>3, <3>1, <3>3, <3>4 DEF LastSaid
  <2> QED
    BY <2>1, <2>2 DEF LastSaid
<1> QED
  BY <1>2, <1>3

\* A stream that Prime's parser takes for a success.
LEMMA PrimeClean ==
    ASSUME NEW S, NEW lines \in Seq(S), PrimeSpeaks(lines), Clean(Parse("prime", lines))
    PROVE  /\ Len(lines) > 0
           /\ lines[Len(lines)].type = "agent_end"
           /\ \A i \in 1..Len(lines) : lines[i].type # "noise"
           /\ \A i \in 1..Len(lines) : lines[i].part # Failing
           /\ Parse("prime", lines).text = PartsOf("message_end", lines)
<1>1. PICK f : Folds(f, "parse", "prime", Nothing, lines) /\ Parse("prime", lines) = Strict(f[Len(lines)])
  BY ParseFolds
<1>2. PICK texts : /\ Folds(texts, "parts", "message_end", <<>>, lines)
                   /\ PartsOf("message_end", lines) = texts[Len(lines)]
  BY PartsFolds
<1> DEFINE Fine(n) ==
             /\ \A i \in 1..n : lines[i].type # "noise" /\ lines[i].part # Failing
             /\ f[n].text = texts[n]
             /\ LastSaid(lines, n, f[n].last)
             /\ f[n].terminal => n > 0 /\ lines[n].type = "agent_end"
           T == {n \in Nat : n <= Len(lines) => Shaped(f[n]) /\ (NoFault(f[n]) => Fine(n))}
<1>3. 0 \in T
  <2>1. f[0] = Nothing /\ texts[0] = <<>>
    BY <1>1, <1>2 DEF Folds
  <2>2. Shaped(Nothing) /\ Nothing.text = <<>> /\ ~Nothing.terminal /\ Nothing.last = "none"
    BY DEF Nothing, Shaped
  <2>3. LastSaid(lines, 0, "none")
    BY DEF LastSaid
  <2> QED
    BY <2>1, <2>2, <2>3
<1>4. ASSUME NEW n \in Nat, n \in T PROVE n + 1 \in T
  <2>1. SUFFICES ASSUME n + 1 <= Len(lines)
                 PROVE  Shaped(f[n + 1]) /\ (NoFault(f[n + 1]) => Fine(n + 1))
    OBVIOUS
  <2> DEFINE t == lines[n + 1]
  <2>2. n < Len(lines) /\ n + 1 \in 1..Len(lines) /\ Shaped(f[n]) /\ (NoFault(f[n]) => Fine(n))
    BY <1>4, <2>1
  <2>3. f[n + 1] = Line("prime", f[n], t)
    BY <1>1, <2>2 DEF Folds, Turn
  <2>4. texts[n + 1] = IF t.type = "message_end" THEN Append(texts[n], t.part) ELSE texts[n]
    BY <1>2, <2>2 DEF Folds, Turn
  <2>5. /\ t.type = "message_end" => ~Repeats(lines, n + 1)
        /\ t.type \in {"turn_end", "agent_end"} => Repeats(lines, n + 1)
        /\ t.type \notin Messages => t.part # Failing
    BY <2>2 DEF PrimeSpeaks, Messages
  <2>6. /\ Shaped(f[n + 1])
        /\ NoFault(f[n + 1]) =>
              /\ NoFault(f[n]) /\ ~f[n].terminal
              /\ t.type # "noise"
              /\ t.type \in Messages => t.part # Failing
              /\ IF t.type \in Messages /\ t.part \notin {"none", f[n].last}
                 THEN f[n + 1].text = Append(f[n].text, t.part) /\ f[n + 1].last = t.part
                 ELSE f[n + 1].text = f[n].text /\ f[n + 1].last = f[n].last
              /\ f[n + 1].terminal => t.type = "agent_end"
    <3> HIDE DEF t
    <3> QED
      BY <2>2, <2>3, PrimeLine
  <2>7. ASSUME NoFault(f[n + 1]) PROVE Fine(n + 1)
    <3>1. NoFault(f[n]) /\ Fine(n)
      BY <2>2, <2>6, <2>7
    <3>2. Repeats(lines, n + 1) <=> t.part \in {"none", f[n].last}
      BY <3>1, RepeatsLast
    <3>3. LastSaid(lines, n + 1, IF t.type = "message_end" THEN t.part ELSE f[n].last)
      BY <3>1, LastSaidGoesOn
    <3>4. /\ f[n + 1].text = texts[n + 1]
          /\ f[n + 1].last = IF t.type = "message_end" THEN t.part ELSE f[n].last
      BY <2>4, <2>5, <2>6, <2>7, <3>1, <3>2 DEF Messages
    <3>5. t.part # Failing /\ t.type # "noise" /\ (f[n + 1].terminal => t.type = "agent_end")
      BY <2>5, <2>6, <2>7
    <3>6. \A i \in 1..(n + 1) : i \in 1..n \/ i = n + 1
      OBVIOUS
    <3> QED
      BY <3>1, <3>3, <3>4, <3>5, <3>6
  <2> QED
    BY <2>6, <2>7
<1>5. \A n \in Nat : n \in T
  <2> HIDE DEF T
  <2> QED
    BY <1>3, <1>4, InductionOnNat
<1> DEFINE n == Len(lines)
<1>6. n \in Nat
  OBVIOUS
<1>7. Shaped(f[n]) /\ (NoFault(f[n]) => Fine(n))
  BY <1>5, <1>6
<1>8. NoFault(f[n]) /\ f[n].terminal /\ Strict(f[n]).text = f[n].text
  BY <1>1, <1>7, CleanIs
<1> QED
  BY <1>1, <1>2, <1>6, <1>7, <1>8

-----------------------------------------------------------------------------
(***************************************************************************)
(* What becomes of the lines that the engine writes.                       *)
(***************************************************************************)
Written == Lines \cup {Noisy}

OutputTyped ==
    /\ engine \in Engines
    /\ {reader.data, pipe, out.stdout} \subseteq Seq(Written)
    /\ said \in Seq(Lines)
    /\ Len(reader.data) <= Limit
    /\ said = <<>> \/ \E stream \in Streams[engine] : IsPrefix(said, stream)

\* What the engine wrote is read or in the pipe, unless it was too much and a flag
\* says so or will.
Kept ==
    /\ reader.at = "flagging" \/ limited \/ Own(reader.data \o pipe) = Own(said)
    /\ reader.at = "done" => pipe = <<>>

Collecting == At("collect") \/ (Killing /\ control.next = "collect")

\* Before the output is taken the process is over and has been read to its end, though
\* its helper may go on.
Drained ==
    Collecting =>
        /\ leader # "running"
        /\ \A i \in 1..Len(pipe) : pipe[i] = Noisy
        /\ limited \/ Own(reader.data) = Own(said)

\* The output of a process that ended by itself is taken once, and the flag after it.
Taken ==
    out.code = "ended" /\ ~control.raised =>
        /\ control.at \in {"flags", "finally", "term", "kill", "returned"}
        /\ Killing => control.next = "returned"
        /\ (IF At("flags") THEN limited ELSE out.limited) \/ Own(out.stdout) = Own(said)

\* A process's success gives what the process wrote, all of it, with nothing but its
\* helper's lines in between.
Collected ==
    result.success /\ ~OverHTTP => Own(out.stdout) = Own(said)

\* The inductive invariant of the output, beside RunIInv.
OutputIInv == OutputTyped /\ Kept /\ Drained /\ Taken /\ Collected

LEMMA OutputStart == Init => OutputIInv
<1> SUFFICES ASSUME Init PROVE OutputIInv
  OBVIOUS
<1>1. /\ said = <<>> /\ pipe = <<>> /\ reader = [at |-> "reading", data |-> <<>>] /\ out = NoResult
      /\ control.at = "spawn" /\ ~result.success /\ engine \in Engines
  BY DEF Init, BoundaryInit, Pending, Failure, Result
<1>2. <<>> \o <<>> = <<>>
  OBVIOUS
<1>3. OutputTyped
  BY <1>1, BoundaryConstantsOK DEF OutputTyped, NoResult
<1> QED
  BY <1>1, <1>2, <1>3 DEF OutputIInv, Kept, Drained, Taken, Collected, Collecting, Killing, At, NoResult

\* What a line at the end of the pipe is to the engine's.
LEMMA PipeGrows ==
    ASSUME NEW S, NEW d \in Seq(S), NEW p \in Seq(S), NEW t \in S
    PROVE  Own(d \o Append(p, t)) = IF t = Noisy THEN Own(d \o p) ELSE Append(Own(d \o p), t)
<1>1. d \o p \in Seq(S) /\ d \o Append(p, t) = Append(d \o p, t)
  OBVIOUS
<1> QED
  BY <1>1, OwnAppend

\* The engine writes a line.
LEMMA SayStep ==
    ASSUME RunIInv, OutputIInv, Boundary(\E t \in Writes : Say(t))
    PROVE  OutputIInv'
<1>1. PICK t \in Writes : Say(t)
  BY DEF Boundary
<1>2. /\ leader = "running" /\ said' = Append(said, t) /\ pipe' = Append(pipe, t)
      /\ UNCHANGED <<leader, reader, limited, control, out, engine, result>>
  BY <1>1 DEF Say, Boundary
<1>3. t \in Lines /\ t \in Written /\ t # Noisy
  BY StreamsOK DEF Writes, Written
<1>4. OutputTyped'
  BY <1>2, <1>3 DEF OutputIInv, OutputTyped, Writes
<1>5. Kept'
  <2>1. Own(reader.data \o Append(pipe, t)) = Append(Own(reader.data \o pipe), t)
    BY <1>3, PipeGrows DEF OutputIInv, OutputTyped
  <2>2. Own(Append(said, t)) = Append(Own(said), t)
    BY <1>3, OwnAppend DEF OutputIInv, OutputTyped
  <2>3. reader.at # "done"
    BY <1>2 DEF RunIInv, BoundaryIInv, Alive, Held
  <2> QED
    BY <1>2, <2>1, <2>2, <2>3 DEF OutputIInv, Kept
<1>6. out.code # "ended" /\ ~(result.success /\ ~OverHTTP) /\ ~Collecting
  BY <1>2 DEF RunIInv, BoundaryIInv, Waited, EarnedSuccess, OutputIInv, Drained
<1> QED
  BY <1>2, <1>4, <1>5, <1>6 DEF OutputIInv, Drained, Taken, Collected, Collecting, Killing, At, OverHTTP

\* Its helper writes one.
LEMMA HelperSaysStep ==
    ASSUME RunIInv, OutputIInv, Boundary(HelperSays)
    PROVE  OutputIInv'
<1>1. /\ helper \in {"holding", "escaped"} /\ pipe' = Append(pipe, Noisy)
      /\ UNCHANGED <<leader, said, reader, limited, control, out, engine, result>>
  BY DEF HelperSays, Boundary
<1>2. Noisy \in Written
  BY DEF Written
<1>3. OutputTyped'
  BY <1>1, <1>2 DEF OutputIInv, OutputTyped
<1>4. Kept'
  <2>1. Own(reader.data \o Append(pipe, Noisy)) = Own(reader.data \o pipe)
    BY <1>2, PipeGrows DEF OutputIInv, OutputTyped
  <2>2. reader.at # "done"
    BY <1>1 DEF RunIInv, BoundaryIInv, Alive, Held
  <2> QED
    BY <1>1, <2>1, <2>2 DEF OutputIInv, Kept
<1>5. Drained'
  <2>1. ASSUME Collecting PROVE \A i \in 1..Len(pipe') : pipe'[i] = Noisy
    BY <1>1, <2>1 DEF OutputIInv, OutputTyped, Drained
  <2> QED
    BY <1>1, <2>1 DEF OutputIInv, Drained, Collecting, Killing, At
<1> QED
  BY <1>1, <1>3, <1>4, <1>5 DEF OutputIInv, Taken, Collected, Killing, At, OverHTTP

\* What else they do.
LEMMA OtherProcessesStep ==
    ASSUME RunIInv, OutputIInv, Boundary(Flood) \/ Boundary(Exit) \/ Boundary(HelperLives) \/ TimePasses
    PROVE  OutputIInv'
<1>1. /\ UNCHANGED <<said, pipe, reader, control, out, engine, result>>
      /\ limited => limited'
      /\ leader' = leader \/ leader = "running"
  BY DEF Flood, Exit, HelperLives, TimePasses, Expire, Boundary, processes
<1>2. leader # "running" => leader' # "running"
  BY <1>1
<1>3. OutputTyped' /\ Kept' /\ Collected'
  BY <1>1 DEF OutputIInv, OutputTyped, Kept, Collected, OverHTTP
<1>4. Drained' /\ Taken'
  BY <1>1, <1>2 DEF OutputIInv, Drained, Taken, Collecting, Killing, At
<1> QED
  BY <1>3, <1>4 DEF OutputIInv

\* A read takes what is in the pipe, or as much as fits.
LEMMA ReadStep ==
    ASSUME RunIInv, OutputIInv, Boundary(Read)
    PROVE  OutputIInv'
<1> DEFINE d == reader.data
           data == d \o pipe
           cut == SubSeq(data, 1, Limit)
<1>1. /\ reader.at = "reading" /\ pipe' = <<>>
      /\ UNCHANGED <<leader, said, limited, control, out, engine, result>>
      /\ reader' = IF Len(data) <= Limit THEN [reader EXCEPT !.data = data]
                   ELSE [at |-> "flagging", data |-> cut]
  BY DEF Read, Boundary
<1>2. d \in Seq(Written) /\ pipe \in Seq(Written) /\ Len(d) <= Limit /\ Limit \in Nat
  BY BoundaryConstantsOK DEF OutputIInv, OutputTyped
<1>3. data \in Seq(Written) /\ Len(data) = Len(d) + Len(pipe) /\ \A i \in 1..Len(d) : data[i] = d[i]
  BY <1>2
<1>4. \A i \in (Len(d) + 1)..Len(data) : data[i] = pipe[i - Len(d)] /\ i - Len(d) \in 1..Len(pipe)
  BY <1>2
<1>5. IF Len(data) <= Limit THEN reader'.at = "reading" /\ reader'.data = data
      ELSE reader'.at = "flagging" /\ reader'.data = cut
  <2>1. reader = [at |-> reader.at, data |-> reader.data]
    BY DEF RunIInv, BoundaryIInv, BoundaryTyped
  <2> HIDE DEF data, cut
  <2> QED
    BY <1>1, <2>1
<1> HIDE DEF data
<1>6. Len(data) > Limit =>
        /\ cut \in Seq(Written) /\ Len(cut) = Limit
        /\ \A i \in 1..Limit : cut[i] = data[i]
  BY <1>2, <1>3
<1>7. reader'.data \in Seq(Written) /\ Len(reader'.data) <= Limit
  <2> HIDE DEF cut
  <2> QED
    BY <1>2, <1>3, <1>5, <1>6
<1>8. OutputTyped'
  BY <1>1, <1>7 DEF OutputIInv, OutputTyped
<1>9. Kept'
  <2>1. data \o <<>> = data
    BY <1>3
  <2> HIDE DEF cut
  <2>2. CASE Len(data) <= Limit
    <3>1. reader.at = "flagging" \/ limited \/ Own(data) = Own(said)
      BY DEF OutputIInv, Kept, data
    <3> QED
      BY <1>1, <1>5, <2>1, <2>2, <3>1 DEF Kept
  <2>3. CASE ~(Len(data) <= Limit)
    BY <1>5, <2>3 DEF Kept
  <2> QED
    BY <2>2, <2>3
<1>10. Drained'
  <2>1. SUFFICES ASSUME Collecting PROVE Own(reader'.data) = Own(d)
    BY <1>1 DEF OutputIInv, Drained, Collecting, Killing, At
  <2>2. \A i \in (Len(d) + 1)..Len(data) : data[i] = Noisy
    BY <1>4, <2>1 DEF OutputIInv, Drained
  <2>3. /\ reader'.data \in Seq(Written) /\ Len(d) <= Len(reader'.data)
        /\ \A i \in 1..Len(d) : reader'.data[i] = d[i]
        /\ \A i \in (Len(d) + 1)..Len(reader'.data) : reader'.data[i] = Noisy
    <3> HIDE DEF cut
    <3>1. CASE Len(data) <= Limit
      BY <1>2, <1>3, <1>5, <2>2, <3>1
    <3>2. CASE ~(Len(data) <= Limit)
      <4>1. /\ reader'.data = cut /\ Len(cut) = Limit /\ cut \in Seq(Written)
            /\ \A i \in 1..Limit : cut[i] = data[i]
        BY <1>2, <1>3, <1>5, <1>6, <3>2
      <4>2. \A i \in 1..Len(d) : i \in 1..Limit
        BY <1>2
      <4>3. \A i \in (Len(d) + 1)..Limit : i \in 1..Limit /\ i \in (Len(d) + 1)..Len(data)
        BY <1>2, <1>3, <3>2
      <4> QED
        BY <1>2, <1>3, <2>2, <4>1, <4>2, <4>3
    <3> QED
      BY <3>1, <3>2
  <2> DEFINE e == reader'.data
  <2> HIDE DEF e, d, cut
  <2>4. \A i \in 1..Len(d) : d[i] = e[i]
    BY <2>3 DEF e
  <2> QED
    BY <1>2, <2>3, <2>4, OwnKeeps DEF e
<1>11. Taken' /\ Collected'
  BY <1>1 DEF OutputIInv, Taken, Collected, Killing, At, OverHTTP
<1> QED
  BY <1>8, <1>9, <1>10, <1>11 DEF OutputIInv

\* The reader flags what did not fit, and ends.
LEMMA ReaderEndsStep ==
    ASSUME RunIInv, OutputIInv, Boundary(FlagLimit) \/ Boundary(EndOfFile)
    PROVE  OutputIInv'
<1>1. /\ UNCHANGED <<leader, said, pipe, control, out, engine, result>>
      /\ reader'.data = reader.data
      /\ \/ reader'.at = "reading" /\ limited'
         \/ reader.at = "reading" /\ reader'.at = "done" /\ pipe = <<>> /\ limited' = limited
  BY DEF FlagLimit, EndOfFile, Boundary, processes, RunIInv, BoundaryIInv, BoundaryTyped
<1> QED
  BY <1>1 DEF OutputIInv, OutputTyped, Kept, Drained, Taken, Collected, Collecting, Killing, At, OverHTTP

\* The controller waits until a pipe is at its end, or nobody else writes to it, before
\* it takes the output.
LEMMA JoinStep ==
    ASSUME RunIInv, OutputIInv, Boundary(Join)
    PROVE  OutputIInv'
<1>1. At("join") /\ UNCHANGED <<leader, said, pipe, reader, limited, out, engine, result>>
  BY DEF Join, Boundary, processes
<1>2. /\ reader.at = "done" \/ CaughtUp
      /\ \/ control' = [control EXCEPT !.at = "collect"]
         \/ control' = [[[control EXCEPT !.at = "term"] EXCEPT !.next = "collect"] EXCEPT !.cleaned = TRUE]
  BY DEF Join, Boundary, Goes, Terminating
<1>3. control'.raised = control.raised /\ Collecting'
  BY <1>2 DEF RunIInv, BoundaryIInv, BoundaryTyped, Collecting, Killing, At
<1>4. OutputTyped' /\ Kept' /\ Collected'
  BY <1>1 DEF OutputIInv, OutputTyped, Kept, Collected, OverHTTP
<1>5. leader # "running"
  BY <1>1 DEF RunIInv, BoundaryIInv, Waited, At
<1>6. \A i \in 1..Len(pipe) : pipe[i] = Noisy
  BY <1>2 DEF CaughtUp, OutputIInv, Kept
<1>7. limited \/ Own(reader.data) = Own(said)
  <2> DEFINE d == reader.data
             data == d \o pipe
  <2>1. SUFFICES ASSUME ~limited PROVE Own(d) = Own(said)
    OBVIOUS
  <2>2. Own(data) = Own(said)
    BY <1>2, <2>1 DEF CaughtUp, OutputIInv, Kept
  <2>3. d \in Seq(Written) /\ pipe \in Seq(Written)
    BY DEF OutputIInv, OutputTyped
  <2> HIDE DEF d
  <2>4. /\ data \in Seq(Written) /\ Len(d) <= Len(data) /\ \A i \in 1..Len(d) : d[i] = data[i]
        /\ \A i \in (Len(d) + 1)..Len(data) : data[i] = Noisy
    <3>1. data \in Seq(Written) /\ Len(data) = Len(d) + Len(pipe)
      BY <2>3
    <3>2. \A i \in (Len(d) + 1)..Len(data) : data[i] = pipe[i - Len(d)] /\ i - Len(d) \in 1..Len(pipe)
      BY <2>3
    <3> QED
      BY <1>6, <2>3, <3>1, <3>2
  <2> HIDE DEF data
  <2>5. Own(data) = Own(d)
    BY <2>3, <2>4, OwnKeeps
  <2> QED
    BY <2>2, <2>5
<1>8. Drained'
  BY <1>1, <1>5, <1>6, <1>7 DEF Drained
<1>9. Taken'
  BY <1>1, <1>3 DEF OutputIInv, Taken, At
<1> QED
  BY <1>4, <1>8, <1>9 DEF OutputIInv

\* A termination leaves the lines alone and a process that is over as it is.
LEMMA TerminationStep ==
    ASSUME RunIInv, OutputIInv, Boundary(Terminate) \/ Boundary(Kill)
    PROVE  OutputIInv'
<1>1. /\ Killing
      /\ UNCHANGED <<said, pipe, reader, limited, out, engine, result>>
      /\ control' = [control EXCEPT !.at = "kill"] \/ control' = [control EXCEPT !.at = control.next]
      /\ control.at = "kill" => control' = [control EXCEPT !.at = control.next]
      /\ leader # "running" => leader' # "running"
  BY DEF Terminate, Kill, Boundary, Goes, At, Killing
<1>2. /\ control'.next = control.next /\ control'.raised = control.raised
      /\ control'.at = "kill" \/ control'.at = control.next
      /\ control.next \in {"join", "collect", "returned"}
  BY <1>1 DEF RunIInv, BoundaryIInv, BoundaryTyped, Terminated
<1>3. OutputTyped' /\ Kept' /\ Collected'
  BY <1>1 DEF OutputIInv, OutputTyped, Kept, Collected, OverHTTP
<1>4. Drained'
  BY <1>1, <1>2 DEF OutputIInv, Drained, Collecting, Killing, At
<1>5. Taken'
  BY <1>1, <1>2 DEF OutputIInv, Taken, Killing, At
<1> QED
  BY <1>3, <1>4, <1>5 DEF OutputIInv

\* The output is taken, and its flag read.
LEMMA CollectStep ==
    ASSUME RunIInv, OutputIInv, result = Pending, Boundary(Collect) \/ Boundary(Flags)
    PROVE  OutputIInv'
<1>1. /\ UNCHANGED <<leader, said, pipe, reader, limited, engine, result>>
  BY DEF Collect, Flags, Boundary, processes
<1>2. CASE Boundary(Collect)
  <2>1. /\ At("collect") /\ control' = [control EXCEPT !.at = "flags"]
        /\ out' = [[out EXCEPT !.code = leader] EXCEPT !.stdout = reader.data]
    BY <1>2 DEF Collect, Boundary, Goes
  <2>2. control'.at = "flags" /\ out'.stdout = reader.data
    BY <2>1 DEF RunIInv, BoundaryIInv, BoundaryTyped
  <2>3. OutputTyped'
    BY <1>1, <2>2 DEF OutputIInv, OutputTyped
  <2>4. limited \/ Own(reader.data) = Own(said)
    BY <2>1 DEF OutputIInv, Drained, Collecting
  <2>5. ~result.success
    BY DEF Pending, Failure, Result
  <2> QED
    BY <1>1, <2>2, <2>3, <2>4, <2>5 DEF OutputIInv, Kept, Drained, Taken, Collected, Collecting, Killing, At,
       OverHTTP
<1>3. CASE Boundary(Flags)
  <2>1. /\ At("flags") /\ control' = [control EXCEPT !.at = "finally"]
        /\ out' = [[out EXCEPT !.timed_out = control.timed_out] EXCEPT !.limited = limited]
    BY <1>3 DEF Flags, Boundary, Goes
  <2>2. /\ control'.at = "finally" /\ control'.raised = control.raised
        /\ out'.code = out.code /\ out'.stdout = out.stdout /\ out'.limited = limited
    BY <2>1 DEF RunIInv, BoundaryIInv, BoundaryTyped
  <2> QED
    BY <1>1, <2>1, <2>2 DEF OutputIInv, OutputTyped, Kept, Drained, Taken, Collected, Collecting, Killing,
       At, OverHTTP
<1> QED
  BY <1>2, <1>3

\* The controller otherwise.
LEMMA OtherControlStep ==
    ASSUME RunIInv, OutputIInv,
           Boundary(Spawn) \/ Boundary(Poll) \/ Boundary(Finally) \/ Boundary(Cancel)
    PROVE  OutputIInv'
<1>1. UNCHANGED <<said, pipe, reader, limited, out, engine, result>>
  BY DEF Spawn, Poll, Finally, Cancel, Boundary, processes
<1>2. OutputTyped' /\ Kept' /\ Collected'
  BY <1>1 DEF OutputIInv, OutputTyped, Kept, Collected, OverHTTP
<1>3. CASE Boundary(Spawn)
  <2>1. At("spawn") /\ control'.at \in {"poll", "refused"}
    BY <1>3 DEF Spawn, Boundary, Goes, RunIInv, BoundaryIInv, BoundaryTyped
  <2>2. out.code # "ended"
    BY <2>1 DEF RunIInv, BoundaryIInv, Waited, Alive, Spawned, At
  <2> QED
    BY <1>1, <1>2, <2>1, <2>2 DEF OutputIInv, Drained, Taken, Collecting, Killing, At
<1>4. CASE Boundary(Poll)
  <2>1. /\ At("poll")
        /\ \/ control' = [control EXCEPT !.at = "join"]
           \/ control' = [[[control EXCEPT !.at = "term"] EXCEPT !.next = "join"] EXCEPT !.cleaned = TRUE]
           \/ control' = [[[[control EXCEPT !.at = "term"] EXCEPT !.next = "join"] EXCEPT !.cleaned = TRUE]
                             EXCEPT !.timed_out = TRUE]
    BY <1>4 DEF Poll, Boundary, Goes, Terminating
  <2>2. /\ control'.raised = control.raised
        /\ control'.at = "join" \/ (control'.at = "term" /\ control'.next = "join")
    BY <2>1 DEF RunIInv, BoundaryIInv, BoundaryTyped
  <2> QED
    BY <1>1, <1>2, <2>1, <2>2 DEF OutputIInv, Drained, Taken, Collecting, Killing, At
<1>5. CASE Boundary(Finally)
  <2>1. /\ At("finally")
        /\ \/ control' = [control EXCEPT !.at = "returned"]
           \/ control' = [[[control EXCEPT !.at = "term"] EXCEPT !.next = "returned"] EXCEPT !.cleaned = TRUE]
    BY <1>5 DEF Finally, Boundary, Goes, Terminating
  <2>2. /\ control'.raised = control.raised
        /\ control'.at = "returned" \/ (control'.at = "term" /\ control'.next = "returned")
    BY <2>1 DEF RunIInv, BoundaryIInv, BoundaryTyped
  <2> QED
    BY <1>1, <1>2, <2>1, <2>2 DEF OutputIInv, Drained, Taken, Collecting, Killing, At
<1>6. CASE Boundary(Cancel)
  <2>1. control'.at = "finally" /\ control'.raised
    BY <1>6 DEF Cancel, Boundary, RunIInv, BoundaryIInv, BoundaryTyped
  <2> QED
    BY <1>1, <1>2, <2>1 DEF OutputIInv, Drained, Taken, Collecting, Killing, At
<1> QED
  BY <1>3, <1>4, <1>5, <1>6

\* What an adapter makes of it.
LEMMA ResultStep ==
    ASSUME RunIInv, OutputIInv, Answer \/ Refuse \/ HTTP \/ BodyLate
    PROVE  OutputIInv'
<1>1. UNCHANGED <<leader, said, pipe, reader, limited, control, out, engine>>
  BY DEF Answer, Refuse, HTTP, Request, Chunk, Silence, BodyLate, boundary, processes
<1>2. OutputTyped' /\ Kept' /\ Drained' /\ Taken'
  BY <1>1 DEF OutputIInv, OutputTyped, Kept, Drained, Taken, Collecting, Killing, At
<1>3. Collected'
  <2>1. CASE Answer /\ ~control.raised /\ At("returned") /\ result' = Outcome(out)
    <3>1. ASSUME Outcome(out).success PROVE out.code = "ended" /\ ~out.limited
      BY <3>1, OutcomeIsEarned DEF Outcome, Failure, Result
    <3> QED
      BY <1>1, <2>1, <3>1 DEF OutputIInv, Taken, Collected, At, OverHTTP
  <2>2. CASE Answer /\ ~(~control.raised /\ At("returned") /\ result' = Outcome(out))
    BY <2>2 DEF Answer, Failure, Result, Collected
  <2>3. CASE Refuse
    BY <2>3 DEF Refuse, Failure, Result, Collected
  <2>4. CASE HTTP \/ BodyLate
    <3>1. OverHTTP \/ result' = result
      BY <2>4 DEF HTTP, Request, Chunk, Silence, BodyLate, RunIInv, Exchanged
    <3> QED
      BY <1>1, <3>1 DEF OutputIInv, Collected, OverHTTP
  <2> QED
    BY <2>1, <2>2, <2>3, <2>4
<1> QED
  BY <1>2, <1>3 DEF OutputIInv

LEMMA OutputStep ==
    ASSUME RunIInv, OutputIInv, [Next]_vars
    PROVE  OutputIInv'
<1>1. CASE UNCHANGED vars
  BY <1>1 DEF vars, boundary, OutputIInv, OutputTyped, Kept, Drained, Taken, Collected, Collecting, Killing, At,
              OverHTTP
<1>2. CASE Run
  <2>1. /\ result = Pending
        /\ \/ Boundary(Spawn) \/ Boundary(Poll) \/ Boundary(Terminate) \/ Boundary(Kill)
           \/ Boundary(Join) \/ Boundary(Collect) \/ Boundary(Flags) \/ Boundary(Finally)
    BY <1>2 DEF Run, Boundary, Controls
  <2> QED
    BY <2>1, OtherControlStep, TerminationStep, JoinStep, CollectStep
<1>3. CASE Cancelled
  BY <1>3, OtherControlStep DEF Cancelled
<1>4. CASE Boundary(Processes)
  <2>1. \/ Boundary(\E t \in Writes : Say(t)) \/ Boundary(Flood) \/ Boundary(Exit)
        \/ Boundary(HelperLives) \/ Boundary(HelperSays)
    BY <1>4 DEF Boundary, Processes
  <2> QED
    BY <2>1, SayStep, HelperSaysStep, OtherProcessesStep
<1>5. CASE ReaderRuns
  <2>1. Boundary(Read) \/ Boundary(FlagLimit) \/ Boundary(EndOfFile)
    BY <1>5 DEF ReaderRuns, Boundary, Reads
  <2> QED
    BY <2>1, ReadStep, ReaderEndsStep
<1>6. CASE TimePasses
  BY <1>6, OtherProcessesStep
<1>7. CASE Answer \/ Refuse \/ HTTP \/ BodyLate
  BY <1>7, ResultStep
<1> QED
  BY <1>1, <1>2, <1>3, <1>4, <1>5, <1>6, <1>7 DEF Next

-----------------------------------------------------------------------------
(***************************************************************************)
(* What the parsers make of the engine's own stream.                       *)
(***************************************************************************)
\* The parser of Prime's stream takes no helper's line for a success.
LEMMA PrimeNoiseless ==
    ASSUME NEW S, NEW lines \in Seq(S), Clean(Parse("prime", lines))
    PROVE  \A i \in 1..Len(lines) : lines[i].type # "noise"
<1>1. PICK f : Folds(f, "parse", "prime", Nothing, lines) /\ Parse("prime", lines) = Strict(f[Len(lines)])
  BY ParseFolds
<1> DEFINE Fine(n) == \A i \in 1..n : lines[i].type # "noise"
           T == {n \in Nat : n <= Len(lines) => Shaped(f[n]) /\ (NoFault(f[n]) => Fine(n))}
<1>2. 0 \in T
  <2>1. f[0] = Nothing /\ Shaped(Nothing)
    BY <1>1 DEF Folds, Nothing, Shaped
  <2> QED
    BY <2>1
<1>3. ASSUME NEW n \in Nat, n \in T PROVE n + 1 \in T
  <2>1. SUFFICES ASSUME n + 1 <= Len(lines)
                 PROVE  Shaped(f[n + 1]) /\ (NoFault(f[n + 1]) => Fine(n + 1))
    OBVIOUS
  <2> DEFINE t == lines[n + 1]
  <2>2. n < Len(lines) /\ Shaped(f[n]) /\ (NoFault(f[n]) => Fine(n))
    BY <1>3, <2>1
  <2>3. f[n + 1] = Line("prime", f[n], t)
    BY <1>1, <2>2 DEF Folds, Turn
  <2>4. Shaped(f[n + 1]) /\ (NoFault(f[n + 1]) => NoFault(f[n]) /\ t.type # "noise")
    <3> HIDE DEF t
    <3> QED
      BY <2>2, <2>3, PrimeLine
  <2>5. \A i \in 1..(n + 1) : i \in 1..n \/ i = n + 1
    OBVIOUS
  <2> QED
    BY <2>2, <2>4, <2>5
<1>4. \A n \in Nat : n \in T
  <2> HIDE DEF T
  <2> QED
    BY <1>2, <1>3, InductionOnNat
<1> DEFINE n == Len(lines)
<1>5. n \in Nat /\ Shaped(f[n]) /\ (NoFault(f[n]) => Fine(n))
  BY <1>4
<1>6. NoFault(f[n])
  BY <1>1, <1>5, CleanIs
<1> QED
  BY <1>5, <1>6

\* What a stream is taken to do, a part of it does that is cut short.
LEMMA PrimeSpeaksSoFar ==
    ASSUME NEW S, NEW s \in Seq(S), NEW t \in Seq(S), IsPrefix(s, t), PrimeSpeaks(t)
    PROVE  PrimeSpeaks(s)
<1>1. Len(s) <= Len(t) /\ SubSeq(s, 1, Len(s)) = SubSeq(t, 1, Len(s))
  BY DEF IsPrefix
<1>2. \A i \in 1..Len(s) : i \in 1..Len(t) /\ s[i] = t[i]
  <2>1. \A i \in 1..Len(s) : SubSeq(s, 1, Len(s))[i] = s[i] /\ SubSeq(t, 1, Len(s))[i] = t[i]
    BY <1>1
  <2> QED
    BY <1>1, <2>1
<1>3. ASSUME NEW i \in 1..Len(s) PROVE Repeats(s, i) <=> Repeats(t, i)
  <2>1. \A k \in 1..(i - 1) : k \in 1..Len(s) /\ s[k] = t[k]
    BY <1>2
  <2>2. \A k \in 1..(i - 1) : \A m \in (k + 1)..(i - 1) : m \in 1..(i - 1)
    OBVIOUS
  <2> QED
    BY <1>2, <2>1, <2>2 DEF Repeats
<1> QED
  BY <1>2, <1>3 DEF PrimeSpeaks

\* An output without a helper's line is what the engine said.
LEMMA NothingElse ==
    ASSUME WellSpoken, OutputIInv, Own(out.stdout) = Own(said),
           \A i \in 1..Len(out.stdout) : out.stdout[i].type # "noise"
    PROVE  out.stdout = said
<1>1. out.stdout \in Seq(Written) /\ said \in Seq(Lines)
  BY DEF OutputIInv, OutputTyped
<1>2. Own(out.stdout) = out.stdout
  BY <1>1, OwnAll DEF WellSpoken
<1>3. \A i \in 1..Len(said) : said[i] # Noisy
  BY <1>1, StreamsOK
<1>4. Own(said) = said
  BY <1>1, <1>3, OwnAll
<1> QED
  BY <1>2, <1>4

\* What a success says of the stream it was read from.
Understood ==
    result.success =>
        /\ engine = "opencode" =>
              /\ Last(said).type = "step_finish" /\ Last(said).part \in Endings
              /\ PartsOf("error", said) = <<>>
              /\ result.text = PartsOf("text", said)
        /\ engine = "prime" =>
              /\ Last(said).type = "agent_end"
              /\ \A i \in 1..Len(said) : said[i].part # Failing
              /\ result.text = PartsOf("message_end", said)

LEMMA AnswerUnderstood ==
    ASSUME WellSpoken, RunIInv, OutputIInv, At("returned"), ~control.raised, result' = Outcome(out),
           UNCHANGED <<said, engine>>
    PROVE  Understood'
<1> DEFINE parsed == Parse(engine, out.stdout)
<1>1. SUFFICES ASSUME result'.success, Streaming PROVE Understood'
  BY DEF Understood, Streaming
<1>2. Clean(parsed) /\ result'.text = parsed.text /\ ~out.limited /\ out.code = "ended"
  BY <1>1, OutcomeIsEarned DEF Outcome, Streamed, Failure, Result
<1>3. Own(out.stdout) = Own(said)
  BY <1>2 DEF OutputIInv, Taken, At
<1>4. out.stdout \in Seq(Written) /\ said \in Seq(Lines)
  BY DEF OutputIInv, OutputTyped
<1>5. CASE engine = "opencode"
  <2>1. \A i \in 1..Len(out.stdout) : Sound(out.stdout[i])
    BY <1>4, StreamsOK DEF Sound, WellSpoken, Written
  <2>2. /\ Len(out.stdout) > 0
        /\ out.stdout[Len(out.stdout)].type = "step_finish" /\ out.stdout[Len(out.stdout)].part \in Endings
        /\ \A i \in 1..Len(out.stdout) : out.stdout[i].type # "noise"
        /\ PartsOf("error", out.stdout) = <<>>
        /\ parsed.text = PartsOf("text", out.stdout)
    BY <1>2, <1>4, <1>5, <2>1, OpenCodeClean
  <2>3. out.stdout = said
    BY <1>3, <2>2, NothingElse
  <2> QED
    BY <1>2, <1>5, <2>2, <2>3 DEF Understood, Last
<1>6. CASE engine = "prime"
  <2>1. \A i \in 1..Len(out.stdout) : out.stdout[i].type # "noise"
    BY <1>2, <1>4, <1>6, PrimeNoiseless
  <2>2. out.stdout = said
    BY <1>3, <2>1, NothingElse
  <2>3. PrimeSpeaks(said)
    <3>1. CASE said = <<>>
      BY <3>1 DEF PrimeSpeaks
    <3>2. CASE said # <<>>
      <4>1. PICK stream \in Streams["prime"] : IsPrefix(said, stream)
        BY <1>6, <3>2 DEF OutputIInv, OutputTyped
      <4>2. "prime" \in Engines
        BY <1>6 DEF OutputIInv, OutputTyped
      <4>3. stream \in Seq(Lines) /\ PrimeSpeaks(stream)
        BY <4>1, <4>2, StreamsOK DEF WellSpoken
      <4> QED
        BY <1>4, <4>1, <4>3, PrimeSpeaksSoFar
    <3> QED
      BY <3>1, <3>2
  <2>4. Clean(Parse("prime", said)) /\ result'.text = Parse("prime", said).text
    BY <1>2, <1>6, <2>2
  <2>5. /\ Len(said) > 0
        /\ said[Len(said)].type = "agent_end"
        /\ \A i \in 1..Len(said) : said[i].part # Failing
        /\ Parse("prime", said).text = PartsOf("message_end", said)
    BY <1>4, <2>3, <2>4, PrimeClean
  <2> QED
    BY <1>6, <2>4, <2>5 DEF Understood, Last
<1> QED
  BY <1>1, <1>5, <1>6 DEF Streaming

\* A success is said once, and of a process that writes no more.
LEMMA UnderstoodStep ==
    ASSUME WellSpoken, RunIInv, OutputIInv, Understood, [Next]_vars
    PROVE  Understood'
<1>1. CASE Answer /\ At("returned") /\ ~control.raised /\ result' = Outcome(out)
  BY <1>1, AnswerUnderstood DEF Answer, boundary
<1>2. CASE Answer /\ ~(At("returned") /\ ~control.raised /\ result' = Outcome(out))
  BY <1>2 DEF Answer, Failure, Result, Understood
<1>3. CASE Refuse
  BY <1>3 DEF Refuse, Failure, Result, Understood
<1>4. CASE HTTP
  <2>1. OverHTTP
    BY <1>4 DEF HTTP, Request, Chunk, Silence, RunIInv, Exchanged
  <2>2. UNCHANGED engine
    BY <1>4 DEF HTTP, Request, Chunk, Silence
  <2> QED
    BY <2>1, <2>2 DEF OverHTTP, Understood
<1>5. CASE UNCHANGED vars \/ BodyLate
  BY <1>5 DEF vars, boundary, BodyLate, processes, Understood
<1>6. CASE Run \/ Cancelled \/ Boundary(Processes) \/ ReaderRuns \/ TimePasses
  <2>1. UNCHANGED <<engine, result>> /\ ~OverHTTP
    BY <1>6 DEF Run, Cancelled, ReaderRuns, TimePasses, Boundary
  <2>2. ASSUME result.success PROVE UNCHANGED said
    <3>1. leader # "running"
      BY <2>1, <2>2 DEF RunIInv, EarnedSuccess
    <3> QED
      BY <1>6, <3>1 DEF Run, Cancelled, ReaderRuns, TimePasses, Boundary, Processes, Say, Flood, Exit,
         HelperLives, HelperSays, Reads, Read, FlagLimit, EndOfFile, Expire, Controls, Cancel, Spawn, Poll,
         Terminate, Kill, Join, Collect, Flags, Finally, processes
  <2> QED
    BY <2>1, <2>2 DEF Understood
<1> QED
  BY <1>1, <1>2, <1>3, <1>4, <1>5, <1>6 DEF Next

THEOREM OutputInvariance == Spec => [](RunIInv /\ OutputIInv)
<1>1. Init => OutputIInv
  BY OutputStart
<1>2. RunIInv /\ OutputIInv /\ [Next]_vars => OutputIInv'
  BY OutputStep
<1> QED
  BY <1>1, <1>2, EngineInvariance, PTL DEF Spec

\* A process's success gives everything that the process wrote, in its order, and only
\* its helper's lines besides (run_process).
THEOREM CollectedWhole == Spec => []Collected
<1>1. OutputIInv => Collected
  BY DEF OutputIInv
<1> QED
  BY <1>1, OutputInvariance, PTL

\* A run that succeeds gives all that the engine said and nothing twice, if no line
\* of its helper is an event and Prime sends its messages as it is taken to do
\* (run_process, parse_opencode, parse_prime, the adapters' run).
THEOREM WholeSuccess == WellSpoken => (Spec => []SuccessIsWhole)
<1>1. SUFFICES ASSUME WellSpoken PROVE Spec => []SuccessIsWhole
  OBVIOUS
<1>2. Init => Understood
  BY DEF Init, Pending, Failure, Result, Understood
<1>3. RunIInv /\ OutputIInv /\ Understood /\ [Next]_vars => Understood'
  BY <1>1, UnderstoodStep
<1>4. RunIInv /\ OutputIInv /\ Understood => SuccessIsWhole
  BY DEF RunIInv, EarnedSuccess, OutputIInv, Collected, Understood, SuccessIsWhole
<1> QED
  BY <1>2, <1>3, <1>4, OutputInvariance, PTL DEF Spec

=============================================================================
