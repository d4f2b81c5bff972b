-------------------------- MODULE PrimeDaemon_proofs --------------------------
(***************************************************************************)
(* Proofs about StartLock.tla and PrimeDaemon.tla, for any starters and    *)
(* stoppers, any platforms and methods of the lock and any number of pids. *)
(***************************************************************************)
EXTENDS PrimeDaemon, FiniteSetTheorems, WellFoundedInduction, TLAPS

-----------------------------------------------------------------------------
(***************************************************************************)
(* The inductive invariant.                                                *)
(***************************************************************************)
LockTyped ==
    /\ stage \in [Starters -> Stage]
    /\ flocked = {s \in Starters : stage[s] = "flocked"}
    /\ stolen \in BOOLEAN

\* A lock file is never removed, and a directory that was made is there, and
\* young, until it is stolen.  So the two strategies exclude each other by what is
\* at their common path.
LockHeld ==
    /\ \A s \in Starters : stage[s] = "flocked" => entry = "file"
    /\ ~stolen =>
         /\ \A s \in Starters : stage[s] = "made" => entry = "dir"
         /\ \A s, t \in Starters : Holding(s) /\ Holding(t) => s = t

LockIInv == LockTyped /\ LockHeld

Typed ==
    /\ daemon \in [Pids -> DaemonState]
    /\ pidfile \in Pids \cup {0}
    /\ socket \in Pids \cup {0}
    /\ doing \in [Actors -> [at : Place, pid : Pids \cup {0}]]
    /\ \A a \in Actors :
         doing[a].at \in {"record", "wait", "kill", "heal", "heal up"} => doing[a].pid # 0

\* What a starter does, it does with the mutex.
Locked == \A s \in Starters : doing[s].at # "nowhere" => Holding(s)

\* From the check under the mutex to the spawn there is no daemon; one that has been
\* spawned and not recorded is the only one; and any other is in the pidfile.
Accounted ==
    /\ \A s \in Starters : doing[s].at \in {"clean", "heal", "sweep", "spawn"} => Live = {}
    /\ \A s \in Starters : doing[s].at = "record" => Live \subseteq {doing[s].pid}
    /\ \A p \in Live : p = pidfile \/ \E s \in Starters : doing[s].at = "record"

IInv == LockIInv /\ Typed /\ Locked /\ (Undisturbed => Accounted)

-----------------------------------------------------------------------------
(***************************************************************************)
(* The lock.                                                               *)
(***************************************************************************)
\* A starter that goes on without a lock and without touching the path.
LEMMA WaitStep ==
    ASSUME LockIInv, NEW s \in Starters, NEW to \in Stage \ {"flocked", "made"},
           ~Holding(s), Go(s, to), UNCHANGED <<flocked, stolen>>,
           entry' = entry \/ (entry \in {"none", "file"} /\ entry' = "file" /\ entry # "dir")
    PROVE  LockIInv' /\ \A t \in Starters : Holding(t) => Holding(t)'
<1>1. stage[s] # "flocked" /\ stage[s] # "made"
  BY DEF Holding
<1>2. stage' \in [Starters -> Stage] /\ stage'[s] = to /\ \A t \in Starters : t # s => stage'[t] = stage[t]
  BY DEF LockIInv, LockTyped, Go
<1>3. to # "flocked" /\ to # "made"
  OBVIOUS
<1>4. LockTyped'
  BY <1>1, <1>2, <1>3 DEF LockIInv, LockTyped
<1>5. LockHeld'
  <2>1. \A t \in Starters : Holding(t)' => Holding(t) /\ stage'[t] = stage[t]
    BY <1>2, <1>3 DEF Holding
  <2>2. \A t \in Starters : stage'[t] = "flocked" => entry' = "file"
    BY <1>2, <1>3 DEF LockIInv, LockHeld
  <2>3. ASSUME ~stolen', NEW t \in Starters, stage'[t] = "made" PROVE entry' = "dir"
    BY <1>2, <1>3, <2>3 DEF LockIInv, LockHeld
  <2>4. QED
    BY <2>1, <2>2, <2>3 DEF LockIInv, LockHeld
<1>6. \A t \in Starters : Holding(t) => Holding(t)'
  BY <1>1, <1>2 DEF Holding
<1>7. QED
  BY <1>4, <1>5, <1>6 DEF LockIInv

LEMMA AttemptStep ==
    ASSUME LockIInv, NEW s \in Starters, Attempt(s)
    PROVE  /\ LockIInv' /\ ~Holding(s) /\ (stolen => stolen')
           /\ \A t \in Starters : Holding(t) => Holding(t)'
<1>1. ~Holding(s)
  BY DEF Attempt, Look, FlockAcquire, FlockBusy, FlockOnDirectory, FlockRejected, Mkdir, Lstat,
         Rmdir, Holding
<1>2. stage \in [Starters -> Stage] /\ stolen \in BOOLEAN
  BY DEF LockIInv, LockTyped
<1>3. CASE Look(s)
  <2>1. PICK method \in Methods : Go(s, Strategy(method))
    BY <1>3 DEF Look
  <2>2. Strategy(method) \in {"mkdir", "flock", "auto flock"}
    BY DEF Strategy
  <2>3. Strategy(method) \in Stage \ {"flocked", "made"}
    BY <2>2 DEF Stage
  <2>4. UNCHANGED <<entry, flocked, stolen>>
    BY <1>3 DEF Look
  <2>5. QED
    BY <1>1, <2>1, <2>3, <2>4, WaitStep
<1>4. CASE FlockAcquire(s)
  <2>1. /\ entry \in {"none", "file"} /\ flocked \subseteq {s} /\ entry' = "file"
        /\ flocked' = flocked \cup {s} /\ stolen' = stolen
        /\ stage' = [stage EXCEPT ![s] = "flocked"]
    BY <1>4 DEF FlockAcquire, Free, Go
  <2>2. /\ stage' \in [Starters -> Stage] /\ stage'[s] = "flocked"
        /\ \A t \in Starters : t # s => stage'[t] = stage[t]
    BY <1>2, <2>1 DEF Stage
  <2>3. LockTyped'
    BY <1>2, <2>1, <2>2 DEF LockIInv, LockTyped
  <2>4. ASSUME ~stolen, NEW t \in Starters, Holding(t) PROVE t = s
    <3>1. stage[t] # "made"
      BY <2>1, <2>4 DEF LockIInv, LockHeld
    <3>2. stage[t] = "flocked"
      BY <2>4, <3>1 DEF Holding
    <3>3. QED
      BY <2>1, <3>2 DEF LockIInv, LockTyped
  <2>5. \A t \in Starters : t # s => (Holding(t)' <=> Holding(t))
    BY <2>2 DEF Holding
  <2>6. LockHeld'
    <3>1. \A t \in Starters : ~stolen /\ Holding(t)' => t = s
      BY <2>4, <2>5
    <3>2. \A t \in Starters : ~stolen => stage'[t] # "made"
      BY <2>2, <3>1 DEF Holding
    <3>3. QED
      BY <2>1, <3>1, <3>2 DEF LockHeld
  <2>7. \A t \in Starters : Holding(t) => Holding(t)'
    BY <2>2, <2>5 DEF Holding
  <2>8. QED
    BY <1>1, <2>1, <2>3, <2>6, <2>7 DEF LockIInv
<1>5. CASE FlockBusy(s)
  <2>1. CASE Go(s, "idle")
    <3>1. /\ entry \in {"none", "file"} /\ entry' = "file" /\ flocked' = flocked /\ stolen' = stolen
      BY <1>5 DEF FlockBusy
    <3>2. "idle" \in Stage \ {"flocked", "made"}
      BY DEF Stage
    <3>3. QED
      BY <1>1, <2>1, <3>1, <3>2, WaitStep
  <2>2. CASE stage' = stage
    <3>1. /\ entry \in {"none", "file"} /\ entry' = "file" /\ flocked' = flocked /\ stolen' = stolen
      BY <1>5 DEF FlockBusy
    <3>2. LockTyped'
      BY <2>2, <3>1 DEF LockIInv, LockTyped
    <3>3. LockHeld'
      BY <2>2, <3>1 DEF LockIInv, LockHeld, Holding
    <3>4. QED
      BY <1>1, <2>2, <3>1, <3>2, <3>3 DEF LockIInv, Holding
  <2>3. QED
    BY <1>5, <2>1, <2>2 DEF FlockBusy
<1>6. CASE FlockOnDirectory(s)
  <2>1. Go(s, "idle") /\ UNCHANGED <<entry, flocked, stolen>>
    BY <1>6 DEF FlockOnDirectory
  <2>2. "idle" \in Stage \ {"flocked", "made"}
    BY DEF Stage
  <2>3. QED
    BY <1>1, <2>1, <2>2, WaitStep
<1>7. CASE FlockRejected(s)
  <2> DEFINE to == IF stage[s] = "auto flock" THEN "mkdir" ELSE "idle"
  <2>1. /\ entry \in {"none", "file"} /\ entry' = "file" /\ flocked' = flocked /\ stolen' = stolen
        /\ Go(s, to)
    BY <1>7 DEF FlockRejected
  <2>2. to \in Stage \ {"flocked", "made"}
    BY DEF Stage
  <2> HIDE DEF to
  <2>3. QED
    BY <1>1, <2>1, <2>2, WaitStep
<1>8. CASE Mkdir(s)
  <2>1. CASE entry # "none"
    <3>1. Go(s, "lstat") /\ UNCHANGED <<entry, flocked, stolen>>
      BY <1>8, <2>1 DEF Mkdir
    <3>2. "lstat" \in Stage \ {"flocked", "made"}
      BY DEF Stage
    <3>3. QED
      BY <1>1, <3>1, <3>2, WaitStep
  <2>2. CASE entry = "none"
    <3>1. /\ entry' = "dir" /\ flocked' = flocked /\ stolen' = stolen
          /\ stage' = [stage EXCEPT ![s] = "made"]
      BY <1>8, <2>2 DEF Mkdir, Go
    <3>2. /\ stage' \in [Starters -> Stage] /\ stage'[s] = "made"
          /\ \A t \in Starters : t # s => stage'[t] = stage[t]
      BY <1>2, <3>1 DEF Stage
    <3>3. \A t \in Starters : stage[t] # "flocked" /\ (~stolen => stage[t] # "made")
      BY <2>2 DEF LockIInv, LockHeld
    <3>4. LockTyped'
      BY <1>2, <3>1, <3>2, <3>3 DEF LockIInv, LockTyped
    <3>5. LockHeld'
      BY <3>1, <3>2, <3>3 DEF LockHeld, Holding
    <3>6. \A t \in Starters : Holding(t) => Holding(t)'
      BY <3>2 DEF Holding
    <3>7. QED
      BY <1>1, <3>1, <3>4, <3>5, <3>6 DEF LockIInv
  <2>3. QED
    BY <2>1, <2>2
<1>9. CASE Lstat(s)
  <2>1. PICK to \in {"rmdir", "mkdir", "idle"} : Go(s, to)
    BY <1>9 DEF Lstat, Again
  <2>2. UNCHANGED <<entry, flocked, stolen>>
    BY <1>9 DEF Lstat
  <2>3. to \in Stage \ {"flocked", "made"}
    BY DEF Stage
  <2>4. QED
    BY <1>1, <2>1, <2>2, <2>3, WaitStep
<1>10. CASE Rmdir(s)
  <2>1. PICK to \in {"mkdir", "idle"} : stage' = [stage EXCEPT ![s] = to]
    BY <1>10 DEF Rmdir, Again, Go
  <2>2. /\ entry' = (IF entry = "file" THEN "file" ELSE "none")
        /\ stolen' = (stolen \/ entry = "dir") /\ flocked' = flocked /\ stage[s] = "rmdir"
    BY <1>10 DEF Rmdir
  <2>3. /\ stage' \in [Starters -> Stage] /\ stage'[s] = to
        /\ \A t \in Starters : t # s => stage'[t] = stage[t]
    BY <1>2, <2>1 DEF Stage
  <2>4. \A t \in Starters : Holding(t) <=> Holding(t)'
    BY <2>2, <2>3 DEF Holding
  <2>5. LockTyped'
    <3>1. \A t \in Starters : stage'[t] = "flocked" <=> stage[t] = "flocked"
      BY <2>2, <2>3
    <3>2. QED
      BY <1>2, <2>2, <2>3, <3>1 DEF LockIInv, LockTyped
  <2>6. LockHeld'
    <3>1. \A t \in Starters : stage'[t] = "flocked" => entry' = "file"
      BY <2>2, <2>3 DEF LockIInv, LockHeld
    <3>2. ASSUME ~stolen' PROVE ~stolen /\ entry # "dir"
      BY <1>2, <2>2, <3>2
    <3>3. ASSUME ~stolen', NEW t \in Starters PROVE stage'[t] # "made"
      BY <2>3, <3>2, <3>3 DEF LockIInv, LockHeld
    <3>4. QED
      BY <2>4, <3>1, <3>2, <3>3 DEF LockIInv, LockHeld
  <2>7. QED
    BY <1>1, <1>2, <2>2, <2>4, <2>5, <2>6 DEF LockIInv
<1>11. QED
  BY <1>3, <1>4, <1>5, <1>6, <1>7, <1>8, <1>9, <1>10 DEF Attempt

\* A starter that lets go, in whatever way.
LEMMA LetGo ==
    ASSUME LockIInv, NEW s \in Starters, flocked' = flocked \ {s}, Go(s, "idle"), stolen' = stolen,
           entry' = entry \/ (stage[s] = "made" /\ entry # "file")
    PROVE  LockIInv' /\ \A t \in Starters : t # s /\ Holding(t) => Holding(t)'
<1>1. /\ stage' \in [Starters -> Stage] /\ stage'[s] = "idle"
      /\ \A t \in Starters : t # s => stage'[t] = stage[t]
  BY DEF LockIInv, LockTyped, Go, Stage
<1>2. \A t \in Starters : t # s => (Holding(t)' <=> Holding(t))
  BY <1>1 DEF Holding
<1>3. ~Holding(s)'
  BY <1>1 DEF Holding
<1>4. LockTyped'
  BY <1>1 DEF LockIInv, LockTyped
<1>5. LockHeld'
  <2>1. ASSUME NEW t \in Starters, stage'[t] = "flocked" PROVE entry' = "file"
    <3>1. entry = "file"
      BY <1>1, <2>1 DEF LockIInv, LockHeld
    <3>2. QED
      BY <3>1
  <2>2. ASSUME ~stolen, NEW t \in Starters, stage'[t] = "made" PROVE entry' = "dir"
    <3>1. t # s /\ stage[t] = "made" /\ Holding(t)
      BY <1>1, <2>2 DEF Holding
    <3>2. entry = "dir" /\ ~Holding(s)
      BY <2>2, <3>1 DEF LockIInv, LockHeld
    <3>3. QED
      BY <3>2 DEF Holding
  <2>3. QED
    BY <1>2, <1>3, <2>1, <2>2 DEF LockIInv, LockHeld
<1>6. QED
  BY <1>2, <1>4, <1>5 DEF LockIInv

LEMMA ReleaseStep ==
    ASSUME LockIInv, NEW s \in Starters, Release(s)
    PROVE  LockIInv' /\ stolen' = stolen /\ \A t \in Starters : t # s /\ Holding(t) => Holding(t)'
<1>1. /\ flocked' = flocked \ {s} /\ Go(s, "idle") /\ stolen' = stolen
      /\ entry' = (IF stage[s] = "made" /\ entry # "file" THEN "none" ELSE entry)
  BY DEF Release
<1>2. QED
  BY <1>1, LetGo

LEMMA DieStep ==
    ASSUME LockIInv, NEW s \in Starters, Die(s)
    PROVE  LockIInv' /\ stolen' = stolen /\ \A t \in Starters : t # s /\ Holding(t) => Holding(t)'
<1>1. /\ flocked' = flocked \ {s} /\ Go(s, "idle") /\ stolen' = stolen /\ entry' = entry
  BY DEF Die
<1>2. QED
  BY <1>1, LetGo

LEMMA AgeStep ==
    ASSUME LockIInv, Age
    PROVE  LockIInv' /\ stolen' = stolen /\ \A t \in Starters : Holding(t) => Holding(t)'
<1>1. /\ entry = "dir" /\ (\A s \in Starters : stage[s] # "made") /\ entry' = "old dir"
      /\ UNCHANGED <<flocked, stage, stolen>>
  BY DEF Age
<1>2. QED
  BY <1>1 DEF LockIInv, LockTyped, LockHeld, Holding

LEMMA LockInitIInv == LockInit => LockIInv
BY DEF LockInit, LockIInv, LockTyped, LockHeld, Holding, Stage

\* A set whose elements are all the same has at most one.
LEMMA AtMostOne ==
    ASSUME NEW S, \A x, y \in S : x = y
    PROVE  Cardinality(S) <= 1
<1>1. CASE S = {}
  BY <1>1, FS_EmptySet
<1>2. CASE S # {}
  <2>1. PICK x : S = {x}
    BY <1>2
  <2>2. QED
    BY <2>1, FS_Singleton
<1>3. QED
  BY <1>1, <1>2

LEMMA LockExclusion == LockIInv => ExclusiveUnlessStolen
<1> SUFFICES ASSUME LockIInv, ~stolen PROVE Cardinality({s \in Starters : Holding(s)}) <= 1
  BY DEF ExclusiveUnlessStolen
<1> DEFINE S == {s \in Starters : Holding(s)}
<1>1. \A s, t \in S : s = t
  BY DEF LockIInv, LockHeld
<1> HIDE DEF S
<1>2. Cardinality(S) <= 1
  BY <1>1, AtMostOne
<1>3. QED
  BY <1>2 DEF S

\* The lock on its own, whatever its holders do with it: at most one starter holds
\* it, by flock or by mkdir, unless a directory was stolen that was not stale
\* (acquire_start_lock, FlockLock, MkdirLock).
THEOREM LockExclusive == LockSpec => []ExclusiveUnlessStolen
<1>1. LockInit => LockIInv
  BY LockInitIInv
<1>2. LockIInv /\ [LockNext]_lockVars => LockIInv'
  <2> SUFFICES ASSUME LockIInv, [LockNext]_lockVars PROVE LockIInv'
    OBVIOUS
  <2>1. CASE UNCHANGED lockVars
    BY <2>1 DEF lockVars, LockIInv, LockTyped, LockHeld, Holding
  <2>2. CASE Age
    BY <2>2, AgeStep
  <2>3. ASSUME NEW s \in Starters, Attempt(s) \/ Release(s) \/ Die(s) PROVE LockIInv'
    BY <2>3, AttemptStep, ReleaseStep, DieStep
  <2>4. QED
    BY <2>1, <2>2, <2>3 DEF LockNext
<1>3. LockIInv => ExclusiveUnlessStolen
  BY LockExclusion
<1>4. QED
  BY <1>1, <1>2, <1>3, PTL DEF LockSpec

-----------------------------------------------------------------------------
(***************************************************************************)
(* The daemon.                                                             *)
(***************************************************************************)
\* The lowest of some pids is one of them.
LEMMA LowestIn ==
    ASSUME NEW S, S \subseteq Nat, S # {}
    PROVE  Lowest(S) \in S
<1> DEFINE R == OpToRel(<, Nat)
<1>1. PICK x \in S : \A y \in S : <<y, x>> \notin R
  <2>1. IsWellFoundedOn(R, Nat)
    BY NatLessThanWellFounded
  <2> HIDE DEF R
  <2>2. QED
    BY <2>1, WFMin
<1>2. ASSUME NEW y \in S PROVE x <= y
  <2>1. SUFFICES ASSUME y < x PROVE FALSE
    OBVIOUS
  <2>2. <<y, x>> \in R
    BY <2>1 DEF OpToRel
  <2>3. QED
    BY <1>1, <2>2
<1>3. QED
  BY <1>2 DEF Lowest

LEMMA LiveFacts ==
    /\ Live \subseteq Pids /\ Pids \subseteq Nat \ {0}
    /\ Live # {} => Lowest(Live) \in Live
<1>1. Live \subseteq Pids /\ Pids \subseteq Nat \ {0}
  BY DaemonConstantsOK DEF Live, Pids
<1>2. QED
  BY <1>1, LowestIn

\* What an actor goes on to do.
LEMMA ProceedFacts ==
    ASSUME Typed, NEW a \in Actors, NEW place \in Place, NEW p \in Pids \cup {0},
           Proceed(a, place, p),
           place \in {"record", "wait", "kill", "heal", "heal up"} => p # 0
    PROVE  /\ doing' \in [Actors -> [at : Place, pid : Pids \cup {0}]]
           /\ doing'[a].at = place /\ doing'[a].pid = p
           /\ \A b \in Actors : b # a => doing'[b] = doing[b]
           /\ \A b \in Actors :
                doing'[b].at \in {"record", "wait", "kill", "heal", "heal up"} => doing'[b].pid # 0
BY DEF Typed, Proceed, At

\* A stopper is none of the starters.
LEMMA Apart ==
    ASSUME NEW s \in Starters
    PROVE  s \in Actors /\ \A a \in Stoppers : a # s
BY DaemonConstantsOK DEF Actors

\* A step of a starter that holds the mutex, or of a stopper: what it may do to the
\* daemons and the files without losing one.
LEMMA MoveStep ==
    ASSUME IInv, NEW a \in Actors, NEW place \in Place, NEW p \in Pids \cup {0},
           a \in Starters => Holding(a),
           Proceed(a, place, p), place # "record",
           place \in {"wait", "kill", "heal", "heal up"} => p # 0,
           UNCHANGED lockVars, daemon' \in [Pids -> DaemonState],
           pidfile' \in Pids \cup {0}, socket' \in Pids \cup {0},
           Undisturbed' => Undisturbed,
           Undisturbed' => Live' \subseteq Live /\ (pidfile' = pidfile \/ pidfile \notin Live),
           Undisturbed' /\ place \in {"clean", "heal", "sweep", "spawn"} => Live' = {},
           Undisturbed' /\ doing[a].at = "record" => Live' \subseteq {pidfile'}
    PROVE  IInv'
<1>1. Typed /\ Locked /\ LockIInv /\ Starters \subseteq Actors
  BY Apart DEF IInv
<1>2. /\ doing' \in [Actors -> [at : Place, pid : Pids \cup {0}]]
      /\ doing'[a].at = place /\ doing'[a].pid = p
      /\ \A b \in Actors : b # a => doing'[b] = doing[b]
      /\ \A b \in Actors :
           doing'[b].at \in {"record", "wait", "kill", "heal", "heal up"} => doing'[b].pid # 0
  BY <1>1, ProceedFacts
<1>3. LockIInv' /\ \A t \in Starters : Holding(t)' <=> Holding(t)
  BY DEF IInv, LockIInv, LockTyped, LockHeld, lockVars, Holding
<1>4. Typed'
  BY <1>1, <1>2 DEF Typed
<1>5. Locked'
  BY <1>1, <1>2, <1>3 DEF Locked
<1>6. ASSUME Undisturbed' PROVE Accounted'
  <2>1. Undisturbed /\ Accounted
    BY <1>6 DEF IInv
  <2>2. Live' \subseteq Live /\ (pidfile' = pidfile \/ pidfile \notin Live)
    BY <1>6
  <2>3. ASSUME NEW t \in Starters, doing'[t].at \in {"clean", "heal", "sweep", "spawn"}
        PROVE  Live' = {}
    BY <1>1, <1>2, <1>6, <2>1, <2>2, <2>3 DEF Accounted
  <2>4. ASSUME NEW t \in Starters, doing'[t].at = "record"
        PROVE  Live' \subseteq {doing'[t].pid}
    <3>1. t # a /\ doing'[t] = doing[t]
      BY <1>1, <1>2, <2>4
    <3>2. Live \subseteq {doing[t].pid}
      BY <2>1, <2>4, <3>1 DEF Accounted
    <3>3. QED
      BY <2>2, <3>1, <3>2
  <2>5. ASSUME NEW q \in Live'
        PROVE  q = pidfile' \/ \E t \in Starters : doing'[t].at = "record"
    <3>1. CASE doing[a].at = "record"
      BY <1>6, <2>5, <3>1
    <3>2. CASE doing[a].at # "record"
      <4>1. \A t \in Starters : doing[t].at = "record" => doing'[t].at = "record"
        BY <1>1, <1>2, <3>2
      <4>2. q \in Live
        BY <2>2, <2>5
      <4>3. q = pidfile \/ \E t \in Starters : doing[t].at = "record"
        BY <2>1, <4>2 DEF Accounted
      <4>4. QED
        BY <2>2, <4>1, <4>2, <4>3
    <3>3. QED
      BY <3>1, <3>2
  <2>6. QED
    BY <2>3, <2>4, <2>5 DEF Accounted
<1>7. QED
  BY <1>3, <1>4, <1>5, <1>6 DEF IInv

\* A starter under the mutex that has not spawned yet is the only one there.
LEMMA AloneInside ==
    ASSUME IInv, Undisturbed, NEW s \in Starters, Holding(s), doing[s].at # "record"
    PROVE  \A p \in Live : p = pidfile
<1>1. \A t \in Starters : doing[t].at # "record"
  <2>1. ASSUME NEW t \in Starters, doing[t].at = "record" PROVE FALSE
    <3>1. Holding(t)
      BY <2>1 DEF IInv, Locked
    <3>2. t = s
      BY <3>1 DEF IInv, LockIInv, LockHeld, Undisturbed
    <3>3. QED
      BY <2>1, <3>2
  <2>2. QED
    BY <2>1
<1>2. QED
  BY <1>1 DEF IInv, Accounted

\* The three steps of cleanup_stale(), whoever takes them.
LEMMA DecideStep ==
    ASSUME IInv, NEW a \in Actors, NEW heal, NEW sweep, NEW next,
           \/ heal = "heal" /\ sweep = "sweep" /\ next = "spawn"
           \/ heal = "heal up" /\ sweep = "sweep up" /\ next = "leave",
           Decide(a, heal, sweep, next), a \in Starters => Holding(a),
           doing[a].at # "record",
           Undisturbed /\ next = "spawn" => Live = {}
    PROVE  IInv'
<1>1. /\ UNCHANGED <<lockVars, daemon, pidfile, socket, slips>>
      /\ \/ Registered /\ Proceed(a, next, doing[a].pid)
         \/ Live # {} /\ Proceed(a, heal, Lowest(Live))
         \/ Proceed(a, sweep, doing[a].pid)
  BY DEF Decide
<1>2. Live' = Live /\ (Undisturbed' <=> Undisturbed)
  BY <1>1 DEF Live, Undisturbed, lockVars
<1>3. Typed /\ doing[a].pid \in Pids \cup {0}
  BY DEF IInv, Typed
<1>4. heal \in Place /\ sweep \in Place /\ next \in Place
  BY DEF Place
<1>5. /\ daemon' \in [Pids -> DaemonState] /\ pidfile' = pidfile
      /\ pidfile' \in Pids \cup {0} /\ socket' \in Pids \cup {0} /\ UNCHANGED lockVars
  BY <1>1, <1>3 DEF Typed
<1>6. /\ Undisturbed' => Live' \subseteq Live /\ (pidfile' = pidfile \/ pidfile \notin Live)
      /\ Undisturbed' /\ next = "spawn" => Live' = {}
  BY <1>2, <1>5
<1>7. ASSUME NEW place \in {heal, sweep, next}, NEW p \in Pids \cup {0}, Proceed(a, place, p),
             place = heal => p # 0
      PROVE  IInv'
  <2>1. /\ place \in Place /\ place # "record"
        /\ place \in {"wait", "kill", "heal", "heal up"} => p # 0
        /\ place \in {"clean", "heal", "sweep", "spawn"} => next = "spawn"
    BY <1>4, <1>7
  <2>2. QED
    BY <1>2, <1>5, <1>6, <1>7, <2>1, MoveStep
<1>8. CASE Registered /\ Proceed(a, next, doing[a].pid)
  BY <1>3, <1>7, <1>8
<1>9. CASE Live # {} /\ Proceed(a, heal, Lowest(Live))
  <2>1. Lowest(Live) \in Pids /\ Lowest(Live) # 0
    BY <1>9, LiveFacts
  <2>2. QED
    BY <1>7, <1>9, <2>1
<1>10. CASE Proceed(a, sweep, doing[a].pid)
  BY <1>3, <1>7, <1>10
<1>11. QED
  BY <1>1, <1>8, <1>9, <1>10

LEMMA HealStep ==
    ASSUME IInv, NEW a \in Actors, NEW next \in {"spawn", "leave"}, Heal(a, next),
           doing[a].at \in {"heal", "heal up"}, a \in Starters => Holding(a),
           Undisturbed /\ next = "spawn" => Live = {}
    PROVE  IInv'
<1>1. /\ UNCHANGED <<lockVars, daemon, socket>> /\ pidfile' = doing[a].pid
      /\ Proceed(a, next, 0) /\ slips' = slips \cup (IF Registered THEN {"outdated cleanup"} ELSE {})
  BY DEF Heal
<1>2. Live' = Live /\ (Undisturbed' => Undisturbed /\ ~Registered)
  BY <1>1 DEF Live, Undisturbed, lockVars
<1>3. /\ daemon' \in [Pids -> DaemonState] /\ doing[a].at # "record"
      /\ pidfile' \in Pids \cup {0} /\ socket' \in Pids \cup {0} /\ UNCHANGED lockVars
  BY <1>1 DEF IInv, Typed
<1>4. Undisturbed' => pidfile \notin Live
  BY <1>2 DEF Registered
<1>5. next \in Place /\ next \notin {"record", "wait", "kill", "heal", "heal up", "clean", "sweep"}
  BY DEF Place
<1>6. QED
  BY <1>1, <1>2, <1>3, <1>4, <1>5, MoveStep

LEMMA SweepStep ==
    ASSUME IInv, NEW a \in Actors, NEW next \in {"spawn", "leave"}, Sweep(a, next),
           doing[a].at \in {"sweep", "sweep up"}, a \in Starters => Holding(a)
    PROVE  IInv'
<1>1. /\ UNCHANGED <<lockVars, daemon>> /\ pidfile' = 0 /\ socket' = 0
      /\ Proceed(a, next, 0)
      /\ slips' = slips \cup (IF Live # {} THEN {"outdated cleanup"} ELSE {})
  BY DEF Sweep
<1>2. Live' = Live /\ (Undisturbed' => Undisturbed /\ Live = {})
  BY <1>1 DEF Live, Undisturbed, lockVars
<1>3. /\ daemon' \in [Pids -> DaemonState] /\ doing[a].at # "record"
      /\ pidfile' \in Pids \cup {0} /\ socket' \in Pids \cup {0} /\ UNCHANGED lockVars
  BY <1>1 DEF IInv, Typed
<1>4. next \in Place /\ next \notin {"record", "wait", "kill", "heal", "heal up", "clean", "sweep"}
  BY DEF Place
<1>5. QED
  BY <1>1, <1>2, <1>3, <1>4, MoveStep

LEMMA CleanUpStep ==
    ASSUME IInv, NEW a \in Actors, CleanUp(a)
    PROVE  IInv'
<1>1. doing[a].at \in {"clean up", "heal up", "sweep up"}
  BY DEF CleanUp
<1>2. a \in Starters => Holding(a)
  BY <1>1 DEF IInv, Locked
<1>3. CASE Decide(a, "heal up", "sweep up", "leave") /\ doing[a].at = "clean up"
  BY <1>2, <1>3, DecideStep
<1>4. CASE Heal(a, "leave") /\ doing[a].at = "heal up"
  BY <1>2, <1>4, HealStep
<1>5. CASE Sweep(a, "leave") /\ doing[a].at = "sweep up"
  BY <1>2, <1>5, SweepStep
<1>6. QED
  BY <1>3, <1>4, <1>5 DEF CleanUp

LEMMA CleanStep ==
    ASSUME IInv, NEW s \in Starters, Clean(s)
    PROVE  IInv'
<1>1. s \in Actors /\ Holding(s) /\ doing[s].at \in {"clean", "heal", "sweep"}
  BY Apart DEF Clean, Inside
<1>2. Undisturbed => Live = {}
  BY <1>1 DEF IInv, Accounted
<1>3. CASE Decide(s, "heal", "sweep", "spawn") /\ doing[s].at = "clean"
  BY <1>1, <1>2, <1>3, DecideStep
<1>4. CASE Heal(s, "spawn") /\ doing[s].at = "heal"
  BY <1>1, <1>2, <1>4, HealStep
<1>5. CASE Sweep(s, "spawn") /\ doing[s].at = "sweep"
  BY <1>1, <1>5, SweepStep
<1>6. QED
  BY <1>3, <1>4, <1>5 DEF Clean, Inside

\* The steps of a starter with the mutex.
LEMMA CheckStep ==
    ASSUME IInv, NEW s \in Starters, Check(s)
    PROVE  IInv'
<1> DEFINE place == IF Registered THEN "leave" ELSE "clean"
<1>1. /\ s \in Actors /\ Holding(s) /\ doing[s].at = "nowhere" /\ Proceed(s, place, 0)
      /\ UNCHANGED <<lockVars, daemon, pidfile, socket, slips>>
  BY Apart DEF Check, Inside
<1>2. Live' = Live /\ (Undisturbed' <=> Undisturbed)
  BY <1>1 DEF Live, Undisturbed, lockVars
<1>3. /\ daemon' \in [Pids -> DaemonState] /\ pidfile' = pidfile
      /\ pidfile' \in Pids \cup {0} /\ socket' \in Pids \cup {0} /\ UNCHANGED lockVars
  BY <1>1 DEF IInv, Typed
<1>4. Undisturbed /\ ~Registered => Live = {}
  BY <1>1, AloneInside DEF Registered
<1>5. /\ place \in Place /\ place \notin {"record", "wait", "kill", "heal", "heal up"}
      /\ place \in {"clean", "heal", "sweep", "spawn"} => ~Registered
  BY DEF Place
<1> HIDE DEF place
<1>6. /\ Undisturbed' => Undisturbed
      /\ Undisturbed' => Live' \subseteq Live /\ (pidfile' = pidfile \/ pidfile \notin Live)
      /\ Undisturbed' /\ place \in {"clean", "heal", "sweep", "spawn"} => Live' = {}
      /\ Undisturbed' /\ doing[s].at = "record" => Live' \subseteq {pidfile'}
  BY <1>1, <1>2, <1>3, <1>4, <1>5
<1>7. place # "record" /\ (place \in {"wait", "kill", "heal", "heal up"} => 0 # 0)
  BY <1>5
<1>8. QED
  BY <1>1, <1>3, <1>5, <1>6, <1>7, MoveStep

\* The new daemon is the only one: there was none since the check.
LEMMA SpawnStep ==
    ASSUME IInv, NEW s \in Starters, Spawn(s)
    PROVE  IInv'
<1>1. PICK p \in Pids :
        daemon' = [daemon EXCEPT ![p] = "booting"] /\ Proceed(s, "record", p)
  BY DEF Spawn
<1>2. /\ s \in Actors /\ Holding(s) /\ doing[s].at = "spawn"
      /\ UNCHANGED <<lockVars, pidfile, socket, slips>>
  BY Apart DEF Spawn, Inside
<1>3. Typed /\ Locked /\ p # 0 /\ "record" \in Place
  BY LiveFacts DEF IInv, Place
<1>4. /\ doing' \in [Actors -> [at : Place, pid : Pids \cup {0}]]
      /\ doing'[s].at = "record" /\ doing'[s].pid = p
      /\ \A b \in Actors : b # s => doing'[b] = doing[b]
      /\ \A b \in Actors :
           doing'[b].at \in {"record", "wait", "kill", "heal", "heal up"} => doing'[b].pid # 0
  BY <1>1, <1>2, <1>3, ProceedFacts
<1>5. LockIInv' /\ \A t \in Starters : Holding(t)' <=> Holding(t)
  BY <1>2 DEF IInv, LockIInv, LockTyped, LockHeld, lockVars, Holding
<1>6. Typed'
  BY <1>1, <1>2, <1>3, <1>4 DEF Typed, DaemonState
<1>7. Locked'
  BY <1>2, <1>3, <1>4, <1>5, Apart DEF Locked
<1>8. ASSUME Undisturbed' PROVE Accounted'
  <2>1. Undisturbed /\ Accounted
    BY <1>2, <1>8 DEF IInv, Undisturbed, lockVars
  <2>2. Live = {}
    BY <1>2, <2>1 DEF Accounted
  <2>3. Live' = {p}
    BY <1>1, <1>3, <2>2 DEF Live, Typed
  <2>4. ASSUME NEW t \in Starters, doing'[t].at # "nowhere" PROVE t = s
    <3>1. Holding(t) /\ Holding(s)
      BY <1>2, <1>3, <1>4, <2>4, Apart DEF Locked
    <3>2. QED
      BY <2>1, <3>1 DEF IInv, LockIInv, LockHeld, Undisturbed
  <2>5. QED
    BY <1>4, <2>3, <2>4 DEF Accounted
<1>9. QED
  BY <1>5, <1>6, <1>7, <1>8 DEF IInv

LEMMA RecordStep ==
    ASSUME IInv, NEW s \in Starters, Record(s)
    PROVE  IInv'
<1>1. /\ s \in Actors /\ Holding(s) /\ doing[s].at = "record" /\ pidfile' = doing[s].pid
      /\ Proceed(s, "wait", doing[s].pid)
      /\ UNCHANGED <<lockVars, daemon, socket, slips>>
  BY Apart DEF Record, Inside
<1>2. Live' = Live /\ (Undisturbed' <=> Undisturbed)
  BY <1>1 DEF Live, Undisturbed, lockVars
<1>3. /\ daemon' \in [Pids -> DaemonState] /\ doing[s].pid \in Pids \cup {0}
      /\ doing[s].pid # 0 /\ socket' \in Pids \cup {0} /\ UNCHANGED lockVars
  BY <1>1 DEF IInv, Typed
<1>4. Undisturbed => Live \subseteq {pidfile'}
  BY <1>1 DEF IInv, Accounted
<1>5. "wait" \in Place
  BY DEF Place
<1>6. Undisturbed' => Live' \subseteq Live /\ (pidfile' = pidfile \/ pidfile \notin Live)
  BY <1>2, <1>4
<1>7. QED
  BY <1>1, <1>2, <1>3, <1>4, <1>5, <1>6, MoveStep

LEMMA ReadyStep ==
    ASSUME IInv, NEW s \in Starters, Ready(s)
    PROVE  IInv'
<1>1. /\ s \in Actors /\ Holding(s) /\ doing[s].at = "wait" /\ Proceed(s, "leave", 0)
      /\ UNCHANGED <<lockVars, daemon, pidfile, socket, slips>>
  BY Apart DEF Ready, Inside
<1>2. Live' = Live /\ (Undisturbed' <=> Undisturbed)
  BY <1>1 DEF Live, Undisturbed, lockVars
<1>3. /\ daemon' \in [Pids -> DaemonState] /\ pidfile' = pidfile
      /\ pidfile' \in Pids \cup {0} /\ socket' \in Pids \cup {0} /\ UNCHANGED lockVars
  BY <1>1 DEF IInv, Typed
<1>4. "leave" \in Place
  BY DEF Place
<1>5. QED
  BY <1>1, <1>2, <1>3, <1>4, MoveStep

\* A daemon that exits or is killed.
LEMMA Dead ==
    ASSUME Typed, NEW p \in Pids, daemon' = [daemon EXCEPT ![p] = "dead"]
    PROVE  daemon' \in [Pids -> DaemonState] /\ Live' \subseteq Live
BY DEF Typed, Live, DaemonState

LEMMA NotReadyStep ==
    ASSUME IInv, NEW s \in Starters, NotReady(s)
    PROVE  IInv'
<1>1. /\ s \in Actors /\ Holding(s) /\ doing[s].at = "wait" /\ Proceed(s, "clean up", 0)
      /\ daemon' = [daemon EXCEPT ![doing[s].pid] = "dead"]
      /\ UNCHANGED <<lockVars, pidfile, socket, slips>>
  BY Apart DEF NotReady, Inside
<1>2. Typed /\ doing[s].pid \in Pids
  BY <1>1 DEF IInv, Typed
<1>3. daemon' \in [Pids -> DaemonState] /\ Live' \subseteq Live
  BY <1>1, <1>2, Dead
<1>4. /\ pidfile' = pidfile /\ (Undisturbed' <=> Undisturbed)
      /\ pidfile' \in Pids \cup {0} /\ socket' \in Pids \cup {0} /\ UNCHANGED lockVars
  BY <1>1, <1>2 DEF Typed, Undisturbed, lockVars
<1>5. "clean up" \in Place
  BY DEF Place
<1>6. QED
  BY <1>1, <1>3, <1>4, <1>5, MoveStep

\* A starter that is out of the mutex, by its release or by its death; one that dies
\* with a daemon it has not recorded disturbs.
LEMMA OutStep ==
    ASSUME IInv, NEW s \in Starters, LockIInv', stolen' = stolen,
           \A t \in Starters : t # s /\ Holding(t) => Holding(t)',
           doing' = [doing EXCEPT ![s] = Nowhere],
           UNCHANGED <<daemon, pidfile, socket>>,
           Undisturbed' => Undisturbed /\ doing[s].at # "record"
    PROVE  IInv'
<1>1. s \in Actors /\ Typed /\ Locked /\ Starters \subseteq Actors
  BY Apart DEF IInv
<1>2. /\ doing'[s].at = "nowhere" /\ doing' \in [Actors -> [at : Place, pid : Pids \cup {0}]]
      /\ \A b \in Actors : b # s => doing'[b] = doing[b]
  BY <1>1 DEF Nowhere, At, Place, Typed
<1>3. Typed'
  BY <1>1, <1>2 DEF Typed
<1>4. Locked'
  BY <1>1, <1>2 DEF Locked
<1>5. ASSUME Undisturbed' PROVE Accounted'
  BY <1>1, <1>2, <1>5 DEF IInv, Accounted, Live
<1>6. QED
  BY <1>3, <1>4, <1>5 DEF IInv

LEMMA LeaveStep ==
    ASSUME IInv, NEW s \in Starters, Leave(s)
    PROVE  IInv'
<1>1. /\ Release(s) /\ doing[s].at = "leave" /\ doing' = [doing EXCEPT ![s] = Nowhere]
      /\ UNCHANGED <<daemon, pidfile, socket, slips>>
  BY DEF Leave, Inside
<1>2. LockIInv' /\ stolen' = stolen /\ \A t \in Starters : t # s /\ Holding(t) => Holding(t)'
  BY <1>1, ReleaseStep DEF IInv
<1>3. Undisturbed' => Undisturbed /\ doing[s].at # "record"
  BY <1>1, <1>2 DEF Undisturbed
<1>4. QED
  BY <1>1, <1>2, <1>3, OutStep

LEMMA StarterDiesStep ==
    ASSUME IInv, NEW s \in Starters, StarterDies(s)
    PROVE  IInv'
<1>1. /\ Die(s) /\ doing' = [doing EXCEPT ![s] = Nowhere]
      /\ slips' = slips \cup (IF doing[s].at = "record" THEN {"unrecorded daemon"} ELSE {})
      /\ UNCHANGED <<daemon, pidfile, socket>>
  BY DEF StarterDies
<1>2. LockIInv' /\ stolen' = stolen /\ \A t \in Starters : t # s /\ Holding(t) => Holding(t)'
  BY <1>1, DieStep DEF IInv
<1>3. Undisturbed' => Undisturbed /\ doing[s].at # "record"
  BY <1>1, <1>2 DEF Undisturbed
<1>4. QED
  BY <1>1, <1>2, <1>3, OutStep

\* A step that only the lock, or only a daemon, takes.
LEMMA ElsewhereStep ==
    ASSUME IInv, LockIInv', stolen => stolen', \A t \in Starters : Holding(t) => Holding(t)',
           UNCHANGED <<pidfile, doing, slips>>,
           daemon' \in [Pids -> DaemonState], socket' \in Pids \cup {0}, Live' \subseteq Live
    PROVE  IInv'
<1>1. Undisturbed' => Undisturbed
  BY DEF Undisturbed
<1>2. Typed' /\ Locked'
  BY DEF IInv, Typed, Locked
<1>3. ASSUME Undisturbed' PROVE Accounted'
  BY <1>1, <1>3 DEF IInv, Accounted
<1>4. QED
  BY <1>2, <1>3 DEF IInv

LEMMA ContendStep ==
    ASSUME IInv, NEW s \in Starters, Contend(s)
    PROVE  IInv'
<1>1. Attempt(s) /\ UNCHANGED daemonVars
  BY DEF Contend
<1>2. /\ LockIInv' /\ (stolen => stolen')
      /\ \A t \in Starters : Holding(t) => Holding(t)'
  BY <1>1, AttemptStep DEF IInv
<1>3. /\ UNCHANGED <<pidfile, doing, slips>>
      /\ daemon' \in [Pids -> DaemonState] /\ socket' \in Pids \cup {0} /\ Live' \subseteq Live
  BY <1>1 DEF daemonVars, Live, IInv, Typed
<1>4. QED
  BY <1>2, <1>3, ElsewhereStep

LEMMA LockAgesStep ==
    ASSUME IInv, LockAges
    PROVE  IInv'
<1>1. Age /\ UNCHANGED daemonVars
  BY DEF LockAges
<1>2. /\ LockIInv' /\ (stolen => stolen')
      /\ \A t \in Starters : Holding(t) => Holding(t)'
  BY <1>1, AgeStep DEF IInv
<1>3. /\ UNCHANGED <<pidfile, doing, slips>>
      /\ daemon' \in [Pids -> DaemonState] /\ socket' \in Pids \cup {0} /\ Live' \subseteq Live
  BY <1>1 DEF daemonVars, Live, IInv, Typed
<1>4. QED
  BY <1>2, <1>3, ElsewhereStep

\* The steps of the daemon.
LEMMA ServeStep ==
    ASSUME IInv, NEW p \in Pids, Serve(p)
    PROVE  IInv'
<1>1. /\ daemon[p] = "booting" /\ daemon' = [daemon EXCEPT ![p] = "serving"] /\ socket' = p
      /\ UNCHANGED <<lockVars, pidfile, doing, slips>>
  BY DEF Serve
<1>2. daemon' \in [Pids -> DaemonState] /\ Live' \subseteq Live
  BY <1>1 DEF IInv, Typed, Live, DaemonState
<1>3. LockIInv' /\ stolen' = stolen /\ \A t \in Starters : Holding(t)' <=> Holding(t)
  BY <1>1 DEF IInv, LockIInv, LockTyped, LockHeld, lockVars, Holding
<1>4. QED
  BY <1>1, <1>2, <1>3, ElsewhereStep

LEMMA ExitStep ==
    ASSUME IInv, NEW p \in Pids, Exit(p)
    PROVE  IInv'
<1>1. /\ daemon' = [daemon EXCEPT ![p] = "dead"] /\ socket' \in {socket, 0}
      /\ UNCHANGED <<lockVars, pidfile, doing, slips>>
  BY DEF Exit
<1>2. daemon' \in [Pids -> DaemonState] /\ Live' \subseteq Live /\ socket' \in Pids \cup {0}
  BY <1>1, Dead DEF IInv, Typed
<1>3. LockIInv' /\ stolen' = stolen /\ \A t \in Starters : Holding(t)' <=> Holding(t)
  BY <1>1 DEF IInv, LockIInv, LockTyped, LockHeld, lockVars, Holding
<1>4. QED
  BY <1>1, <1>2, <1>3, ElsewhereStep

\* The steps of a stopper.
LEMMA StopperStepOK ==
    ASSUME IInv, NEW a \in Stoppers, StopperStep(a)
    PROVE  IInv'
<1>1. a \in Actors /\ a \notin Starters /\ Typed
  BY DaemonConstantsOK DEF Actors, IInv
<1>2. ASSUME NEW place \in Place, NEW p \in Pids \cup {0}, Proceed(a, place, p),
             place \in {"nowhere", "clean up", "kill"}, place = "kill" => p # 0,
             doing[a].at # "record",
             UNCHANGED <<lockVars, pidfile, socket, slips>>,
             daemon' \in [Pids -> DaemonState], Live' \subseteq Live
      PROVE  IInv'
  <2>1. /\ pidfile' = pidfile /\ (Undisturbed' <=> Undisturbed) /\ UNCHANGED lockVars
        /\ pidfile' \in Pids \cup {0} /\ socket' \in Pids \cup {0}
    BY <1>1, <1>2 DEF Typed, Undisturbed, lockVars
  <2>2. /\ place # "record" /\ (place \in {"wait", "kill", "heal", "heal up"} => p # 0)
        /\ place \notin {"clean", "heal", "sweep", "spawn"}
    BY <1>2
  <2>3. QED
    BY <1>1, <1>2, <2>1, <2>2, MoveStep
<1>3. "nowhere" \in Place /\ "clean up" \in Place /\ "kill" \in Place
  BY DEF Place
<1>4. CASE Stop(a)
  <2>1. /\ doing[a].at # "record" /\ UNCHANGED <<lockVars, daemon, pidfile, socket, slips>>
        /\ Proceed(a, IF Target = 0 THEN "clean up" ELSE "kill", Target)
    <3>1. Nowhere.at # "record"
      BY DEF Nowhere, At
    <3>2. QED
      BY <1>4, <3>1 DEF Stop
  <2>2. Target \in Pids \cup {0}
    BY <1>1, LiveFacts DEF Target, Typed
  <2>3. daemon' \in [Pids -> DaemonState] /\ Live' \subseteq Live
    BY <1>1, <2>1 DEF Typed, Live
  <2>4. CASE Target = 0
    <3>1. Proceed(a, "clean up", Target)
      BY <2>1, <2>4
    <3>2. QED
      BY <1>2, <1>3, <2>1, <2>2, <2>3, <3>1
  <2>5. CASE Target # 0
    <3>1. Proceed(a, "kill", Target)
      BY <2>1, <2>5
    <3>2. QED
      BY <1>2, <1>3, <2>1, <2>2, <2>3, <2>5, <3>1
  <2>6. QED
    BY <2>4, <2>5
<1>5. CASE Kill(a)
  <2>1. doing[a].at = "kill" /\ UNCHANGED <<lockVars, pidfile, socket, slips>>
    BY <1>5 DEF Kill
  <2>2. CASE doing[a].pid \in Live
    <3>1. /\ daemon' = [daemon EXCEPT ![doing[a].pid] = "dead"] /\ Proceed(a, "clean up", 0)
      BY <1>5, <2>2 DEF Kill
    <3>2. daemon' \in [Pids -> DaemonState] /\ Live' \subseteq Live
      BY <1>1, <2>2, <3>1, Dead, LiveFacts
    <3>3. QED
      BY <1>2, <1>3, <2>1, <3>1, <3>2
  <2>3. CASE doing[a].pid \notin Live
    <3>1. Proceed(a, "nowhere", 0) /\ daemon' = daemon
      BY <1>5, <2>3 DEF Kill, Proceed, Nowhere
    <3>2. daemon' \in [Pids -> DaemonState] /\ Live' \subseteq Live
      BY <1>1, <3>1 DEF Typed, Live
    <3>3. QED
      BY <1>2, <1>3, <2>1, <3>1, <3>2
  <2>4. QED
    BY <2>2, <2>3
<1>6. CASE CleanUp(a)
  BY <1>1, <1>6, CleanUpStep
<1>7. CASE StopEnds(a)
  <2>1. /\ doing[a].at = "leave" /\ Proceed(a, "nowhere", 0)
        /\ UNCHANGED <<lockVars, daemon, pidfile, socket, slips>>
    BY <1>7 DEF StopEnds, Proceed, Nowhere
  <2>2. daemon' \in [Pids -> DaemonState] /\ Live' \subseteq Live
    BY <1>1, <2>1 DEF Typed, Live
  <2>3. QED
    BY <1>2, <1>3, <2>1, <2>2
<1>8. QED
  BY <1>4, <1>5, <1>6, <1>7 DEF StopperStep

-----------------------------------------------------------------------------
(***************************************************************************)
(* All steps.                                                              *)
(***************************************************************************)
LEMMA InitIInv == Init => IInv
<1> SUFFICES ASSUME Init PROVE IInv
  OBVIOUS
<1>1. LockIInv
  BY LockInitIInv DEF Init
<1>2. Typed /\ Locked
  BY Apart DEF Init, Typed, Locked, Nowhere, At, Place, DaemonState
<1>3. Accounted
  <2>1. Live = {}
    BY DEF Init, Live
  <2>2. \A s \in Starters : doing[s].at = "nowhere"
    BY Apart DEF Init, Nowhere, At
  <2>3. QED
    BY <2>1, <2>2 DEF Accounted
<1>4. QED
  BY <1>1, <1>2, <1>3 DEF IInv

LEMMA NextIInv == IInv /\ [Next]_vars => IInv'
<1> SUFFICES ASSUME IInv, [Next]_vars PROVE IInv'
  OBVIOUS
<1>1. CASE UNCHANGED vars
  <2>1. UNCHANGED lockVars /\ UNCHANGED daemonVars
    BY <1>1 DEF vars
  <2>2. LockIInv' /\ stolen' = stolen /\ \A t \in Starters : Holding(t)' <=> Holding(t)
    BY <2>1 DEF IInv, LockIInv, LockTyped, LockHeld, lockVars, Holding
  <2>3. /\ UNCHANGED <<pidfile, doing, slips>>
        /\ daemon' \in [Pids -> DaemonState] /\ socket' \in Pids \cup {0} /\ Live' \subseteq Live
    BY <2>1 DEF daemonVars, Live, IInv, Typed
  <2>4. QED
    BY <2>2, <2>3, ElsewhereStep
<1>2. CASE LockAges
  BY <1>2, LockAgesStep
<1>3. ASSUME NEW s \in Starters, StarterStep(s) \/ StarterDies(s) PROVE IInv'
  BY <1>3, Apart, ContendStep, CheckStep, CleanStep, SpawnStep, RecordStep, ReadyStep, NotReadyStep,
     CleanUpStep, LeaveStep, StarterDiesStep DEF StarterStep
<1>4. ASSUME NEW a \in Stoppers, StopperStep(a) PROVE IInv'
  BY <1>4, StopperStepOK
<1>5. ASSUME NEW p \in Pids, Serve(p) \/ Exit(p) PROVE IInv'
  BY <1>5, ServeStep, ExitStep
<1>6. QED
  BY <1>1, <1>2, <1>3, <1>4, <1>5 DEF Next

\* The invariant holds in every behaviour of starters, stoppers and daemons.
THEOREM DaemonInvariance == Spec => []IInv
<1>1. Init => IInv
  BY InitIInv
<1>2. IInv /\ [Next]_vars => IInv'
  BY NextIInv
<1>3. QED
  BY <1>1, <1>2, PTL DEF Spec

\* The files name pids, and an actor with a process to record, to wait for, to stop
\* or to heal with knows which (start_daemon, stop_daemon, cleanup_stale).
THEOREM DaemonTypeCorrect == Spec => []TypeOK
<1>1. IInv => TypeOK
  BY DEF IInv, Typed, LockIInv, LockTyped, TypeOK
<1>2. QED
  BY <1>1, DaemonInvariance, PTL

\* At most one starter is inside the mutex, whatever is done under it and however
\* many starters there are (acquire_start_lock).
THEOREM MutexExclusive == Spec => []ExclusiveUnlessStolen
<1>1. IInv => ExclusiveUnlessStolen
  BY LockExclusion DEF IInv
<1>2. QED
  BY <1>1, DaemonInvariance, PTL

\* A live daemon is in the pidfile or just being recorded, unless it was disturbed
\* (start_daemon, stop_daemon, cleanup_stale).
THEOREM DaemonRegistered == Spec => []RegisteredUnlessDisturbed
<1>1. IInv => RegisteredUnlessDisturbed
  <2> SUFFICES ASSUME IInv, Undisturbed, NEW p \in Live, p # pidfile
               PROVE  \E s \in Starters : doing[s] = At("record", p)
    BY DEF RegisteredUnlessDisturbed
  <2>1. PICK s \in Starters : doing[s].at = "record"
    BY DEF IInv, Accounted
  <2>2. doing[s].pid = p
    BY <2>1 DEF IInv, Accounted
  <2>3. doing[s] \in [at : Place, pid : Pids \cup {0}]
    BY Apart DEF IInv, Typed
  <2>4. doing[s] = At("record", p)
    BY <2>1, <2>2, <2>3 DEF At
  <2>5. QED
    BY <2>4
<1>2. QED
  BY <1>1, DaemonInvariance, PTL

\* There are never two daemons, unless it was disturbed (start_daemon).
THEOREM DaemonSingle == Spec => []SingleUnlessDisturbed
<1>1. IInv => SingleUnlessDisturbed
  <2> SUFFICES ASSUME IInv, Undisturbed PROVE Cardinality(Live) <= 1
    BY DEF SingleUnlessDisturbed
  <2>1. \A p, q \in Live : p = q
    BY DEF IInv, Accounted
  <2>2. QED
    BY <2>1, AtMostOne
<1>2. QED
  BY <1>1, DaemonInvariance, PTL

===============================================================================
