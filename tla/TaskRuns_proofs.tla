--------------------------- MODULE TaskRuns_proofs ---------------------------
(***************************************************************************)
(* The two ways in which the program runs its tasks: the kernel's          *)
(* execute() and the workers of the legacy jobs, both over the task store, *)
(* whose lemmas say what each operation writes to a task.                  *)
(***************************************************************************)
EXTENDS KernelExecution, LegacyJobs, TaskRepository_proofs

-----------------------------------------------------------------------------
(***************************************************************************)
(* That KernelExecution implements TaskRepository, and its invariants, for *)
(* every number of processes, tasks and attempts.                          *)
(*                                                                         *)
(* A step on the store either leaves what the holder of an attempt relies  *)
(* on (Quiet), or is that holder's own report.  With it each step of       *)
(* execute() has to be looked at only for the process that takes it.       *)
(***************************************************************************)
CallerState == [at : Place, task : Tasks, attempt : 0..MaxAttempts]

CheckpointRow == [attempt : AttemptNo, fence : Nat]

ExecTyped ==
    /\ caller \in [Callers -> CallerState]
    /\ starts \in [Tasks -> [AttemptNo -> Nat]]
    /\ ended \in [Tasks -> [AttemptNo -> {"none", "success", "failure"}]]
    /\ checkpoints \in [Tasks -> Seq(CheckpointRow)]

\* The lease a process holds, and what it may rely on.
Reliable(t, n) ==
    /\ n \in 1..task[t].attempts_started
    /\ attempt[t][n].state \in {"running", "expired"}
    /\ task[t].active_attempt = n \/ attempt[t][n].lease_until < clock

HeldReliably ==
    \A c \in Callers : Holds(c) => Reliable(caller[c].task, caller[c].attempt)

HeldApart ==
    \A c, d \in Callers :
        Holds(c) /\ Holds(d) /\ c # d =>
            <<caller[c].task, caller[c].attempt>> # <<caller[d].task, caller[d].attempt>>

StartedOnce ==
    /\ \A c \in Callers : Doing(c, "start") => starts[caller[c].task][caller[c].attempt] = 0
    /\ \A t \in Tasks, n \in AttemptNo :
         /\ starts[t][n] <= 1
         /\ starts[t][n] # 0 => n <= task[t].attempts_started

Heard ==
    \A c \in Callers :
        Doing(c, "complete") => ended[caller[c].task][caller[c].attempt] \in {"success", "failure"}

Told(t, n) ==
    /\ attempt[t][n].state = "succeeded" => ended[t][n] = "success"
    /\ attempt[t][n].state = "failed" => ended[t][n] = "failure"

Chained(t) ==
    /\ \A i, j \in 1..Len(checkpoints[t]) :
         i <= j => checkpoints[t][i].fence <= checkpoints[t][j].fence
    /\ \A i \in 1..Len(checkpoints[t]) : checkpoints[t][i].fence <= task[t].current_fence
    /\ ~Exists(t) => checkpoints[t] = <<>>

\* The inductive invariant.
KInv ==
    /\ IInv
    /\ ExecTyped
    /\ HeldReliably
    /\ HeldApart
    /\ StartedOnce
    /\ Heard
    /\ \A t \in Tasks, n \in AttemptNo : Told(t, n)
    /\ \A t \in Tasks : Chained(t)

\* What a step on the store may do to attempt n of task t behind its holder.
Quiet(t, n) ==
    /\ attempt'[t][n].state \in {attempt[t][n].state, "running", "expired"}
    /\ n <= task[t].attempts_started =>
         /\ attempt'[t][n].lease_until = attempt[t][n].lease_until
         /\ \/ task'[t].active_attempt = task[t].active_attempt
            \/ task[t].active_attempt # n
            \/ attempt[t][n].lease_until < clock

\* What no step ever takes back.
Onward ==
    /\ clock' >= clock
    /\ \A t \in Tasks :
         /\ task'[t].attempts_started >= task[t].attempts_started
         /\ Exists(t) => task'[t].current_fence >= task[t].current_fence
         /\ Exists(t) => task'[t].state # "absent"

-----------------------------------------------------------------------------
(***************************************************************************)
(* The steps of the store.                                                 *)
(***************************************************************************)
\* Every step of execute(), of a checkpoint and of the others is a step of the
\* task store or leaves its tables alone.
LEMMA StoreStep == IInv /\ ExecTyped /\ [ExecNext]_allVars => [Next]_vars
<1> SUFFICES ASSUME IInv, ExecTyped, ExecNext PROVE [Next]_vars
  BY DEF allVars
<1>1. PICK now \in Stamps :
        \/ \E c \in Callers : CallerStep(c, now)
        \/ \E t \in Tasks, n \in AttemptNo :
             attempt[t][n].started_at <= now /\ Checkpoint(t, n, now)
        \/ Others(now)
  BY DEF ExecNext
<1>2. now \in Nat /\ now + 0 = now
  BY DEF Stamps, IInv
<1>3. ASSUME NEW c \in Callers, CallerStep(c, now) PROVE [Next]_vars
  <2> DEFINE t == caller[c].task
             n == caller[c].attempt
  <2>1. t \in Tasks
    BY DEF ExecTyped, CallerState
  <2>2. CASE \E u \in Tasks : Call(c, u, now)
    BY <2>2 DEF Call, Next
  <2>3. CASE ToPlanned(c) \/ ToReady(c) \/ Block(c)
    BY <2>1, <2>3 DEF ToPlanned, ToReady, Block, MoveOr, RequestedStates, Next
  <2>4. CASE ClaimAttempt(c, now)
    BY <2>1, <2>4 DEF ClaimAttempt, Next
  <2>5. CASE Report(c, now)
    <3>1. attempt[t][n].started_at <= now
      BY <2>5 DEF Report
    <3>2. CASE Reported(t, n, now)
      <4>1. LeaseValid(t, n, now)
        BY <3>2 DEF Reported, Succeed, Fail
      <4>2. n \in AttemptNo
        <5>1. /\ task[t] \in TaskRow
              /\ task[t].state = "running" => task[t].active_attempt # 0
          BY <2>1 DEF IInv, RowOK, Activity
        <5>2. QED
          BY <4>1, <5>1, ConstantsOK DEF LeaseValid, TaskRow, AttemptNo
      <4>3. attempt[t][n].state # "none"
        BY <4>1 DEF LeaseValid
      <4>4. HolderStep(t, now)
        <5>1. CASE Succeed(t, n, now)
          BY <3>1, <4>2, <4>3, <5>1 DEF HolderStep
        <5>2. CASE Fail(t, n, FALSE, now, now)
          BY <1>2, <3>1, <4>2, <4>3, <5>2, ExecConstantsOK DEF HolderStep
        <5>3. QED
          BY <3>2, <5>1, <5>2 DEF Reported
      <4>5. QED
        BY <2>1, <4>4 DEF Next
    <3>3. CASE UNCHANGED vars
      BY <3>3
    <3>4. QED
      BY <2>5, <3>2, <3>3 DEF Report
  <2>6. CASE UNCHANGED vars
    BY <2>6
  <2>7. QED
    BY <1>3, <2>2, <2>3, <2>4, <2>5, <2>6 DEF CallerStep, Prepare, Plan, Start, Return, Die
<1>4. CASE Others(now)
  BY <1>4 DEF Others, Next, Recovery
<1>5. QED
  BY <1>1, <1>3, <1>4 DEF Checkpoint, Link

\* The steps that report no attempt are quiet about all of them.
StepIsQuiet == Onward /\ \A t \in Tasks, n \in AttemptNo : Quiet(t, n)

\* submit(), transition(), cancel() without a lease, retry().
LEMMA IdleQuiet ==
    ASSUME IInv, NEW u \in Tasks, NEW now \in Nat,
           \/ \E key \in Keys \cup {NoKey}, budget \in AttemptNo : Submit(u, key, budget, now)
           \/ \E to \in RequestedStates : Transition(u, to)
           \/ CancelIdle(u)
           \/ Retry(u, now)
    PROVE  StepIsQuiet
<1>1. attempt' = attempt /\ clock' = clock
  BY DEF Submit, Transition, CancelIdle, Retry
<1>2. \A t \in Tasks \ {u} : task'[t] = task[t]
  BY DEF Submit, Transition, CancelIdle, Retry, IInv
<1>3. /\ task[u] \in TaskRow
      /\ task[u].state # "running" => task[u].active_attempt = 0
      /\ task[u].state = "absent" => task[u].attempts_started = 0
  <2>1. task[u] \in TaskRow /\ RowOK(task[u], attempt[u])
    BY DEF IInv
  <2>2. QED
    BY <2>1 DEF RowOK, Activity, Budget
<1>4. /\ task[u].active_attempt = 0
      /\ task'[u].active_attempt = 0
      /\ task'[u].state # "absent"
      /\ task'[u].attempts_started = task[u].attempts_started
      /\ task[u].state = "absent" \/ task'[u].current_fence = task[u].current_fence
  <2>1. CASE \E key \in Keys \cup {NoKey}, budget \in AttemptNo : Submit(u, key, budget, now)
    BY <1>3, <2>1 DEF Submit, NewTask, Exists, IInv
  <2>2. CASE \E to \in RequestedStates : Transition(u, to)
    BY <1>3, <2>2 DEF Transition, Moved, RequestedStates, IInv, TaskRow
  <2>3. CASE CancelIdle(u)
    BY <1>3, <2>3 DEF CancelIdle, Released, Moved, IInv, TaskRow
  <2>4. CASE Retry(u, now)
    BY <1>3, <2>4 DEF Retry, Moved, IInv, TaskRow
  <2>5. QED
    BY <2>1, <2>2, <2>3, <2>4
<1>5. \A t \in Tasks : task[t] \in TaskRow /\ clock \in Nat
  BY DEF IInv
<1>6. Onward
  BY <1>1, <1>2, <1>4, <1>5 DEF Onward, Exists, TaskRow
<1>7. ASSUME NEW t \in Tasks, NEW n \in AttemptNo PROVE Quiet(t, n)
  BY <1>1, <1>2, <1>4 DEF Quiet
<1>8. QED
  BY <1>6, <1>7 DEF StepIsQuiet

\* A claim grants the next attempt and is quiet about the earlier ones.
LEMMA ClaimQuiet ==
    ASSUME IInv, NEW u \in Tasks, NEW now \in Nat, Claim(u, now)
    PROVE  /\ StepIsQuiet
           /\ LET n == task[u].attempts_started + 1
              IN /\ n \in AttemptNo
                 /\ task'[u].attempts_started = n
                 /\ task'[u].active_attempt = n
                 /\ attempt'[u][n].state = "running"
<1> DEFINE next == task[u].attempts_started + 1
<1>1. /\ task[u] \in TaskRow
      /\ attempt[u] \in [AttemptNo -> AttemptRow]
      /\ task[u].active_attempt = 0
      /\ task[u].attempts_started < task[u].max_attempts
  <2>1. RowOK(task[u], attempt[u]) /\ task[u] \in TaskRow
    BY DEF IInv
  <2>2. /\ task[u].state \in ClaimableStates
        /\ task[u].attempts_started < task[u].max_attempts
    BY DEF Claim, Claimable
  <2>3. attempt[u] \in [AttemptNo -> AttemptRow]
    BY DEF IInv
  <2>4. task[u].state # "running"
    BY <2>2 DEF ClaimableStates
  <2>5. QED
    BY <2>1, <2>2, <2>3, <2>4 DEF RowOK, Activity
<1>2. next \in AttemptNo
  BY <1>1, ConstantsOK DEF TaskRow, AttemptNo
<1>3. /\ task'[u] = Started(task[u])
      /\ \A t \in Tasks \ {u} : task'[t] = task[t]
      /\ attempt'[u] = [attempt[u] EXCEPT ![next] = NewAttempt(task[u], now)]
      /\ \A t \in Tasks \ {u} : attempt'[t] = attempt[t]
      /\ clock' = clock
  BY DEF Claim, IInv
<1>4. /\ task'[u].attempts_started = next
      /\ task'[u].active_attempt = next
      /\ task'[u].current_fence = task[u].current_fence + 1
      /\ task'[u].state = "running"
  BY <1>1, <1>3 DEF Started, Moved, TaskRow
<1>5. /\ attempt'[u][next].state = "running"
      /\ \A n \in AttemptNo \ {next} : attempt'[u][n] = attempt[u][n]
  BY <1>1, <1>2, <1>3 DEF NewAttempt
<1>6. \A t \in Tasks : task[t] \in TaskRow /\ clock \in Nat
  BY DEF IInv
<1>7. Onward
  BY <1>3, <1>4, <1>6 DEF Onward, Exists, TaskRow
<1>8. ASSUME NEW t \in Tasks, NEW n \in AttemptNo PROVE Quiet(t, n)
  <2>1. CASE t = u
    <3>1. n = next => ~(n <= task[u].attempts_started)
      BY <1>1 DEF TaskRow
    <3>2. task[u].active_attempt # n
      BY <1>1 DEF AttemptNo
    <3> HIDE DEF next
    <3>3. QED
      BY <1>5, <2>1, <3>1, <3>2 DEF Quiet
  <2>2. CASE t # u
    BY <1>3, <2>2 DEF Quiet
  <2>3. QED
    BY <2>1, <2>2
<1>9. QED
  BY <1>2, <1>4, <1>5, <1>7, <1>8 DEF StepIsQuiet

\* Recovery takes an attempt only when its lease has ended.
LEMMA RecoverQuiet ==
    ASSUME IInv, NEW now \in Stamps, RecoverExpired(Tasks, now)
    PROVE  StepIsQuiet
<1>1. PICK batch \in SUBSET Expired(Tasks, now) :
        /\ task' = [t \in Tasks |->
                      IF t \in batch
                      THEN [Released(task[t], RecoveryTarget(task[t]))
                              EXCEPT !.next_run_at = now]
                      ELSE task[t]]
        /\ attempt' = [t \in Tasks |->
                        IF t \in batch
                        THEN [attempt[t] EXCEPT
                                ![task[t].active_attempt].state = "expired"]
                        ELSE attempt[t]]
        /\ UNCHANGED clock
  BY DEF RecoverExpired
<1>2. now \in Nat /\ clock \in Nat /\ now <= clock
  BY DEF Stamps, IInv
<1>3. ASSUME NEW t \in Tasks
      PROVE  /\ task'[t].attempts_started = task[t].attempts_started
             /\ task'[t].current_fence = task[t].current_fence
             /\ Exists(t) => task'[t].state # "absent"
             /\ \A n \in AttemptNo : Quiet(t, n)
  <2>1. task[t] \in TaskRow /\ attempt[t] \in [AttemptNo -> AttemptRow]
    BY DEF IInv
  <2>2. CASE t \in batch
    <3> DEFINE a == task[t].active_attempt
    <3>1. /\ a # 0
          /\ attempt[t][a].lease_until < now
      BY <2>2 DEF Expired
    <3>2. a \in AttemptNo
      BY <2>1, <3>1, ConstantsOK DEF TaskRow, AttemptNo
    <3>3. /\ task'[t] = [Released(task[t], RecoveryTarget(task[t])) EXCEPT !.next_run_at = now]
          /\ attempt'[t] = [attempt[t] EXCEPT ![a].state = "expired"]
      BY <1>1, <2>2
    <3>4. /\ task'[t].attempts_started = task[t].attempts_started
          /\ task'[t].current_fence = task[t].current_fence
          /\ task'[t].state # "absent"
      BY <2>1, <3>3 DEF Released, Moved, RecoveryTarget, TaskRow
    <3> HIDE DEF a
    <3>5. ASSUME NEW n \in AttemptNo PROVE Quiet(t, n)
      <4>1. /\ attempt'[t][n].state \in {attempt[t][n].state, "expired"}
            /\ attempt'[t][n].lease_until = attempt[t][n].lease_until
        BY <2>1, <3>2, <3>3 DEF AttemptRow
      <4>2. a = n => attempt[t][n].lease_until < clock
        BY <1>2, <2>1, <3>1 DEF AttemptRow
      <4>3. QED
        BY <4>1, <4>2 DEF Quiet, a
    <3>6. QED
      BY <3>4, <3>5
  <2>3. CASE t \notin batch
    BY <1>1, <2>3 DEF Quiet, Exists
  <2>4. QED
    BY <2>2, <2>3
<1>4. \A t \in Tasks : task[t] \in TaskRow
  BY DEF IInv
<1>5. Onward
  BY <1>1, <1>2, <1>3, <1>4 DEF Onward, TaskRow
<1>6. QED
  BY <1>3, <1>5 DEF StepIsQuiet

\* Neither a step that leaves the store alone nor the passing of time disturbs.
LEMMA StillQuiet ==
    ASSUME IInv, UNCHANGED vars \/ Tick
    PROVE  StepIsQuiet
<1>1. clock \in Nat /\ \A t \in Tasks : task[t] \in TaskRow
  BY DEF IInv
<1>2. task' = task /\ attempt' = attempt /\ clock' \in {clock, clock + 1}
  BY DEF vars, Tick
<1>3. QED
  BY <1>1, <1>2 DEF StepIsQuiet, Onward, Quiet, TaskRow, Exists

\* complete() tells the store what the driver of its own attempt told, and is
\* quiet about every other attempt.
LEMMA ReportQuiet ==
    ASSUME IInv, NEW u \in Tasks, NEW m \in AttemptNo, NEW now \in Nat,
           Reported(u, m, now), UNCHANGED ended,
           ended[u][m] \in {"success", "failure"}
    PROVE  /\ Onward
           /\ Told(u, m)'
           /\ \A t \in Tasks, n \in AttemptNo : Quiet(t, n) \/ (t = u /\ n = m)
<1> DEFINE end == IF ended[u][m] = "success" THEN "succeeded" ELSE "failed"
<1>1. /\ task[u] \in TaskRow
      /\ attempt \in [Tasks -> [AttemptNo -> AttemptRow]]
      /\ task \in [Tasks -> TaskRow]
      /\ clock \in Nat
  BY DEF IInv
<1>2. task[u].active_attempt = m
  BY DEF Reported, Succeed, Fail, LeaseValid
<1>3. /\ clock' = clock
      /\ attempt' = [attempt EXCEPT ![u][m].state = end]
  BY DEF Reported, Succeed, Fail, Finished
<1>4. /\ \A t \in Tasks \ {u} : task'[t] = task[t]
      /\ task'[u].attempts_started = task[u].attempts_started
      /\ task'[u].current_fence = task[u].current_fence
      /\ task'[u].state # "absent"
  <2>1. CASE Succeed(u, m, now)
    BY <1>1, <2>1 DEF Succeed, Released, Moved, TaskRow
  <2>2. CASE Fail(u, m, FALSE, now, now)
    BY <1>1, <2>2 DEF Fail, FailureTarget, Released, Moved, TaskRow
  <2>3. QED
    BY <2>1, <2>2 DEF Reported
<1>5. Onward
  BY <1>1, <1>3, <1>4 DEF Onward, TaskRow, Exists
<1>6. /\ attempt'[u][m].state = end
      /\ \A t \in Tasks, n \in AttemptNo :
           ~(t = u /\ n = m) => attempt'[t][n] = attempt[t][n]
  BY <1>1, <1>3 DEF AttemptRow
<1>7. Told(u, m)'
  BY <1>6 DEF Told
<1>8. ASSUME NEW t \in Tasks, NEW n \in AttemptNo, ~(t = u /\ n = m)
      PROVE  Quiet(t, n)
  BY <1>2, <1>4, <1>6, <1>8 DEF Quiet
<1>9. QED
  BY <1>5, <1>7, <1>8

-----------------------------------------------------------------------------
(***************************************************************************)
(* The invariant is kept.                                                  *)
(***************************************************************************)
\* A holder keeps what it relies on through a step that is quiet about its
\* attempt.
LEMMA StaysReliable ==
    ASSUME IInv, IInv', Onward, NEW t \in Tasks, NEW n,
           Reliable(t, n), Quiet(t, n)
    PROVE  Reliable(t, n)'
<1>1. /\ task[t] \in TaskRow /\ task'[t] \in TaskRow
      /\ attempt[t] \in [AttemptNo -> AttemptRow]
      /\ clock \in Nat /\ clock' \in Nat
  BY DEF IInv
<1>2. n \in 1..task[t].attempts_started /\ n \in AttemptNo
  BY <1>1, ConstantsOK DEF Reliable, TaskRow, AttemptNo
<1>3. attempt[t][n].lease_until \in Nat
  BY <1>1, <1>2 DEF AttemptRow
<1>4. n \in 1..task'[t].attempts_started
  BY <1>1, <1>2 DEF Onward, TaskRow
<1>5. attempt'[t][n].state \in {"running", "expired"}
  BY DEF Reliable, Quiet
<1>6. task'[t].active_attempt = n \/ attempt'[t][n].lease_until < clock'
  BY <1>1, <1>2, <1>3 DEF Reliable, Quiet, Onward, TaskRow
<1>7. QED
  BY <1>4, <1>5, <1>6 DEF Reliable

\* A chain that gets no checkpoint stays in order.
LEMMA ChainStays ==
    ASSUME KInv, IInv', Onward, UNCHANGED checkpoints, NEW t \in Tasks
    PROVE  Chained(t)'
<1>1. /\ task[t] \in TaskRow /\ task'[t] \in TaskRow
      /\ checkpoints[t] \in Seq(CheckpointRow)
  BY DEF KInv, IInv, ExecTyped
<1>2. Chained(t)
  BY DEF KInv
<1>3. CASE Exists(t)
  <2>1. task'[t].current_fence >= task[t].current_fence
    BY <1>3 DEF Onward
  <2>2. ASSUME NEW i \in 1..Len(checkpoints[t])
        PROVE  checkpoints[t][i].fence <= task'[t].current_fence
    <3>1. checkpoints[t][i] \in CheckpointRow
      BY <1>1
    <3>2. /\ checkpoints[t][i].fence \in Nat
          /\ task[t].current_fence \in Nat
          /\ task'[t].current_fence \in Nat
      BY <1>1, <3>1 DEF CheckpointRow, TaskRow
    <3>3. checkpoints[t][i].fence <= task[t].current_fence
      BY <1>2 DEF Chained
    <3>4. QED
      BY <2>1, <3>2, <3>3
  <2>3. Exists(t)'
    BY <1>3 DEF Onward, Exists
  <2>4. QED
    BY <1>2, <2>2, <2>3 DEF Chained
<1>4. CASE ~Exists(t)
  <2>1. checkpoints'[t] = <<>>
    BY <1>2, <1>4 DEF Chained
  <2>2. QED
    BY <2>1 DEF Chained
<1>5. QED
  BY <1>3, <1>4

\* A step that starts no driver, hears none and adds no checkpoint keeps the
\* invariant if whoever holds an attempt after it did so before, and it was
\* quiet about that attempt.
LEMMA Frame ==
    ASSUME KInv, IInv', ExecTyped', Onward,
           UNCHANGED <<starts, ended, checkpoints>>,
           \A t \in Tasks, n \in AttemptNo : Quiet(t, n) \/ Told(t, n)',
           \A c \in Callers :
               Holds(c)' => /\ Holds(c)
                            /\ caller'[c].task = caller[c].task
                            /\ caller'[c].attempt = caller[c].attempt
                            /\ caller'[c].at = caller[c].at
                            /\ Quiet(caller[c].task, caller[c].attempt)
    PROVE  KInv'
<1> USE DEF KInv
<1>1. \A c \in Callers : caller[c].task \in Tasks
  BY DEF ExecTyped, CallerState
<1>2. HeldReliably'
  BY <1>1, StaysReliable DEF HeldReliably
<1>3. HeldApart'
  BY DEF HeldApart
<1>4. StartedOnce'
  <2>1. \A c \in Callers : Doing(c, "start")' => Holds(c)' /\ Doing(c, "start")
    BY DEF Doing, Holds
  <2>2. \A c \in Callers :
          Doing(c, "start")' => starts'[caller'[c].task][caller'[c].attempt] = 0
    BY <2>1 DEF StartedOnce
  <2>3. \A t \in Tasks : task[t] \in TaskRow /\ task'[t] \in TaskRow
    BY DEF IInv
  <2>4. ASSUME NEW t \in Tasks, NEW n \in AttemptNo, starts'[t][n] # 0
        PROVE  n <= task'[t].attempts_started
    BY <2>3, <2>4 DEF StartedOnce, Onward, TaskRow, AttemptNo
  <2>5. QED
    BY <2>2, <2>4 DEF StartedOnce, Doing
<1>5. ASSUME NEW t \in Tasks, NEW n \in AttemptNo
      PROVE  Told(t, n)'
  <2>1. Told(t, n) /\ ended' = ended /\ (Quiet(t, n) \/ Told(t, n)')
    OBVIOUS
  <2>2. QED
    BY <2>1 DEF Quiet, Told
<1>6. \A t \in Tasks : Chained(t)'
  BY ChainStays
<1>7. Heard'
  BY DEF Heard, Doing, Holds
<1>8. QED
  BY <1>2, <1>3, <1>4, <1>5, <1>6, <1>7

\* Who holds an attempt may rely on it.
LEMMA HeldAttempt ==
    ASSUME KInv, NEW c \in Callers, Holds(c)
    PROVE  /\ caller[c].task \in Tasks
           /\ caller[c].attempt \in AttemptNo
           /\ Reliable(caller[c].task, caller[c].attempt)
<1>1. caller[c].task \in Tasks
  BY DEF KInv, ExecTyped, CallerState
<1>2. Reliable(caller[c].task, caller[c].attempt)
  BY DEF KInv, HeldReliably
<1>3. task[caller[c].task] \in TaskRow
  BY <1>1 DEF KInv, IInv
<1>4. QED
  BY <1>1, <1>2, <1>3, ConstantsOK DEF Reliable, TaskRow, AttemptNo

\* Only the process that takes the step moves in execute().
Moves(c) == \A d \in Callers \ {c} : caller'[d] = caller[d]

\* A quiet step of a process that holds no attempt afterwards.
LEMMA Leaves ==
    ASSUME KInv, IInv', ExecTyped', NEW c \in Callers, Moves(c), ~Holds(c)',
           StepIsQuiet, UNCHANGED <<starts, ended, checkpoints>>
    PROVE  KInv'
<1>1. ASSUME NEW d \in Callers, Holds(d)'
      PROVE  /\ Holds(d)
             /\ caller'[d] = caller[d]
             /\ Quiet(caller[d].task, caller[d].attempt)
  <2>1. caller'[d] = caller[d]
    BY <1>1 DEF Moves
  <2>2. Holds(d)
    BY <1>1, <2>1 DEF Holds
  <2>3. QED
    BY <2>1, <2>2, HeldAttempt DEF StepIsQuiet
<1>2. QED
  BY <1>1, Frame DEF StepIsQuiet

\* A claim hands its process an attempt that nobody else holds and no driver has
\* been started for.
LEMMA ClaimKeeps ==
    ASSUME KInv, IInv', ExecTyped', NEW c \in Callers, NEW now \in Nat,
           Claim(caller[c].task, now),
           Becomes(c, "start", caller[c].task, task[caller[c].task].attempts_started + 1),
           UNCHANGED <<starts, ended, checkpoints>>
    PROVE  KInv'
<1> DEFINE u == caller[c].task
           m == task[u].attempts_started + 1
<1> USE DEF KInv
<1>1. u \in Tasks /\ task[u] \in TaskRow
  BY DEF ExecTyped, CallerState, IInv
<1>2. /\ StepIsQuiet
      /\ m \in AttemptNo
      /\ task'[u].attempts_started = m
      /\ task'[u].active_attempt = m
      /\ attempt'[u][m].state = "running"
  BY <1>1, ClaimQuiet
<1>3. /\ caller'[c] = At("start", u, m)
      /\ \A d \in Callers \ {c} : caller'[d] = caller[d]
  BY DEF Becomes, ExecTyped
<1>4. caller'[c].at = "start" /\ caller'[c].task = u /\ caller'[c].attempt = m
  BY <1>3 DEF At
<1> HIDE DEF u, m
<1>5. ASSUME NEW d \in Callers, d # c, Holds(d)'
      PROVE  /\ Holds(d)
             /\ Reliable(caller[d].task, caller[d].attempt)'
             /\ <<caller[d].task, caller[d].attempt>> # <<u, m>>
  <2>1. Holds(d)
    BY <1>3, <1>5 DEF Holds
  <2>2. /\ caller[d].task \in Tasks
        /\ Quiet(caller[d].task, caller[d].attempt)
        /\ Reliable(caller[d].task, caller[d].attempt)
    BY <1>2, <2>1, HeldAttempt DEF StepIsQuiet
  <2>3. caller'[d] = caller[d]
    BY <1>3, <1>5
  <2>4. ASSUME NEW t \in Tasks, NEW n, Reliable(t, n), Quiet(t, n)
        PROVE  Reliable(t, n)'
    BY <1>2, <2>4, StaysReliable DEF StepIsQuiet
  <2>5. Reliable(caller[d].task, caller[d].attempt)'
    BY <2>2, <2>3, <2>4 DEF Reliable
  <2>6. caller[d].task = u => caller[d].attempt # m
    BY <1>1, <2>2 DEF Reliable, TaskRow, m
  <2>7. QED
    BY <2>1, <2>5, <2>6
<1>6. HeldReliably'
  <2>1. m \in 1..m
    BY <1>2 DEF AttemptNo
  <2>2. Reliable(caller[c].task, caller[c].attempt)'
    BY <1>2, <1>4, <2>1 DEF Reliable
  <2>3. QED
    BY <1>5, <2>2 DEF HeldReliably
<1>7. HeldApart'
  <2>1. ASSUME NEW d \in Callers, NEW e \in Callers, d # e, Holds(d)', Holds(e)'
        PROVE  <<caller'[d].task, caller'[d].attempt>> # <<caller'[e].task, caller'[e].attempt>>
    <3>1. CASE d = c
      BY <1>3, <1>4, <1>5, <2>1, <3>1
    <3>2. CASE e = c
      BY <1>3, <1>4, <1>5, <2>1, <3>2
    <3>3. CASE d # c /\ e # c
      BY <1>3, <1>5, <2>1, <3>3 DEF HeldApart
    <3>4. QED
      BY <3>1, <3>2, <3>3
  <2>2. QED
    BY <2>1 DEF HeldApart
<1>8. StartedOnce'
  <2>1. starts[u][m] = 0
    <3>1. ~(m <= task[u].attempts_started)
      BY <1>1 DEF TaskRow, m
    <3>2. QED
      BY <1>1, <1>2, <3>1 DEF StartedOnce
  <2>2. \A d \in Callers : Doing(d, "start")' => starts'[caller'[d].task][caller'[d].attempt] = 0
    BY <1>3, <1>4, <2>1 DEF StartedOnce, Doing
  <2>3. \A t \in Tasks : task[t] \in TaskRow /\ task'[t] \in TaskRow
    BY DEF IInv
  <2>4. ASSUME NEW t \in Tasks, NEW n \in AttemptNo, starts'[t][n] # 0
        PROVE  n <= task'[t].attempts_started
    BY <1>2, <2>3, <2>4 DEF StartedOnce, StepIsQuiet, Onward, TaskRow, AttemptNo
  <2>5. QED
    BY <2>2, <2>4 DEF StartedOnce, Doing
<1>9. Heard'
  BY <1>3, <1>4 DEF Heard, Doing
<1>10. \A t \in Tasks, n \in AttemptNo : Told(t, n)'
  BY <1>2 DEF StepIsQuiet, Quiet, Told
<1>11. \A t \in Tasks : Chained(t)'
  BY <1>2, ChainStays DEF StepIsQuiet
<1>12. QED
  BY <1>6, <1>7, <1>8, <1>9, <1>10, <1>11

\* A driver is started for an attempt that had none, and by its only holder.
LEMMA StartKeeps ==
    ASSUME KInv, IInv', ExecTyped', NEW c \in Callers, Start(c)
    PROVE  KInv'
<1> USE DEF KInv
<1>1. PICK t \in Tasks, n \in AttemptNo : caller[c].task = t /\ caller[c].attempt = n
  BY HeldAttempt DEF Start, Doing, Holds
<1>2. /\ task' = task /\ attempt' = attempt /\ clock' = clock
      /\ ended' = ended /\ checkpoints' = checkpoints
      /\ starts' = [starts EXCEPT ![t][n] = @ + 1]
      /\ starts \in [Tasks -> [AttemptNo -> Nat]]
  BY <1>1 DEF Start, vars, ExecTyped
<1>3. /\ caller'[c].at = "driving" /\ caller'[c].task = t /\ caller'[c].attempt = n
      /\ \A d \in Callers \ {c} : caller'[d] = caller[d]
  BY <1>1 DEF Start, Goes, ExecTyped, CallerState
<1>4. Holds(c) /\ starts[t][n] = 0 /\ Reliable(t, n)
  BY <1>1, HeldAttempt DEF Start, Doing, Holds, StartedOnce
<1>5. \A d \in Callers : Holds(d)' => /\ Holds(d)
                                       /\ caller'[d].task = caller[d].task
                                       /\ caller'[d].attempt = caller[d].attempt
  BY <1>1, <1>3, <1>4 DEF Holds
<1>6. HeldReliably'
  BY <1>2, <1>5 DEF HeldReliably, Reliable
<1>7. HeldApart'
  BY <1>5 DEF HeldApart
<1>8. StartedOnce'
  <2>1. /\ starts'[t][n] = 1
        /\ \A u \in Tasks, m \in AttemptNo : ~(u = t /\ m = n) => starts'[u][m] = starts[u][m]
    BY <1>2, <1>4
  <2>2. n <= task[t].attempts_started
    BY <1>4 DEF Reliable, IInv, TaskRow
  <2>3. ASSUME NEW d \in Callers, Doing(d, "start")'
        PROVE  starts'[caller'[d].task][caller'[d].attempt] = 0
    <3>1. d # c /\ caller'[d] = caller[d] /\ Doing(d, "start") /\ Holds(d)
      BY <1>3, <2>3 DEF Doing, Holds
    <3>2. caller[d].task \in Tasks /\ caller[d].attempt \in AttemptNo
      BY <3>1, HeldAttempt
    <3>3. ~(caller[d].task = t /\ caller[d].attempt = n)
      BY <1>1, <1>4, <3>1 DEF HeldApart
    <3>4. starts[caller[d].task][caller[d].attempt] = 0
      BY <3>1 DEF StartedOnce
    <3>5. QED
      BY <2>1, <3>1, <3>2, <3>3, <3>4
  <2>4. QED
    BY <1>2, <2>1, <2>2, <2>3 DEF StartedOnce
<1>9. Heard' /\ \A u \in Tasks, m \in AttemptNo : Told(u, m)'
  BY <1>2, <1>3 DEF Heard, Doing, Told
<1>10. \A u \in Tasks : Chained(u)'
  BY <1>2 DEF Chained, Exists
<1>11. QED
  BY <1>6, <1>7, <1>8, <1>9, <1>10

\* What a driver returns is recorded for its own attempt, which has not ended yet.
LEMMA ReturnKeeps ==
    ASSUME KInv, IInv', ExecTyped', NEW c \in Callers,
           NEW end \in {"success", "failure"}, Return(c, end)
    PROVE  KInv'
<1> USE DEF KInv
<1>1. PICK t \in Tasks, n \in AttemptNo : caller[c].task = t /\ caller[c].attempt = n
  BY HeldAttempt DEF Return, Doing, Holds
<1>2. /\ task' = task /\ attempt' = attempt /\ clock' = clock
      /\ starts' = starts /\ checkpoints' = checkpoints
      /\ ended' = [ended EXCEPT ![t][n] = end]
      /\ ended \in [Tasks -> [AttemptNo -> {"none", "success", "failure"}]]
  BY <1>1 DEF Return, vars, ExecTyped
<1>3. /\ caller'[c].at = "complete" /\ caller'[c].task = t /\ caller'[c].attempt = n
      /\ \A d \in Callers \ {c} : caller'[d] = caller[d]
  BY <1>1 DEF Return, Goes, ExecTyped, CallerState
<1>4. Holds(c) /\ Reliable(t, n)
  BY <1>1, HeldAttempt DEF Return, Doing, Holds
<1>5. \A d \in Callers : Holds(d)' => /\ Holds(d)
                                       /\ caller'[d].task = caller[d].task
                                       /\ caller'[d].attempt = caller[d].attempt
  BY <1>1, <1>3, <1>4 DEF Holds
<1>6. HeldReliably'
  BY <1>2, <1>5 DEF HeldReliably, Reliable
<1>7. HeldApart'
  BY <1>5 DEF HeldApart
<1>8. StartedOnce'
  BY <1>2, <1>3 DEF StartedOnce, Doing
<1>9. /\ ended'[t][n] = end
      /\ \A u \in Tasks, m \in AttemptNo : ~(u = t /\ m = n) => ended'[u][m] = ended[u][m]
  BY <1>2
<1>10. Heard'
  <2>1. ASSUME NEW d \in Callers, d # c, Doing(d, "complete")'
        PROVE  ended'[caller'[d].task][caller'[d].attempt] \in {"success", "failure"}
    <3>1. caller'[d] = caller[d] /\ Doing(d, "complete") /\ Holds(d)
      BY <1>3, <2>1 DEF Doing, Holds
    <3>2. caller[d].task \in Tasks /\ caller[d].attempt \in AttemptNo
      BY <3>1, HeldAttempt
    <3>3. ~(caller[d].task = t /\ caller[d].attempt = n)
      BY <1>1, <1>4, <2>1, <3>1 DEF HeldApart
    <3>4. ended[caller[d].task][caller[d].attempt] \in {"success", "failure"}
      BY <3>1 DEF Heard
    <3>5. QED
      BY <1>9, <3>1, <3>2, <3>3, <3>4
  <2>2. QED
    BY <1>3, <1>9, <2>1 DEF Heard
<1>11. ASSUME NEW u \in Tasks, NEW m \in AttemptNo PROVE Told(u, m)'
  <2>1. CASE u = t /\ m = n
    BY <1>2, <1>4, <2>1 DEF Told, Reliable
  <2>2. CASE ~(u = t /\ m = n)
    BY <1>2, <1>9, <2>2 DEF Told
  <2>3. QED
    BY <2>1, <2>2
<1>12. \A u \in Tasks : Chained(u)'
  BY <1>2 DEF Chained, Exists
<1>13. QED
  BY <1>6, <1>7, <1>8, <1>10, <1>11, <1>12

\* complete() reports the attempt of its process and no other process holds it.
LEMMA ReportKeeps ==
    ASSUME KInv, IInv', ExecTyped', NEW c \in Callers, NEW now \in Nat, Report(c, now)
    PROVE  KInv'
<1> USE DEF KInv
<1>1. PICK t \in Tasks, n \in AttemptNo : caller[c].task = t /\ caller[c].attempt = n
  BY HeldAttempt DEF Report, Doing, Holds
<1>2. /\ UNCHANGED <<starts, ended, checkpoints>>
      /\ Moves(c)
      /\ ~Holds(c)'
  BY DEF Report, Goes, Holds, Moves, ExecTyped, CallerState
<1>3. CASE Reported(t, n, now)
  <2>1. ended[t][n] \in {"success", "failure"}
    BY <1>1 DEF Report, Heard
  <2>2. /\ Onward
        /\ Told(t, n)'
        /\ \A u \in Tasks, m \in AttemptNo : Quiet(u, m) \/ (u = t /\ m = n)
    BY <1>2, <1>3, <2>1, ReportQuiet
  <2>3. ASSUME NEW d \in Callers, Holds(d)'
        PROVE  /\ Holds(d)
               /\ caller'[d] = caller[d]
               /\ Quiet(caller[d].task, caller[d].attempt)
    <3>1. d # c /\ caller'[d] = caller[d]
      BY <1>2, <2>3 DEF Moves
    <3>2. Holds(d) /\ Holds(c)
      BY <2>3, <3>1 DEF Holds, Report, Doing
    <3>3. ~(caller[d].task = t /\ caller[d].attempt = n)
      BY <1>1, <3>1, <3>2 DEF HeldApart
    <3>4. caller[d].task \in Tasks /\ caller[d].attempt \in AttemptNo
      BY <3>2, HeldAttempt
    <3>5. QED
      BY <2>2, <3>1, <3>2, <3>3, <3>4
  <2>4. QED
    BY <1>2, <2>2, <2>3, Frame
<1>4. CASE UNCHANGED vars
  BY <1>2, <1>4, StillQuiet, Leaves
<1>5. QED
  BY <1>1, <1>3, <1>4 DEF Report

\* The attempt whose lease is valid has the fence of its task, which no earlier
\* checkpoint exceeds.
LEMMA CheckpointKeeps ==
    ASSUME KInv, IInv', ExecTyped', NEW t \in Tasks, NEW n \in AttemptNo, NEW now \in Nat,
           Checkpoint(t, n, now)
    PROVE  KInv'
<1> USE DEF KInv
<1> DEFINE new == [attempt |-> n, fence |-> attempt[t][n].fence]
<1>1. /\ UNCHANGED <<vars, caller, starts, ended>>
      /\ checkpoints' = [checkpoints EXCEPT ![t] = Append(@, new)]
      /\ checkpoints \in [Tasks -> Seq(CheckpointRow)]
  BY DEF Checkpoint, Link, ExecTyped
<1>2. /\ attempt[t][n].fence = task[t].current_fence
      /\ Exists(t)
      /\ task[t].current_fence \in Nat
  BY DEF Checkpoint, LeaseValid, Exists, IInv, TaskRow
<1>3. new \in CheckpointRow
  BY <1>2 DEF CheckpointRow
<1>4. HeldReliably' /\ HeldApart' /\ StartedOnce' /\ Heard'
  BY <1>1 DEF HeldReliably, HeldApart, StartedOnce, Heard, Reliable, Holds, Doing, vars
<1>5. \A u \in Tasks, m \in AttemptNo : Told(u, m)'
  BY <1>1 DEF Told, vars
<1>6. Chained(t)'
  <2> DEFINE chain == checkpoints[t]
             len == Len(chain)
  <2>1. /\ checkpoints'[t] = Append(chain, new)
        /\ chain \in Seq(CheckpointRow)
        /\ len \in Nat
    BY <1>1
  <2>2. /\ Len(checkpoints'[t]) = len + 1
        /\ \A i \in 1..len : checkpoints'[t][i] = chain[i]
        /\ checkpoints'[t][len + 1] = new
    BY <1>3, <2>1
  <2>3. \A i \in 1..len : chain[i].fence \in Nat
    <3>1. \A i \in 1..len : chain[i] \in CheckpointRow
      BY <2>1
    <3>2. QED
      BY <3>1 DEF CheckpointRow
  <2>4. /\ \A i, j \in 1..len : i <= j => chain[i].fence <= chain[j].fence
        /\ \A i \in 1..len : chain[i].fence <= task[t].current_fence
    BY DEF Chained
  <2>5. task' = task /\ len \in Nat
    BY <1>1, <2>1 DEF vars
  <2>6. new.fence = task[t].current_fence
    BY <1>2
  <2> HIDE DEF chain, len, new
  <2>7. ASSUME NEW i \in 1..(len + 1)
        PROVE  checkpoints'[t][i].fence <= task[t].current_fence
    <3>1. CASE i \in 1..len
      BY <2>2, <2>4, <3>1
    <3>2. CASE i = len + 1
      <4>1. checkpoints'[t][i] = new
        BY <2>2, <3>2
      <4>2. QED
        BY <1>2, <2>6, <4>1
    <3>3. QED
      BY <2>5, <3>1, <3>2
  <2>8. ASSUME NEW i \in 1..(len + 1), NEW j \in 1..(len + 1), i <= j
        PROVE  checkpoints'[t][i].fence <= checkpoints'[t][j].fence
    <3>1. CASE j \in 1..len
      <4>1. i \in 1..len
        BY <2>5, <2>8, <3>1
      <4>2. QED
        BY <2>2, <2>4, <2>8, <3>1, <4>1
    <3>2. CASE j = len + 1
      <4>1. checkpoints'[t][j] = new
        BY <2>2, <3>2
      <4>2. checkpoints'[t][i].fence <= task[t].current_fence
        BY <2>7
      <4>3. QED
        BY <2>6, <4>1, <4>2
    <3>3. QED
      BY <2>5, <3>1, <3>2
  <2>9. QED
    BY <1>2, <2>2, <2>5, <2>7, <2>8 DEF Chained, Exists
<1>7. ASSUME NEW u \in Tasks, u # t PROVE Chained(u)'
  <2>1. checkpoints'[u] = checkpoints[u] /\ task' = task
    BY <1>1, <1>7 DEF vars
  <2>2. QED
    BY <2>1 DEF Chained, Exists
<1>8. QED
  BY <1>4, <1>5, <1>6, <1>7

\* Every step keeps the types.
LEMMA TypedStep ==
    ASSUME KInv, ExecNext
    PROVE  ExecTyped'
<1> USE DEF KInv
<1>1. /\ caller \in [Callers -> CallerState]
      /\ starts \in [Tasks -> [AttemptNo -> Nat]]
      /\ ended \in [Tasks -> [AttemptNo -> {"none", "success", "failure"}]]
      /\ checkpoints \in [Tasks -> Seq(CheckpointRow)]
  BY DEF ExecTyped
<1>2. PICK now \in Stamps :
        \/ \E c \in Callers : CallerStep(c, now)
        \/ \E t \in Tasks, n \in AttemptNo :
             attempt[t][n].started_at <= now /\ Checkpoint(t, n, now)
        \/ Others(now)
  BY DEF ExecNext
<1>3. ASSUME NEW c \in Callers, NEW place \in Place, Goes(c, place)
      PROVE  caller' \in [Callers -> CallerState]
  BY <1>1, <1>3 DEF Goes, CallerState
<1>4. ASSUME NEW c \in Callers, NEW place \in Place, NEW t \in Tasks, NEW n \in 0..MaxAttempts,
             Becomes(c, place, t, n)
      PROVE  caller' \in [Callers -> CallerState]
  BY <1>1, <1>4 DEF Becomes, At, CallerState
<1>5. ASSUME NEW c \in Callers, CallerStep(c, now)
      PROVE  caller' \in [Callers -> CallerState]
  <2>1. CASE \E t \in Tasks : Call(c, t, now)
    <3>1. PICK t \in Tasks : Becomes(c, "prepare", t, 0)
      BY <2>1 DEF Call
    <3>2. "prepare" \in Place /\ 0 \in 0..MaxAttempts
      BY ConstantsOK DEF Place
    <3>3. QED
      BY <1>4, <3>1, <3>2
  <2>2. CASE Prepare(c)
    BY <1>3, <2>2 DEF Prepare, Place
  <2>3. CASE ToPlanned(c) \/ ToReady(c) \/ Block(c)
    BY <1>3, <2>3 DEF ToPlanned, ToReady, Block, MoveOr, Place
  <2>4. CASE Plan(c) \/ Start(c) \/ Die(c) \/ Report(c, now)
    BY <1>3, <2>4 DEF Plan, Start, Die, Report, Place
  <2>5. CASE \E end \in {"success", "failure"} : Return(c, end)
    BY <1>3, <2>5 DEF Return, Place
  <2>6. CASE ClaimAttempt(c, now)
    <3>1. caller[c].task \in Tasks
      BY <1>1 DEF CallerState
    <3>2. CASE Goes(c, "idle")
      BY <1>3, <3>2 DEF Place
    <3>3. CASE /\ Claim(caller[c].task, now)
               /\ Becomes(c, "start", caller[c].task, task[caller[c].task].attempts_started + 1)
      <4>1. now \in Nat
        BY DEF Stamps, IInv
      <4>2. task[caller[c].task].attempts_started + 1 \in AttemptNo
        BY <3>1, <3>3, <4>1, ClaimQuiet
      <4>3. task[caller[c].task].attempts_started + 1 \in 0..MaxAttempts
        BY <4>2, ConstantsOK DEF AttemptNo
      <4>4. QED
        BY <1>4, <3>1, <3>3, <4>3 DEF Place
    <3>4. QED
      BY <2>6, <3>2, <3>3 DEF ClaimAttempt
  <2>7. QED
    BY <1>5, <2>1, <2>2, <2>3, <2>4, <2>5, <2>6 DEF CallerStep
<1>6. ASSUME NEW c \in Callers, CallerStep(c, now)
      PROVE  /\ starts' \in [Tasks -> [AttemptNo -> Nat]]
             /\ ended' \in [Tasks -> [AttemptNo -> {"none", "success", "failure"}]]
             /\ checkpoints' = checkpoints
  <2>1. CASE Start(c)
    <3>1. PICK t \in Tasks, n \in AttemptNo : caller[c].task = t /\ caller[c].attempt = n
      BY <2>1, HeldAttempt DEF Start, Doing, Holds
    <3>2. starts' = [starts EXCEPT ![t][n] = @ + 1] /\ UNCHANGED <<ended, checkpoints>>
      BY <2>1, <3>1 DEF Start
    <3>3. QED
      BY <1>1, <3>2
  <2>2. CASE \E end \in {"success", "failure"} : Return(c, end)
    <3>1. PICK end \in {"success", "failure"} : Return(c, end)
      BY <2>2
    <3>2. PICK t \in Tasks, n \in AttemptNo : caller[c].task = t /\ caller[c].attempt = n
      BY <3>1, HeldAttempt DEF Return, Doing, Holds
    <3>3. ended' = [ended EXCEPT ![t][n] = end] /\ UNCHANGED <<starts, checkpoints>>
      BY <3>1, <3>2 DEF Return
    <3>4. QED
      BY <1>1, <3>3
  <2>3. CASE UNCHANGED <<starts, ended, checkpoints>>
    BY <1>1, <2>3
  <2>4. QED
    BY <1>6, <2>1, <2>2, <2>3
    DEF CallerStep, Call, Prepare, ToPlanned, ToReady, Plan, Block, ClaimAttempt, Report, Die
<1>7. ASSUME NEW t \in Tasks, NEW n \in AttemptNo, Checkpoint(t, n, now)
      PROVE  ExecTyped'
  <2>1. attempt[t][n].fence \in Nat
    BY DEF IInv, AttemptRow
  <2>2. [attempt |-> n, fence |-> attempt[t][n].fence] \in CheckpointRow
    BY <2>1 DEF CheckpointRow
  <2>3. QED
    BY <1>1, <1>7, <2>2 DEF Checkpoint, Link, ExecTyped
<1>8. CASE Others(now)
  BY <1>1, <1>8 DEF Others, execVars, ExecTyped
<1>9. QED
  BY <1>1, <1>2, <1>5, <1>6, <1>7, <1>8 DEF ExecTyped

\* A quiet step of a process that goes to a place where it holds no attempt.
LEMMA Aside ==
    ASSUME KInv, IInv', ExecTyped', NEW c \in Callers,
           NEW place \in Place \ {"start", "driving", "complete"},
           Goes(c, place) \/ \E t \in Tasks : Becomes(c, place, t, 0),
           StepIsQuiet, UNCHANGED <<starts, ended, checkpoints>>
    PROVE  KInv'
<1>1. caller \in [Callers -> CallerState]
  BY DEF KInv, ExecTyped
<1>2. CASE Goes(c, place)
  <2>1. Moves(c) /\ caller'[c].at = place
    BY <1>1, <1>2 DEF Goes, Moves, CallerState
  <2>2. QED
    BY <2>1, Leaves DEF Holds
<1>3. CASE \E t \in Tasks : Becomes(c, place, t, 0)
  <2>1. Moves(c) /\ caller'[c].at = place
    BY <1>1, <1>3 DEF Becomes, At, Moves
  <2>2. QED
    BY <2>1, Leaves DEF Holds
<1>4. QED
  BY <1>2, <1>3

\* Every step keeps the invariant.
LEMMA ExecNextKInv == KInv /\ [ExecNext]_allVars => KInv'
<1> SUFFICES ASSUME KInv, [ExecNext]_allVars PROVE KInv'
  OBVIOUS
<1>1. IInv /\ IInv'
  BY StoreStep, NextIInv DEF KInv
<1>2. CASE UNCHANGED allVars
  BY <1>2 DEF allVars, execVars, vars, KInv, IInv, ExecTyped, HeldReliably, HeldApart,
              StartedOnce, Heard, Told, Chained, Reliable, Holds, Doing, Exists
<1>3. CASE ExecNext
  <2>1. ExecTyped'
    BY <1>3, TypedStep
  <2>2. PICK now \in Stamps :
          \/ \E c \in Callers : CallerStep(c, now)
          \/ \E t \in Tasks, n \in AttemptNo :
               attempt[t][n].started_at <= now /\ Checkpoint(t, n, now)
          \/ Others(now)
    BY <1>3 DEF ExecNext
  <2>3. now \in Nat
    BY <1>1 DEF Stamps, IInv
  <2>4. ASSUME NEW c \in Callers, CallerStep(c, now)
        PROVE  KInv'
    <3>1. caller[c].task \in Tasks
      BY DEF KInv, ExecTyped, CallerState
    <3>2. CASE \E t \in Tasks : Call(c, t, now)
      <4>1. PICK t \in Tasks : Call(c, t, now)
        BY <3>2
      <4>2. StepIsQuiet
        BY <1>1, <2>3, <4>1, IdleQuiet, StillQuiet DEF Call
      <4>3. QED
        BY <1>1, <2>1, <4>1, <4>2, Aside DEF Call, Place
    <3>3. CASE Prepare(c) \/ Plan(c) \/ Die(c)
      <4>1. StepIsQuiet
        BY <1>1, <3>3, StillQuiet DEF Prepare, Plan, Die
      <4>2. PICK place \in Place \ {"start", "driving", "complete"} : Goes(c, place)
        BY <3>3 DEF Prepare, Plan, Die, Place
      <4>3. QED
        BY <1>1, <2>1, <3>3, <4>1, <4>2, Aside DEF Prepare, Plan, Die
    <3>4. CASE ToPlanned(c) \/ ToReady(c) \/ Block(c)
      <4>1. PICK place \in Place \ {"start", "driving", "complete"},
                 to \in RequestedStates :
              Goes(c, place) /\ (Transition(caller[c].task, to) \/ UNCHANGED vars)
        BY <3>4 DEF ToPlanned, ToReady, Block, MoveOr, Place, RequestedStates
      <4>2. StepIsQuiet
        BY <1>1, <2>3, <3>1, <4>1, IdleQuiet, StillQuiet
      <4>3. QED
        BY <1>1, <2>1, <3>4, <4>1, <4>2, Aside DEF ToPlanned, ToReady, Block
    <3>5. CASE ClaimAttempt(c, now)
      <4>1. CASE Goes(c, "idle") /\ UNCHANGED vars
        <5>1. StepIsQuiet
          BY <1>1, <4>1, StillQuiet
        <5>2. QED
          BY <1>1, <2>1, <3>5, <4>1, <5>1, Aside DEF ClaimAttempt, Place
      <4>2. CASE /\ Claim(caller[c].task, now)
                 /\ Becomes(c, "start", caller[c].task, task[caller[c].task].attempts_started + 1)
        BY <1>1, <2>1, <2>3, <3>5, <4>2, ClaimKeeps DEF ClaimAttempt
      <4>3. QED
        BY <3>5, <4>1, <4>2 DEF ClaimAttempt
    <3>6. CASE Start(c)
      BY <1>1, <2>1, <3>6, StartKeeps
    <3>7. CASE \E end \in {"success", "failure"} : Return(c, end)
      BY <1>1, <2>1, <3>7, ReturnKeeps
    <3>8. CASE Report(c, now)
      BY <1>1, <2>1, <2>3, <3>8, ReportKeeps
    <3>9. QED
      BY <2>4, <3>2, <3>3, <3>4, <3>5, <3>6, <3>7, <3>8 DEF CallerStep
  <2>5. ASSUME NEW t \in Tasks, NEW n \in AttemptNo, Checkpoint(t, n, now)
        PROVE  KInv'
    BY <1>1, <2>1, <2>3, <2>5, CheckpointKeeps
  <2>6. CASE Others(now)
    <3>1. UNCHANGED execVars
      BY <2>6 DEF Others
    <3>2. StepIsQuiet
      BY <1>1, <2>3, <2>6, StillQuiet, RecoverQuiet, IdleQuiet DEF Others
    <3>3. \A c \in Callers : Holds(c)' => Holds(c) /\ Quiet(caller[c].task, caller[c].attempt)
      BY <3>1, <3>2, HeldAttempt DEF execVars, Holds, StepIsQuiet
    <3>4. QED
      BY <1>1, <2>1, <3>1, <3>2, <3>3, Frame DEF execVars, StepIsQuiet
  <2>7. QED
    BY <2>2, <2>4, <2>5, <2>6
<1>4. QED
  BY <1>2, <1>3

\* Nothing has run in the initial states.
LEMMA ExecInitKInv == ExecInit => KInv
<1> SUFFICES ASSUME ExecInit PROVE KInv
  OBVIOUS
<1>1. IInv
  BY InitIInv DEF ExecInit
<1>2. /\ \A c \in Callers : \E t \in Tasks : caller[c] = At("idle", t, 0)
      /\ caller \in [Callers -> {At("idle", t, 0) : t \in Tasks}]
      /\ starts = [t \in Tasks |-> [n \in AttemptNo |-> 0]]
      /\ ended = [t \in Tasks |-> [n \in AttemptNo |-> "none"]]
      /\ checkpoints = [t \in Tasks |-> <<>>]
      /\ task = [t \in Tasks |-> NoTask]
      /\ attempt = [t \in Tasks |-> [n \in AttemptNo |-> NoAttempt]]
  BY DEF ExecInit, Init
<1>3. \A t \in Tasks : At("idle", t, 0) \in CallerState
  BY ConstantsOK DEF At, CallerState, Place
<1>4. ExecTyped
  BY <1>2, <1>3 DEF ExecTyped
<1>5. \A c \in Callers : caller[c].at = "idle"
  BY <1>2 DEF At
<1>6. HeldReliably /\ HeldApart /\ Heard
  BY <1>5 DEF HeldReliably, HeldApart, Heard, Holds, Doing
<1>7. StartedOnce
  BY <1>2, <1>5 DEF StartedOnce, Doing
<1>8. \A t \in Tasks, n \in AttemptNo : Told(t, n)
  BY <1>2 DEF Told, NoAttempt
<1>9. \A t \in Tasks : Chained(t)
  BY <1>2 DEF Chained
<1>10. QED
  BY <1>1, <1>4, <1>6, <1>7, <1>8, <1>9 DEF KInv

-----------------------------------------------------------------------------
(***************************************************************************)
(* The theorems.                                                           *)
(***************************************************************************)
\* The invariant holds in every state of every behaviour.
THEOREM ExecInvariance == ExecSpec => []KInv
<1>1. QED
  BY ExecInitKInv, ExecNextKInv, PTL DEF ExecSpec

\* execute(), checkpoints and whoever else is at work touch the store only as
\* its own operations do: what holds of every behaviour of the task store holds
\* of its tables here.
THEOREM ExecRefinement == ExecSpec => ImplementsRepository
<1>1. ExecInit => Init
  BY DEF ExecInit
<1>2. KInv /\ [ExecNext]_allVars => [Next]_vars
  BY StoreStep DEF KInv
<1>3. QED
  BY <1>1, <1>2, ExecInvariance, PTL DEF ExecSpec, Spec, ImplementsRepository

\* Processes are at places of execute(), and who was given a lease has an attempt.
THEOREM ExecTypes == ExecSpec => []ExecTypeOK
<1>1. KInv => ExecTypeOK
  <2> SUFFICES ASSUME KInv PROVE ExecTypeOK
    OBVIOUS
  <2>1. ASSUME NEW c \in Callers, Holds(c)
        PROVE  /\ caller[c].attempt # 0
               /\ attempt[caller[c].task][caller[c].attempt].state # "none"
    BY <2>1, HeldAttempt DEF Reliable, AttemptNo
  <2>2. QED
    BY <2>1 DEF KInv, ExecTyped, CallerState, CheckpointRow, ExecTypeOK
<1>2. QED
  BY <1>1, ExecInvariance, PTL

\* A driver is started at most once for each attempt granted, and attempts stay
\* within the budget.
THEOREM Runs == ExecSpec => []RunsWithinBudget
<1>1. KInv => RunsWithinBudget
  BY DEF KInv, IInv, RowOK, Budget, StartedOnce, RunsWithinBudget
<1>2. QED
  BY <1>1, ExecInvariance, PTL

\* Whoever drives a task holds its active attempt or has outlived its lease.
THEOREM Leases == ExecSpec => []DrivesUnderLease
<1>1. KInv => DrivesUnderLease
  BY DEF KInv, HeldReliably, Reliable, DrivesUnderLease
<1>2. QED
  BY <1>1, ExecInvariance, PTL

\* The store tells what the drivers told.
THEOREM DriversOutcome == ExecSpec => []OutcomeIsTheDrivers
<1>1. KInv => OutcomeIsTheDrivers
  <2> SUFFICES ASSUME KInv PROVE OutcomeIsTheDrivers
    OBVIOUS
  <2>1. \A t \in Tasks, n \in AttemptNo : Told(t, n)
    BY DEF KInv
  <2>2. ASSUME NEW t \in Tasks, task[t].state = "completed"
        PROVE  task[t].result # 0 /\ ended[t][task[t].result] = "success"
    <3>1. task[t] \in TaskRow /\ RowOK(task[t], attempt[t])
      BY DEF KInv, IInv
    <3>2. /\ task[t].result = task[t].attempts_started
          /\ task[t].attempts_started > 0
          /\ attempt[t][task[t].attempts_started].state = "succeeded"
      BY <2>2, <3>1 DEF RowOK, Outcome, Last
    <3>3. task[t].result \in AttemptNo
      BY <3>1, <3>2, ConstantsOK DEF TaskRow, AttemptNo
    <3>4. QED
      BY <2>1, <3>2, <3>3 DEF Told, AttemptNo
  <2>3. QED
    BY <2>1, <2>2 DEF Told, OutcomeIsTheDrivers
<1>2. QED
  BY <1>1, ExecInvariance, PTL

\* Along the chain of checkpoints fences never fall.
THEOREM ChainOrder == ExecSpec => []ChainFollowsFences
<1>1. KInv => ChainFollowsFences
  BY DEF KInv, Chained, ChainFollowsFences
<1>2. QED
  BY <1>1, ExecInvariance, PTL

-----------------------------------------------------------------------------
(***************************************************************************)
(* That a job and its typed task never disagree, that the queue never      *)
(* jams on its head, and that the queue keeps the task contract, for every *)
(* number of workers and jobs and every attempt budget.                    *)
(*                                                                         *)
(* Projected says what holds between a job row, its task row and the       *)
(* attempt rows, also when task commands have moved the task.  It is       *)
(* inductive together with the invariant of the task store.  Every step of *)
(* the queue itself leaves the job and the task it writes in agreement.    *)
(***************************************************************************)
USE DEF AttemptNo, AttemptState, TaskState, ClaimableStates, JobStatus, Waiting

\* A waiting job is not due before its task is, and one that waits for a retry
\* waits because its newest attempt failed: without the first the head of the
\* queue could be refused, without the second its run could have expired.
Projected(row, trow, rows) ==
    /\ trow.state \in StatesAfterCommands(row.status)
    /\ row.max_attempts = trow.max_attempts
    /\ row.attempt = trow.attempts_started
    /\ row.latest = trow.attempts_started
    /\ row.status = "running" => row.lease_until = rows[trow.active_attempt].lease_until
    /\ row.status \in Waiting => trow.next_run_at <= row.next_run_at
    /\ row.status = "retry" => rows[trow.attempts_started].state = "failed"

JobsTyped ==
    /\ job \in [Tasks -> JobRow]
    /\ mapped \subseteq Tasks
    /\ worker \in [Workers -> WorkerState]
    /\ purging \subseteq Tasks

\* The inductive invariant.
JobsIInv ==
    /\ IInv
    /\ JobsTyped
    /\ \A j \in mapped : Projected(job[j], task[j], attempt[j])

\* A job and its task are in states that correspond.
Agree(row, trow) == trow.state \in StatesOf(row.status)

AllAgree == \A j \in mapped : Agree(job[j], task[j])

\* What every step of the queue does.
StepKeeps == JobsIInv' /\ (AllAgree => AllAgree')

-----------------------------------------------------------------------------
(***************************************************************************)
(* What one transaction writes to a job and its task.                      *)
(***************************************************************************)
\* What the projection says of each state of a job.
LEMMA StatusStates ==
    ASSUME NEW row, NEW trow, NEW rows, row \in JobRow, Projected(row, trow, rows)
    PROVE  /\ row.status = "running" <=> trow.state = "running"
           /\ row.status \in Waiting => trow.state \in {"created", "retrying", "cancelled"}
           /\ row.status = "succeeded" <=> trow.state = "completed"
           /\ trow.state = "failed" => row.status = "dead"
           /\ trow.state = "created" => row.status = "queued"
           /\ row.status # "absent"
BY DEF Projected, StatesAfterCommands, StatesOf, JobRow

\* Rows that agree are projected as far as their states go.
LEMMA AgreeIsAllowed ==
    ASSUME NEW row, NEW trow, Agree(row, trow)
    PROVE  trow.state \in StatesAfterCommands(row.status)
BY DEF Agree, StatesAfterCommands

LEMMA DeadRow ==
    ASSUME NEW row \in JobRow
    PROVE  [row EXCEPT !.status = "dead", !.lease_until = 0] \in JobRow
BY DEF JobRow

\* submit(): a queued job and a created task.
LEMMA NewProjection ==
    ASSUME NEW budget \in AttemptNo, NEW now \in Nat, NEW rows
    PROVE  LET row == [NoJob EXCEPT !.status = "queued", !.max_attempts = budget,
                                    !.created_at = now, !.next_run_at = now]
           IN /\ row \in JobRow
              /\ Projected(row, NewTask(NoKey, budget, now), rows)
              /\ Agree(row, NewTask(NoKey, budget, now))
<1> DEFINE row == [NoJob EXCEPT !.status = "queued", !.max_attempts = budget,
                                !.created_at = now, !.next_run_at = now]
<1>1. /\ row.status = "queued" /\ row.max_attempts = budget /\ row.attempt = 0
      /\ row.latest = 0 /\ row.next_run_at = now
      /\ row \in JobRow
  <2>1. /\ NoJob \in JobRow
        /\ NoJob.attempt = 0
        /\ NoJob.latest = 0
    BY ConstantsOK DEF NoJob, JobRow
  <2>2. QED
    BY <2>1 DEF JobRow
<1> HIDE DEF row
<1>2. /\ Projected(row, NewTask(NoKey, budget, now), rows)
      /\ Agree(row, NewTask(NoKey, budget, now))
  BY <1>1 DEF Projected, Agree, NewTask, StatesAfterCommands, StatesOf
<1>3. QED
  BY <1>1, <1>2 DEF row

\* The claim of a waiting job: its task is prepared and started, and the job
\* takes over the number and the lease of the new attempt.
LEMMA ClaimProjection ==
    ASSUME NEW row, NEW trow, NEW rows, NEW now \in Nat,
           row \in JobRow, RowOK(trow, rows), Projected(row, trow, rows),
           row.status \in Waiting, trow.state # "cancelled"
    PROVE  LET next == trow.attempts_started + 1
               new == [row EXCEPT !.status = "running", !.attempt = @ + 1,
                                  !.lease_until = now + LeaseSeconds, !.latest = next]
               news == [rows EXCEPT ![next] = NewAttempt(trow, now)]
           IN /\ RowOK(Started(trow), news)
              /\ new \in JobRow
              /\ Projected(new, Started(trow), news)
              /\ Agree(new, Started(trow))
              /\ next \in AttemptNo
              /\ trow.state \in WaitingStates
              /\ trow.attempts_started < trow.max_attempts
<1> DEFINE next == trow.attempts_started + 1
           new == [row EXCEPT !.status = "running", !.attempt = @ + 1,
                              !.lease_until = now + LeaseSeconds, !.latest = next]
           news == [rows EXCEPT ![next] = NewAttempt(trow, now)]
<1>1. /\ trow.state \in {"created", "retrying"}
      /\ trow \in TaskRow
      /\ rows \in [AttemptNo -> AttemptRow]
  BY StatusStates DEF RowOK, Typed
<1>2. /\ trow.state \in WaitingStates
      /\ trow.attempts_started < trow.max_attempts
      /\ trow.active_attempt = 0
  BY <1>1 DEF RowOK, Budget, Activity, WaitingStates
<1>3. next \in AttemptNo /\ trow.max_attempts \in AttemptNo
  BY <1>1, <1>2, ConstantsOK DEF TaskRow
<1>4. RowOK(Started(trow), news)
  <2> DEFINE ready == Moved(trow, "ready")
  <2>1. RowOK(ready, rows)
    BY <1>1, <1>2, IdleMoveOK
  <2>2. /\ ready.state = "ready"
        /\ ready.attempts_started = trow.attempts_started
        /\ ready.max_attempts = trow.max_attempts
        /\ ready.current_fence = trow.current_fence
    BY <1>1 DEF Moved, TaskRow
  <2>3. Started(ready) = Started(trow)
    BY <1>1 DEF Started, Moved, TaskRow
  <2>4. NewAttempt(ready, now) = NewAttempt(trow, now)
    BY <2>2 DEF NewAttempt
  <2> HIDE DEF ready
  <2>5. QED
    BY <1>2, <2>1, <2>2, <2>3, <2>4, ClaimOK
<1>5. /\ Started(trow).state = "running"
      /\ Started(trow).active_attempt = next
      /\ Started(trow).attempts_started = next
      /\ Started(trow).max_attempts = trow.max_attempts
  BY <1>1 DEF Started, Moved, TaskRow
<1>6. news[next].lease_until = now + LeaseSeconds
  BY <1>1, <1>3 DEF NewAttempt
<1>7. /\ new.status = "running" /\ new.attempt = next /\ new.latest = next
      /\ new.lease_until = now + LeaseSeconds
      /\ new.max_attempts = trow.max_attempts
  BY DEF Projected, JobRow
<1>8. new \in JobRow
  <2>1. new = [row EXCEPT !.status = "running", !.attempt = next,
                          !.lease_until = now + LeaseSeconds, !.latest = next]
    BY DEF Projected, JobRow
  <2>2. next \in 0..MaxAttempts /\ now + LeaseSeconds \in Nat
    BY <1>3, ConstantsOK
  <2> HIDE DEF next, new
  <2>3. QED
    BY <2>1, <2>2 DEF JobRow
<1> HIDE DEF next, new, news
<1>9. Agree(new, Started(trow)) /\ Projected(new, Started(trow), news)
  BY <1>5, <1>6, <1>7, AgreeIsAllowed DEF Projected, Agree, StatesOf
<1>10. QED
  BY <1>2, <1>3, <1>4, <1>8, <1>9 DEF next, new, news

\* The end of the run of a job, by its worker or because its lease is over.
LEMMA EndProjection ==
    ASSUME NEW row, NEW trow, NEW rows, NEW to, NEW astate, NEW at \in Nat, NEW result,
           NEW next_run \in Nat,
           row \in JobRow, RowOK(trow, rows), Projected(row, trow, rows),
           row.status = "running",
           \/ to = "completed" /\ astate = "succeeded"
           \/ to = "failed" /\ astate \in {"failed", "expired"}
           \/ /\ to = "retrying"
              /\ astate = "failed"
              /\ trow.attempts_started < trow.max_attempts
              /\ next_run = at,
           result = IF to = "completed" THEN trow.active_attempt ELSE 0
    PROVE  LET news == [rows EXCEPT ![trow.active_attempt].state = astate]
               new == [row EXCEPT !.status = StatusOf(to), !.lease_until = 0,
                                  !.next_run_at = next_run]
               full == [Released(trow, to) EXCEPT !.next_run_at = at, !.result = result]
               timed == [Released(trow, to) EXCEPT !.next_run_at = at]
           IN /\ RowOK(full, news)
              /\ new \in JobRow
              /\ Projected(new, full, news)
              /\ Agree(new, full) /\ Agree(new, timed)
              /\ to # "completed" => RowOK(timed, news) /\ Projected(new, timed, news)
<1> DEFINE news == [rows EXCEPT ![trow.active_attempt].state = astate]
           new == [row EXCEPT !.status = StatusOf(to), !.lease_until = 0,
                              !.next_run_at = next_run]
           full == [Released(trow, to) EXCEPT !.next_run_at = at, !.result = result]
           timed == [Released(trow, to) EXCEPT !.next_run_at = at]
<1>1. /\ trow.state = "running"
      /\ trow \in TaskRow
      /\ rows \in [AttemptNo -> AttemptRow]
  BY StatusStates DEF RowOK, Typed
<1>2. RowOK(full, news) /\ (to # "completed" => RowOK(timed, news))
  BY <1>1, FinishOK
<1>3. /\ trow.active_attempt = trow.attempts_started
      /\ trow.active_attempt \in AttemptNo
  BY <1>1 DEF RowOK, Activity, TaskRow
<1>4. news[trow.attempts_started].state = astate
  BY <1>1, <1>3 DEF AttemptRow
<1>5. /\ StatusOf(to) \in {"succeeded", "retry", "dead"}
      /\ to \in StatesOf(StatusOf(to))
      /\ StatusOf(to) = "retry" <=> to = "retrying"
  BY DEF StatusOf, StatesOf
<1>6. /\ new \in JobRow
      /\ new.status = StatusOf(to)
      /\ new.next_run_at = next_run
      /\ new.max_attempts = row.max_attempts
      /\ new.attempt = row.attempt
      /\ new.latest = row.latest
  BY <1>5 DEF JobRow
<1>7. /\ full.state = to /\ timed.state = to
      /\ full.attempts_started = trow.attempts_started
      /\ timed.attempts_started = trow.attempts_started
      /\ full.max_attempts = trow.max_attempts
      /\ timed.max_attempts = trow.max_attempts
      /\ full.next_run_at = at /\ timed.next_run_at = at
  BY <1>1 DEF Released, Moved, TaskRow
<1> HIDE DEF news, new, full, timed
<1>8. Agree(new, full) /\ Agree(new, timed)
  BY <1>5, <1>6, <1>7 DEF Agree
<1>9. Projected(new, full, news) /\ Projected(new, timed, news)
  BY <1>4, <1>5, <1>6, <1>7, <1>8, AgreeIsAllowed DEF Projected
<1>10. QED
  BY <1>2, <1>6, <1>8, <1>9 DEF news, new, full, timed

-----------------------------------------------------------------------------
(***************************************************************************)
(* The inductive invariant.                                                *)
(***************************************************************************)
\* A step that writes the job, the task and the attempts of one identity.
LEMMA OneJobStep ==
    ASSUME JobsIInv, IInv', NEW j \in Tasks, NEW row \in JobRow,
           job' = [job EXCEPT ![j] = row],
           mapped' \subseteq mapped \cup {j},
           worker' \in [Workers -> WorkerState],
           purging' \subseteq Tasks,
           \A i \in Tasks \ {j} : task'[i] = task[i] /\ attempt'[i] = attempt[i],
           j \in mapped' => /\ Projected(row, task'[j], attempt'[j])
                            /\ Agree(row, task'[j])
    PROVE  StepKeeps
<1>1. JobsTyped'
  BY DEF JobsIInv, JobsTyped
<1>2. ASSUME NEW i \in mapped' PROVE Projected(job'[i], task'[i], attempt'[i])
  <2>1. CASE i = j
    BY <2>1 DEF JobsIInv, JobsTyped
  <2>2. CASE i # j
    BY <1>2, <2>2 DEF JobsIInv, JobsTyped
  <2>3. QED
    BY <2>1, <2>2
<1>3. ASSUME AllAgree, NEW i \in mapped' PROVE Agree(job'[i], task'[i])
  <2>1. CASE i = j
    BY <1>3, <2>1 DEF JobsIInv, JobsTyped
  <2>2. CASE i # j
    BY <1>3, <2>2 DEF AllAgree, JobsIInv, JobsTyped
  <2>3. QED
    BY <2>1, <2>2
<1>4. QED
  BY <1>1, <1>2, <1>3 DEF JobsIInv, AllAgree, StepKeeps

\* A step of a worker or a purge that writes neither a job nor a task.
LEMMA NoJobStep ==
    ASSUME JobsIInv, UNCHANGED <<vars, job, mapped>>,
           worker' \in [Workers -> WorkerState],
           purging' \subseteq Tasks
    PROVE  StepKeeps
BY DEF StepKeeps, AllAgree, JobsIInv, JobsTyped, IInv, vars

LEMMA JobsInitIInv == JobsInit => JobsIInv /\ AllAgree
<1> SUFFICES ASSUME JobsInit PROVE JobsIInv /\ AllAgree
  OBVIOUS
<1>1. IInv
  BY InitIInv DEF JobsInit
<1>2. JobsTyped
  <2>1. NoJob \in JobRow
    BY ConstantsOK DEF NoJob, JobRow
  <2>2. [NoJob EXCEPT !.status = "queued"] \in JobRow
    BY <2>1 DEF JobRow
  <2>3. [NoJob EXCEPT !.status = "running", !.attempt = 1,
                      !.lease_until = LeaseSeconds] \in JobRow
    <3>1. 1 \in 0..MaxAttempts /\ LeaseSeconds \in Nat
      BY ConstantsOK
    <3>2. QED
      BY <2>1, <3>1 DEF JobRow
  <2>4. Idle \in WorkerState
    BY DEF WorkerState
  <2>5. QED
    BY <2>1, <2>2, <2>3, <2>4 DEF JobsInit, JobsTyped
<1>3. QED
  BY <1>1, <1>2 DEF JobsInit, JobsIInv, AllAgree

\* submit().
LEMMA SubmitJobStep ==
    ASSUME JobsIInv, NEW j \in Tasks, NEW requested \in 0..MaxAttempts, NEW now \in Nat,
           SubmitJob(j, requested, now)
    PROVE  StepKeeps /\ Submit(j, NoKey, BudgetFor(requested), now)
<1> DEFINE row == [NoJob EXCEPT !.status = "queued", !.max_attempts = BudgetFor(requested),
                                !.created_at = now, !.next_run_at = now]
<1>1. BudgetFor(requested) \in AttemptNo
  BY ConstantsOK DEF BudgetFor
<1>2. Submit(j, NoKey, BudgetFor(requested), now)
  BY DEF SubmitJob, Submit, vars
<1>3. IInv'
  BY <1>1, <1>2, SubmitStep DEF JobsIInv
<1>4. /\ task' = [task EXCEPT ![j] = NewTask(NoKey, BudgetFor(requested), now)]
      /\ attempt' = attempt
      /\ job' = [job EXCEPT ![j] = row]
      /\ mapped' = mapped \cup {j}
      /\ worker' = worker /\ purging' = purging
  BY DEF SubmitJob
<1>5. /\ row \in JobRow
      /\ Projected(row, NewTask(NoKey, BudgetFor(requested), now), attempt[j])
      /\ Agree(row, NewTask(NoKey, BudgetFor(requested), now))
  BY <1>1, NewProjection
<1> HIDE DEF row
<1>6. task'[j] = NewTask(NoKey, BudgetFor(requested), now)
      /\ \A i \in Tasks \ {j} : task'[i] = task[i]
  BY <1>4 DEF JobsIInv, IInv
<1>7. StepKeeps
  BY <1>3, <1>4, <1>5, <1>6, OneJobStep DEF JobsIInv, JobsTyped
<1>8. QED
  BY <1>2, <1>7

\* The job and the task rows that an overdue job leaves, when it is mapped.
LEMMA OverdueIsLapsed ==
    ASSUME JobsIInv, NEW now \in Nat
    PROVE  /\ Lapsed(now) = Overdue(now) \cap mapped
           /\ \A j \in Overdue(now) : StaleStatus(j) = "dead"
<1>1. ASSUME NEW j \in Overdue(now) \cap mapped
      PROVE  j \in Lapsed(now) /\ task[j].state = "running"
  <2>1. /\ j \in Tasks
        /\ job[j].status = "running" /\ job[j].lease_until < now
        /\ Projected(job[j], task[j], attempt[j])
        /\ job[j] \in JobRow
        /\ RowOK(task[j], attempt[j])
    BY DEF Overdue, JobsIInv, JobsTyped, IInv
  <2>2. task[j].state = "running"
    BY <2>1, StatusStates
  <2>3. QED
    BY <2>1, <2>2 DEF Lapsed, RowOK, Activity, Projected
<1>2. QED
  BY <1>1 DEF Lapsed, StaleStatus

\* _recover_stale(): what a job whose lease is over and its task become.
LEMMA RecoverStaleStep ==
    ASSUME JobsIInv, NEW w \in Workers, NEW now \in Nat, RecoverStale(w, now)
    PROVE  StepKeeps
<1>1. /\ task \in [Tasks -> TaskRow]
      /\ job \in [Tasks -> JobRow]
      /\ mapped \subseteq Tasks
      /\ \A j \in Tasks : RowOK(task[j], attempt[j])
  BY DEF JobsIInv, JobsTyped, IInv
<1>2. \A j \in Tasks :
        /\ task'[j] = IF j \in Lapsed(now)
                      THEN [Released(task[j], "failed") EXCEPT !.next_run_at = now]
                      ELSE task[j]
        /\ attempt'[j] = IF j \in Lapsed(now)
                         THEN [attempt[j] EXCEPT ![task[j].active_attempt].state = "expired"]
                         ELSE attempt[j]
        /\ job'[j] = IF j \in Overdue(now)
                     THEN [job[j] EXCEPT !.status = StaleStatus(j), !.lease_until = 0]
                     ELSE job[j]
  BY DEF RecoverStale
<1>3. ASSUME NEW j \in Tasks
      PROVE  /\ RowOK(task'[j], attempt'[j])
             /\ job'[j] \in JobRow
             /\ j \in mapped => /\ Projected(job'[j], task'[j], attempt'[j])
                                /\ Agree(job[j], task[j]) => Agree(job'[j], task'[j])
  <2>1. CASE j \in Lapsed(now)
    <3>1. /\ j \in Overdue(now) /\ j \in mapped
          /\ job[j].status = "running"
          /\ StaleStatus(j) = "dead"
      BY <2>1, OverdueIsLapsed DEF Overdue
    <3>2. Projected(job[j], task[j], attempt[j])
      BY <3>1 DEF JobsIInv
    <3> DEFINE new == [job[j] EXCEPT !.status = StatusOf("failed"), !.lease_until = 0,
                                     !.next_run_at = job[j].next_run_at]
               timed == [Released(task[j], "failed") EXCEPT !.next_run_at = now]
               news == [attempt[j] EXCEPT ![task[j].active_attempt].state = "expired"]
    <3>3. job[j].next_run_at \in Nat
      BY <1>1 DEF JobRow
    <3>4. /\ RowOK(timed, news) /\ new \in JobRow
          /\ Projected(new, timed, news) /\ Agree(new, timed)
      BY <1>1, <3>1, <3>2, <3>3, EndProjection
    <3>5. job'[j] = new
      <4>1. job'[j] = [job[j] EXCEPT !.status = "dead", !.lease_until = 0]
        BY <1>2, <3>1
      <4>2. StatusOf("failed") = "dead"
        BY DEF StatusOf
      <4>3. QED
        BY <1>1, <4>1, <4>2 DEF JobRow
    <3>6. task'[j] = timed /\ attempt'[j] = news
      BY <1>2, <2>1
    <3> HIDE DEF new, timed, news
    <3>7. QED
      BY <3>4, <3>5, <3>6
  <2>2. CASE j \notin Lapsed(now)
    <3>1. RowOK(task'[j], attempt'[j])
      BY <1>1, <1>2, <2>2
    <3>2. CASE j \in Overdue(now)
      <4>1. j \notin mapped /\ StaleStatus(j) = "dead"
        BY <2>2, <3>2, OverdueIsLapsed
      <4>2. job'[j] = [job[j] EXCEPT !.status = "dead", !.lease_until = 0]
        BY <1>2, <3>2, <4>1
      <4>3. job'[j] \in JobRow
        BY <1>1, <4>2, DeadRow
      <4>4. QED
        BY <3>1, <4>1, <4>3
    <3>3. CASE j \notin Overdue(now)
      BY <1>1, <1>2, <2>2, <3>1, <3>3 DEF JobsIInv
    <3>4. QED
      BY <3>2, <3>3
  <2>3. QED
    BY <2>1, <2>2
<1>4. IInv'
  <2>1. \A j \in Tasks : task'[j] \in TaskRow /\ attempt'[j] \in [AttemptNo -> AttemptRow]
    BY <1>3 DEF RowOK, Typed
  <2>2. clock' \in Nat
    BY DEF RecoverStale, JobsIInv, IInv
  <2>3. task' \in [Tasks -> TaskRow] /\ attempt' \in [Tasks -> [AttemptNo -> AttemptRow]]
    BY <2>1 DEF RecoverStale
  <2>4. QED
    BY <1>3, <2>2, <2>3 DEF IInv
<1>5. JobsTyped'
  <2>1. job' \in [Tasks -> JobRow]
    BY <1>3 DEF RecoverStale
  <2>2. Claiming \in WorkerState
    BY DEF WorkerState
  <2>3. QED
    BY <2>1, <2>2 DEF RecoverStale, JobsIInv, JobsTyped
<1>6. mapped' = mapped
  BY DEF RecoverStale
<1>7. AllAgree => AllAgree'
  BY <1>1, <1>3, <1>6 DEF AllAgree
<1>8. QED
  BY <1>1, <1>3, <1>4, <1>5, <1>6, <1>7 DEF JobsIInv, StepKeeps

\* The rest of a worker's cycle.
LEMMA WorkerStays ==
    ASSUME JobsIInv, NEW w \in Workers
    PROVE  /\ [worker EXCEPT ![w] = Idle] \in [Workers -> WorkerState]
           /\ \A j \in Tasks, n \in AttemptNo :
                [worker EXCEPT ![w] = RunningJob(j, n)] \in [Workers -> WorkerState]
           /\ worker[w].at = "run" => worker[w].job \in Tasks /\ worker[w].n \in AttemptNo
<1>1. worker \in [Workers -> WorkerState]
  BY DEF JobsIInv, JobsTyped
<1>2. Idle \in WorkerState /\ \A j \in Tasks, n \in AttemptNo : RunningJob(j, n) \in WorkerState
  BY DEF WorkerState
<1>3. worker[w].at = "run" => \E j \in Tasks, n \in AttemptNo : worker[w] = RunningJob(j, n)
  BY <1>1 DEF WorkerState, Idle, Claiming
<1>4. QED
  BY <1>1, <1>2, <1>3 DEF RunningJob

\* The claim of the job at the head, quarantine of a job without a task included.
LEMMA ClaimNextStep ==
    ASSUME JobsIInv, NEW w \in Workers, NEW now \in Nat, ClaimNext(w, now)
    PROVE  StepKeeps
<1>1. /\ task \in [Tasks -> TaskRow]
      /\ attempt \in [Tasks -> [AttemptNo -> AttemptRow]]
      /\ job \in [Tasks -> JobRow]
      /\ mapped \subseteq Tasks /\ purging \subseteq Tasks
      /\ \A j \in Tasks : RowOK(task[j], attempt[j])
  BY DEF JobsIInv, JobsTyped, IInv
<1>2. CASE worker' = [worker EXCEPT ![w] = Idle] /\ UNCHANGED <<vars, job, mapped, purging>>
  BY <1>1, <1>2, WorkerStays, NoJobStep
<1>3. ASSUME NEW j \in Heads(now), Quarantine(w, j)
      PROVE  StepKeeps
  <2>1. j \in Tasks /\ job[j] \in JobRow
    BY <1>1 DEF Heads, Due
  <2>2. [job[j] EXCEPT !.status = "dead"] \in JobRow
    BY <2>1 DEF JobRow
  <2>3. job' = [job EXCEPT ![j] = [job[j] EXCEPT !.status = "dead"]]
    BY <1>1, <1>3 DEF Quarantine
  <2>4. IInv' /\ UNCHANGED <<vars, mapped, purging>>
    BY <1>3 DEF Quarantine, JobsIInv, IInv, vars
  <2>5. QED
    BY <1>1, <1>3, <2>1, <2>2, <2>3, <2>4, WorkerStays, OneJobStep DEF Quarantine, vars
<1>4. ASSUME NEW j \in Heads(now), ClaimJob(w, j, now)
      PROVE  StepKeeps
  <2> DEFINE next == task[j].attempts_started + 1
             new == [job[j] EXCEPT !.status = "running", !.attempt = @ + 1,
                                   !.lease_until = now + LeaseSeconds, !.latest = next]
             rows == [attempt[j] EXCEPT ![next] = NewAttempt(task[j], now)]
  <2>1. /\ j \in Tasks /\ j \in mapped
        /\ job[j] \in JobRow
        /\ job[j].status \in Waiting
        /\ RowOK(task[j], attempt[j])
        /\ Projected(job[j], task[j], attempt[j])
        /\ task[j].state # "cancelled"
    BY <1>1, <1>4 DEF Heads, Due, ClaimJob, TypedClaimable, Preparable, JobsIInv
  <2>2. /\ RowOK(Started(task[j]), rows)
        /\ new \in JobRow
        /\ Projected(new, Started(task[j]), rows)
        /\ Agree(new, Started(task[j]))
        /\ next \in AttemptNo
    BY <2>1, ClaimProjection
  <2>3. /\ task' = [task EXCEPT ![j] = Started(task[j])]
        /\ attempt' = [attempt EXCEPT ![j] = rows]
        /\ job' = [job EXCEPT ![j] = new]
        /\ worker' = [worker EXCEPT ![w] = RunningJob(j, next)]
        /\ clock' = clock /\ mapped' = mapped /\ purging' = purging
    <3>1. attempt' = [attempt EXCEPT ![j] = rows]
      BY <1>1, <1>4, <2>1 DEF ClaimJob
    <3>2. job' = [job EXCEPT ![j] = new]
      BY <1>1, <1>4, <2>1 DEF ClaimJob, JobRow
    <3> HIDE DEF rows, new
    <3>3. QED
      BY <1>4, <3>1, <3>2 DEF ClaimJob
  <2> HIDE DEF new, rows, next
  <2>4. IInv'
    BY <2>1, <2>2, <2>3, OneTaskStep DEF JobsIInv
  <2>5. /\ task'[j] = Started(task[j]) /\ attempt'[j] = rows
        /\ \A i \in Tasks \ {j} : task'[i] = task[i] /\ attempt'[i] = attempt[i]
    BY <1>1, <2>1, <2>3
  <2>6. worker' \in [Workers -> WorkerState]
    BY <2>1, <2>2, <2>3, WorkerStays
  <2>7. QED
    BY <1>1, <2>1, <2>2, <2>3, <2>4, <2>5, <2>6, OneJobStep
<1>5. QED
  BY <1>2, <1>3, <1>4 DEF ClaimNext, NothingDue, ClaimRefused

\* The completion of a run by the worker that still holds it.
LEMMA CompleteStep ==
    ASSUME JobsIInv, NEW w \in Workers, NEW success \in BOOLEAN, NEW transient \in BOOLEAN,
           NEW d \in Backoffs, NEW now \in Nat, Complete(w, success, transient, d, now)
    PROVE  /\ StepKeeps
           /\ \E j \in Tasks, to \in {"completed", "retrying", "failed"} : \E row :
                /\ task[j].state = "running"
                /\ task' = [task EXCEPT ![j] = row]
                /\ row.state = to
                /\ row.attempts_started = task[j].attempts_started
<1> DEFINE j == worker[w].job
           n == worker[w].n
           retryable == ~success /\ transient /\ n < job[j].max_attempts
           next_run == IF retryable THEN now + d ELSE now
           to == IF success THEN "completed" ELSE FailureTarget(task[j], retryable)
           astate == IF success THEN "succeeded" ELSE "failed"
           result == IF success THEN n ELSE 0
           new == [job[j] EXCEPT !.status = StatusOf(to), !.lease_until = 0,
                                 !.next_run_at = next_run]
           row == [Released(task[j], to) EXCEPT !.next_run_at = next_run, !.result = result]
           rows == [attempt[j] EXCEPT ![n].state = astate]
<1>1. /\ task \in [Tasks -> TaskRow]
      /\ attempt \in [Tasks -> [AttemptNo -> AttemptRow]]
      /\ job \in [Tasks -> JobRow]
      /\ mapped \subseteq Tasks /\ purging \subseteq Tasks
      /\ \A i \in Tasks : RowOK(task[i], attempt[i])
  BY DEF JobsIInv, JobsTyped, IInv
<1>2. j \in Tasks /\ n \in AttemptNo
  BY WorkerStays DEF Complete
<1>3. /\ task' = [task EXCEPT ![j] = row]
      /\ attempt' = Finished(j, n, astate)
      /\ job' = [job EXCEPT ![j] = new]
      /\ worker' = [worker EXCEPT ![w] = Idle]
      /\ clock' = clock /\ mapped' = mapped /\ purging' = purging
      /\ Accepted(j, n, now)
  BY <1>1, <1>2 DEF Complete, vars
<1>4. /\ j \in mapped
      /\ job[j].status = "running"
      /\ job[j] \in JobRow
      /\ task[j].state = "running"
      /\ task[j].active_attempt = n
      /\ task[j] \in TaskRow
      /\ RowOK(task[j], attempt[j])
      /\ Projected(job[j], task[j], attempt[j])
  BY <1>1, <1>2, <1>3 DEF Accepted, LeaseValid, JobsIInv
<1>5. next_run \in Nat
  BY ConstantsOK
<1>6. \/ to = "completed" /\ astate = "succeeded" /\ result = n
      \/ to = "failed" /\ astate = "failed" /\ result = 0
      \/ /\ to = "retrying" /\ astate = "failed" /\ result = 0
         /\ task[j].attempts_started < task[j].max_attempts
  BY DEF FailureTarget
<1>7. attempt' = [attempt EXCEPT ![j] = rows]
  BY <1>1, <1>2, <1>3 DEF Finished
<1> HIDE DEF j, n, retryable, next_run, to, astate, result
<1>8. /\ RowOK(row, rows) /\ new \in JobRow
      /\ Projected(new, row, rows) /\ Agree(new, row)
  BY <1>4, <1>5, <1>6, EndProjection
<1>9. row.state = to /\ row.attempts_started = task[j].attempts_started
  BY <1>4 DEF Released, Moved, TaskRow
<1> HIDE DEF new, row, rows
<1>10. IInv'
  BY <1>2, <1>3, <1>7, <1>8, OneTaskStep DEF JobsIInv
<1>11. /\ task'[j] = row /\ attempt'[j] = rows
       /\ \A i \in Tasks \ {j} : task'[i] = task[i] /\ attempt'[i] = attempt[i]
  BY <1>1, <1>2, <1>3, <1>7
<1>12. StepKeeps
  BY <1>1, <1>2, <1>3, <1>8, <1>10, <1>11, WorkerStays, OneJobStep
<1>13. QED
  BY <1>2, <1>3, <1>4, <1>6, <1>9, <1>12

\* The operator's commands on jobs.
LEMMA CancelStep ==
    ASSUME JobsIInv, NEW j \in Tasks, JobCancel(j)
    PROVE  /\ StepKeeps
           /\ \/ UNCHANGED <<task, attempt>>
              \/ /\ task[j].state \notin {"completed", "cancelled"}
                 /\ task' = [task EXCEPT ![j] = Released(@, "cancelled")]
<1> DEFINE new == [job[j] EXCEPT !.status = "cancelled"]
<1>1. /\ job[j] \in JobRow
      /\ RowOK(task[j], attempt[j])
      /\ task \in [Tasks -> TaskRow] /\ task[j] \in TaskRow
      /\ attempt \in [Tasks -> [AttemptNo -> AttemptRow]]
  BY DEF JobsIInv, JobsTyped, IInv
<1>2. /\ job' = [job EXCEPT ![j] = new]
      /\ mapped' = mapped /\ worker' = worker /\ purging' = purging
      /\ clock' = clock /\ attempt' = attempt
  BY DEF JobCancel, JobsIInv, JobsTyped
<1>3. /\ new \in JobRow /\ new.status = "cancelled"
      /\ new.max_attempts = job[j].max_attempts
      /\ new.attempt = job[j].attempt
      /\ new.latest = job[j].latest
  BY <1>1 DEF JobRow
<1> HIDE DEF new
<1>4. CASE j \notin mapped
  <2>1. task' = task
    BY <1>4 DEF JobCancel
  <2>2. IInv'
    BY <1>2, <2>1 DEF JobsIInv, IInv
  <2>3. StepKeeps
    BY <1>2, <1>3, <1>4, <2>1, <2>2, OneJobStep DEF JobsIInv, JobsTyped
  <2>4. QED
    BY <1>2, <2>1, <2>3
<1>5. CASE j \in mapped
  <2>1. /\ task' = [task EXCEPT ![j] = Released(task[j], "cancelled")]
        /\ job[j].status \in Waiting
        /\ task[j].active_attempt = 0
        /\ Projected(job[j], task[j], attempt[j])
    BY <1>5 DEF JobCancel, JobsIInv
  <2>2. task[j].state \in {"created", "retrying"}
    BY <1>1, <1>5, <2>1, StatusStates DEF JobCancel
  <2>3. RowOK(Released(task[j], "cancelled"), attempt[j])
    BY <1>1, <2>1, <2>2, IdleMoveOK DEF WaitingStates
  <2>4. attempt' = [attempt EXCEPT ![j] = attempt[j]]
    BY <1>1, <1>2
  <2>5. IInv'
    BY <1>2, <2>1, <2>3, <2>4, OneTaskStep DEF JobsIInv
  <2>6. /\ Released(task[j], "cancelled").state = "cancelled"
        /\ Released(task[j], "cancelled").attempts_started = task[j].attempts_started
        /\ Released(task[j], "cancelled").max_attempts = task[j].max_attempts
    BY <1>1 DEF Released, Moved, TaskRow
  <2>7. /\ Projected(new, Released(task[j], "cancelled"), attempt[j])
        /\ Agree(new, Released(task[j], "cancelled"))
    BY <1>3, <2>1, <2>6, AgreeIsAllowed DEF Projected, Agree, StatesOf
  <2>8. /\ task'[j] = Released(task[j], "cancelled") /\ attempt'[j] = attempt[j]
        /\ \A i \in Tasks \ {j} : task'[i] = task[i] /\ attempt'[i] = attempt[i]
    BY <1>1, <1>2, <2>1
  <2>9. StepKeeps
    BY <1>2, <1>3, <2>5, <2>7, <2>8, OneJobStep DEF JobsIInv, JobsTyped
  <2>10. QED
    BY <2>1, <2>2, <2>9
<1>6. QED
  BY <1>4, <1>5

LEMMA RetryStep ==
    ASSUME JobsIInv, NEW j \in Tasks, NEW now \in Nat, JobRetry(j, now)
    PROVE  StepKeeps /\ (UNCHANGED <<task, attempt>> \/ Retry(j, now))
<1> DEFINE new == IF job[j].status = "dead" THEN Requeued(job[j], now) ELSE job[j]
<1>1. /\ job \in [Tasks -> JobRow] /\ job[j] \in JobRow
      /\ task \in [Tasks -> TaskRow] /\ task[j] \in TaskRow
      /\ attempt \in [Tasks -> [AttemptNo -> AttemptRow]]
  BY DEF JobsIInv, JobsTyped, IInv
<1>2. /\ job' = [job EXCEPT ![j] = new]
      /\ mapped' = mapped /\ worker' = worker /\ purging' = purging
      /\ clock' = clock /\ attempt' = attempt
  BY DEF JobRetry
<1>3. /\ Requeued(job[j], now) \in JobRow
      /\ Requeued(job[j], now).status = "queued"
      /\ Requeued(job[j], now).next_run_at = now
      /\ Requeued(job[j], now).max_attempts = job[j].max_attempts
      /\ Requeued(job[j], now).attempt = job[j].attempt
      /\ Requeued(job[j], now).latest = job[j].latest
  BY <1>1 DEF JobRow, Requeued
<1>4. new \in JobRow
  BY <1>1, <1>3
<1>5. CASE j \notin mapped
  <2>1. task' = task
    BY <1>5 DEF JobRetry
  <2>2. IInv'
    BY <1>2, <2>1 DEF JobsIInv, IInv
  <2> HIDE DEF new
  <2>3. StepKeeps
    BY <1>2, <1>4, <1>5, <2>1, <2>2, OneJobStep DEF JobsIInv, JobsTyped
  <2>4. QED
    BY <1>2, <2>1, <2>3
<1>6. CASE j \in mapped
  <2> DEFINE row == [Moved(task[j], "retrying") EXCEPT !.next_run_at = now]
  <2>1. Retry(j, now)
    BY <1>6, <1>2 DEF JobRetry, Retry
  <2>2. IInv'
    BY <2>1, IdleStep DEF JobsIInv
  <2>3. /\ task' = [task EXCEPT ![j] = row]
        /\ task[j].state = "failed"
        /\ Projected(job[j], task[j], attempt[j])
    BY <1>6 DEF JobRetry, JobsIInv
  <2>4. new = Requeued(job[j], now)
    BY <1>1, <2>3, StatusStates
  <2>5. /\ row.state = "retrying" /\ row.next_run_at = now
        /\ row.attempts_started = task[j].attempts_started
        /\ row.max_attempts = task[j].max_attempts
    BY <1>1 DEF Moved, TaskRow
  <2> HIDE DEF new, row
  <2>6. Projected(new, row, attempt[j]) /\ Agree(new, row)
    BY <1>3, <2>3, <2>4, <2>5, AgreeIsAllowed DEF Projected, Agree, StatesOf
  <2>7. /\ task'[j] = row /\ attempt'[j] = attempt[j]
        /\ \A i \in Tasks \ {j} : task'[i] = task[i] /\ attempt'[i] = attempt[i]
    BY <1>1, <1>2, <2>3
  <2>8. StepKeeps
    BY <1>2, <1>4, <2>2, <2>6, <2>7, OneJobStep DEF JobsIInv, JobsTyped
  <2>9. QED
    BY <2>1, <2>8
<1>7. QED
  BY <1>5, <1>6

LEMMA PurgeStep ==
    ASSUME JobsIInv, NEW j \in Tasks, PurgeRead(j) \/ PurgeDelete(j)
    PROVE  StepKeeps /\ UNCHANGED <<task, attempt>>
<1>1. CASE PurgeRead(j)
  BY <1>1, NoJobStep DEF PurgeRead, JobsIInv, JobsTyped, vars
<1>2. CASE PurgeDelete(j)
  <2>1. NoJob \in JobRow
    BY ConstantsOK DEF NoJob, JobRow
  <2>2. IInv' /\ UNCHANGED <<task, attempt>>
    BY <1>2 DEF PurgeDelete, JobsIInv, IInv, vars
  <2>3. StepKeeps
    BY <1>2, <2>1, <2>2, OneJobStep DEF PurgeDelete, JobsIInv, JobsTyped
  <2>4. QED
    BY <2>2, <2>3
<1>3. QED
  BY <1>1, <1>2

\* recover_expired() over the tasks whose job was purged.
LEMMA OrphanStep ==
    ASSUME JobsIInv, NEW now \in Nat, RecoverExpired(Orphans, now),
           UNCHANGED <<job, mapped, worker, purging>>
    PROVE  StepKeeps
<1>1. Orphans \in SUBSET Tasks
  BY DEF Orphans
<1>2. IInv'
  BY <1>1, RecoverStep DEF JobsIInv
<1>3. \A j \in mapped : task'[j] = task[j] /\ attempt'[j] = attempt[j]
  BY DEF RecoverExpired, Expired, Orphans, JobsIInv, JobsTyped
<1>4. QED
  BY <1>2, <1>3 DEF StepKeeps, AllAgree, JobsIInv, JobsTyped

\* "harness task cancel" and "harness task retry" on the task of a job.
LEMMA TaskCommandStep ==
    ASSUME JobsIInv, NEW j \in Tasks, NEW now \in Nat,
           CancelIdle(j) \/ Retry(j, now),
           UNCHANGED <<job, mapped, worker, purging>>
    PROVE  JobsIInv'
<1>1. /\ IInv'
      /\ task[j] \in TaskRow
      /\ RowOK(task[j], attempt[j])
  BY IdleStep DEF JobsIInv, IInv
<1>2. /\ attempt' = attempt
      /\ \A i \in Tasks \ {j} : task'[i] = task[i]
      /\ task'[j].attempts_started = task[j].attempts_started
      /\ task'[j].max_attempts = task[j].max_attempts
      /\ \/ /\ task[j].state = "failed"
            /\ task'[j].state = "retrying"
         \/ /\ task[j].state \notin {"failed", "completed", "cancelled", "absent", "running"}
            /\ task'[j].state = "cancelled"
            /\ task'[j].next_run_at = task[j].next_run_at
  <2>1. CASE Retry(j, now)
    BY <1>1, <2>1 DEF Retry, Moved, TaskRow, JobsIInv, IInv
  <2>2. CASE CancelIdle(j)
    <3>1. task' = [task EXCEPT ![j] = Released(task[j], "cancelled")] /\ attempt' = attempt
      BY <2>2 DEF CancelIdle
    <3>2. task[j].state \notin {"failed", "completed", "cancelled", "absent", "running"}
      BY <1>1, <2>2 DEF CancelIdle, Exists, AllowedTransitions, TaskRow, RowOK, Activity
    <3>3. QED
      BY <1>1, <3>1, <3>2 DEF Released, Moved, TaskRow, JobsIInv, IInv
  <2>3. QED
    BY <2>1, <2>2
<1>3. ASSUME j \in mapped PROVE Projected(job[j], task'[j], attempt[j])
  <2>1. Projected(job[j], task[j], attempt[j]) /\ job[j] \in JobRow
    BY <1>3 DEF JobsIInv, JobsTyped
  <2>2. /\ task'[j].state \in StatesAfterCommands(job[j].status)
        /\ job[j].status # "running"
        /\ job[j].status \in Waiting => task'[j].next_run_at = task[j].next_run_at
    BY <1>2, <2>1 DEF Projected, StatesAfterCommands, StatesOf, JobRow
  <2>3. QED
    BY <1>2, <2>1, <2>2 DEF Projected
<1>4. ASSUME NEW i \in mapped PROVE Projected(job[i], task'[i], attempt[i])
  BY <1>2, <1>3, <1>4 DEF JobsIInv, JobsTyped
<1>5. QED
  BY <1>1, <1>2, <1>4 DEF JobsIInv, JobsTyped

LEMMA JobsNextIInv == JobsIInv /\ [JobsNext]_jobVars => StepKeeps
<1> SUFFICES ASSUME JobsIInv, [JobsNext]_jobVars PROVE StepKeeps
  OBVIOUS
<1>1. Stamps \subseteq Nat
  BY DEF Stamps, JobsIInv, IInv
<1>2. CASE JobsTick
  BY <1>2 DEF JobsTick, Tick, StepKeeps, AllAgree, JobsIInv, JobsTyped, IInv
<1>3. CASE RecoverOrphans
  BY <1>1, <1>3, OrphanStep DEF RecoverOrphans
<1>4. ASSUME NEW w \in Workers, WorkerStep(w) PROVE StepKeeps
  <2>1. PICK now \in Stamps :
          \/ RecoverStale(w, now)
          \/ ClaimNext(w, now)
          \/ \E success, transient \in BOOLEAN, d \in Backoffs :
                 Complete(w, success, transient, d, now)
          \/ StaleRejected(w, now)
    BY <1>4 DEF WorkerStep
  <2>2. CASE StaleRejected(w, now)
    BY <2>2, NoJobStep, WorkerStays DEF StaleRejected, JobsIInv, JobsTyped
  <2>3. QED
    BY <1>1, <2>1, <2>2, RecoverStaleStep, ClaimNextStep, CompleteStep
<1>5. ASSUME NEW w \in Workers, Crash(w) PROVE StepKeeps
  BY <1>5, NoJobStep, WorkerStays DEF Crash, JobsIInv, JobsTyped
<1>6. ASSUME NEW j \in Tasks, NEW now \in Stamps,
             \/ \E requested \in 0..MaxAttempts : SubmitJob(j, requested, now)
             \/ JobRetry(j, now)
      PROVE  StepKeeps
  BY <1>1, <1>6, SubmitJobStep, RetryStep
<1>7. ASSUME NEW j \in Tasks, JobCancel(j) \/ PurgeRead(j) \/ PurgeDelete(j)
      PROVE  StepKeeps
  BY <1>7, CancelStep, PurgeStep
<1>8. CASE UNCHANGED jobVars
  BY <1>8, NoJobStep DEF jobVars, JobsIInv, JobsTyped
<1>9. QED
  BY <1>2, <1>3, <1>4, <1>5, <1>6, <1>7, <1>8 DEF JobsNext

LEMMA CommandsNextIInv ==
    JobsIInv /\ [JobsNext \/ \E j \in Tasks : TaskCommand(j)]_jobVars => JobsIInv'
<1> SUFFICES ASSUME JobsIInv, [JobsNext \/ \E j \in Tasks : TaskCommand(j)]_jobVars
             PROVE  JobsIInv'
  OBVIOUS
<1>1. ASSUME NEW j \in Tasks, TaskCommand(j) PROVE JobsIInv'
  <2>1. PICK now \in Nat : CancelIdle(j) \/ Retry(j, now)
    BY <1>1 DEF TaskCommand, Stamps, JobsIInv, IInv
  <2>2. QED
    BY <1>1, <2>1, TaskCommandStep DEF TaskCommand
<1>2. CASE [JobsNext]_jobVars
  BY <1>2, JobsNextIInv DEF StepKeeps
<1>3. QED
  BY <1>1, <1>2

\* The invariant holds in every state of every behaviour, whichever task
\* commands the operator gives besides those on jobs.
THEOREM JobsInvariance == TaskCommandSpec => []JobsIInv
<1>1. QED
  BY JobsInitIInv, CommandsNextIInv, PTL DEF TaskCommandSpec

\* An operator need not give task commands.
LEMMA WithoutCommands == JobsSpec => TaskCommandSpec
<1>1. [JobsNext]_jobVars => [JobsNext \/ \E j \in Tasks : TaskCommand(j)]_jobVars
  OBVIOUS
<1>2. QED
  BY <1>1, PTL DEF JobsSpec, TaskCommandSpec

\* Without them the states of jobs and tasks correspond.
LEMMA JobsAgree == JobsSpec => [](JobsIInv /\ AllAgree)
<1>1. JobsIInv /\ AllAgree /\ [JobsNext]_jobVars => (JobsIInv /\ AllAgree)'
  BY JobsNextIInv DEF StepKeeps
<1>2. QED
  BY <1>1, JobsInitIInv, PTL DEF JobsSpec

-----------------------------------------------------------------------------
(***************************************************************************)
(* What follows from it.                                                   *)
(***************************************************************************)
\* The rows keep to their columns and the workers to their three places.
THEOREM JobsTypeCorrect == TaskCommandSpec => []JobsTypeOK
<1>1. JobsIInv => JobsTypeOK
  BY DEF JobsIInv, JobsTyped, IInv, JobsTypeOK, TypeOK
<1>2. QED
  BY <1>1, JobsInvariance, PTL

\* A job is a projection of its task, whatever workers, operators, purges and
\* recoveries interleave.
THEOREM Projection == JobsSpec => []ProjectionAgrees
<1>1. JobsIInv /\ AllAgree => ProjectionAgrees
  BY DEF JobsIInv, Projected, AllAgree, Agree, ProjectionAgrees
<1>2. QED
  BY <1>1, JobsAgree, PTL

\* With the task commands a job and its task still run together, under one
\* attempt and one lease, and end together.
THEOREM RunsAreSpared == TaskCommandSpec => []CommandsSpareRuns
<1>1. JobsIInv => CommandsSpareRuns
  BY DEF JobsIInv, Projected, CommandsSpareRuns
<1>2. QED
  BY <1>1, JobsInvariance, PTL

\* A waiting job whose task nobody cancelled can be claimed.
LEMMA WaitingIsClaimable == JobsIInv => OnlyCancelledBlocks
<1> SUFFICES ASSUME JobsIInv, NEW j \in mapped, job[j].status \in Waiting,
                    task[j].state # "cancelled"
             PROVE  TypedClaimable(j, job[j].next_run_at)
  BY DEF OnlyCancelledBlocks
<1>1. /\ job[j] \in JobRow
      /\ RowOK(task[j], attempt[j])
      /\ Projected(job[j], task[j], attempt[j])
  BY DEF JobsIInv, JobsTyped, IInv
<1>2. task[j].state \in {"created", "retrying"}
  BY <1>1, StatusStates
<1>3. QED
  BY <1>1, <1>2 DEF TypedClaimable, Preparable, Projected, RowOK, Budget, WaitingStates

\* The job at the head of the queue can always be claimed, unless its task was
\* cancelled by a task command.
THEOREM HeadBlocked == TaskCommandSpec => []OnlyCancelledBlocks
<1>1. QED
  BY WaitingIsClaimable, JobsInvariance, PTL

\* The job at the head of the queue can always be claimed.
THEOREM HeadClaimable == JobsSpec => []HeadIsClaimable
<1>1. JobsIInv /\ AllAgree => HeadIsClaimable
  <2> SUFFICES ASSUME JobsIInv, AllAgree, NEW j \in mapped, job[j].status \in Waiting
               PROVE  TypedClaimable(j, job[j].next_run_at)
    BY DEF HeadIsClaimable
  <2>1. task[j].state # "cancelled"
    BY DEF AllAgree, Agree, StatesOf
  <2>2. QED
    BY <2>1, WaitingIsClaimable DEF OnlyCancelledBlocks
<1>2. QED
  BY <1>1, JobsAgree, PTL

\* A run whose lease ended waits for an operator, whichever commands he uses.
THEOREM ExpiredWaits == TaskCommandSpec => []ExpiredRunWaitsForOperator
<1>1. JobsIInv => ExpiredRunWaitsForOperator
  <2> SUFFICES ASSUME JobsIInv, NEW j \in mapped, task[j].attempts_started > 0,
                      attempt[j][task[j].attempts_started].state = "expired"
               PROVE  /\ job[j].status \in {"dead", "queued", "cancelled"}
                      /\ task[j].state # "recovering"
    BY DEF ExpiredRunWaitsForOperator
  <2>1. /\ job[j] \in JobRow
        /\ RowOK(task[j], attempt[j])
        /\ Projected(job[j], task[j], attempt[j])
    BY DEF JobsIInv, JobsTyped, IInv
  <2>2. task[j].state \notin {"running", "completed"}
    <3>1. task[j].attempts_started \in AttemptNo
      BY <2>1 DEF RowOK, Typed, TaskRow
    <3>2. QED
      BY <2>1, <3>1 DEF RowOK, Activity, Outcome, Last
  <2>3. job[j].status # "retry"
    BY <2>1 DEF Projected
  <2>4. QED
    BY <2>1, <2>2, <2>3 DEF Projected, StatesAfterCommands, StatesOf, JobRow
<1>2. QED
  BY <1>1, JobsInvariance, PTL

-----------------------------------------------------------------------------
(***************************************************************************)
(* The job queue implements TaskContract.                                  *)
(***************************************************************************)
\* _recover_stale() gives up the attempts of the jobs that lapsed.
LEMMA StaleLoses ==
    ASSUME JobsIInv, JobsIInv', NEW w \in Workers, NEW now \in Nat, RecoverStale(w, now)
    PROVE  \E batch \in SUBSET Tasks : Contract!Lose(batch)
<1>0. PICK batch \in SUBSET Tasks : batch = Lapsed(now)
  BY DEF Lapsed, Overdue
<1>1. /\ \A j \in batch : task[j].state = "running"
      /\ IInv /\ IInv'
  BY <1>0 DEF Lapsed, JobsIInv
<1>2. \A j \in Tasks :
        task'[j] = IF j \in batch
                   THEN [Released(task[j], "failed") EXCEPT !.next_run_at = now]
                   ELSE task[j]
  BY <1>0 DEF RecoverStale
<1>3. ASSUME NEW j \in batch
      PROVE  task'[j].state = "failed" /\ task'[j].attempts_started = task[j].attempts_started
  <2>1. task[j] \in TaskRow
    BY <1>1 DEF IInv
  <2>2. QED
    BY <1>1, <1>2, <2>1 DEF Released, Moved, TaskRow
<1>4. StoreShown /\ StoreShown'
  BY <1>1, StoreView, StoreViewAfter
<1>5. \A j \in batch : Running[j] # {}
  BY <1>1, <1>4 DEF StoreShown
<1>6. Running' = [j \in Tasks |-> IF j \in batch THEN {} ELSE Running[j]]
  BY <1>1, <1>2, <1>3, <1>4 DEF StoreShown
<1>7. \A j \in Tasks :
        /\ task'[j].attempts_started = task[j].attempts_started
        /\ \A s \in {"completed", "cancelled"} : task'[j].state = s <=> task[j].state = s
  BY <1>1, <1>2, <1>3
<1>8. Granted' = Granted /\ Withdrawn' = Withdrawn /\ Answered' = Answered
  BY <1>4, <1>7 DEF Granted, Withdrawn, StoreShown
<1>9. Contract!Lose(batch)
  BY <1>5, <1>6, <1>8 DEF Contract!Lose, Granted, Running, Answered, Withdrawn
<1>10. QED
  BY <1>9

\* Every step of the queue is a step of the contract or shows nothing.
LEMMA JobsContractStep ==
    ASSUME JobsIInv, JobsIInv', [JobsNext]_jobVars
    PROVE  Contract!Next \/ UNCHANGED <<Granted, Running, Answered, Withdrawn>>
<1> DEFINE Stutter == UNCHANGED <<Granted, Running, Answered, Withdrawn>>
<1>1. /\ Stamps \subseteq Nat
      /\ IInv /\ IInv'
      /\ task \in [Tasks -> TaskRow]
      /\ \A j \in Tasks : RowOK(task[j], attempt[j])
  BY DEF Stamps, JobsIInv, IInv
<1>2. UNCHANGED <<task, attempt>> => Stutter
  BY DEF Granted, Running, Answered, Withdrawn
<1>3. CASE RecoverOrphans
  <2>1. PICK now \in Stamps : RecoverExpired(Orphans, now)
    BY <1>3 DEF RecoverOrphans
  <2>2. Orphans \in SUBSET Tasks
    BY DEF Orphans
  <2>3. QED
    BY <1>1, <2>1, <2>2, RecoveryLoses DEF Contract!Next
<1>4. ASSUME NEW w \in Workers, NEW now \in Stamps, RecoverStale(w, now)
      PROVE  Contract!Next
  BY <1>1, <1>4, StaleLoses DEF Contract!Next
<1>5. ASSUME NEW w \in Workers, NEW now \in Stamps, ClaimNext(w, now)
      PROVE  Contract!Next \/ Stutter
  <2>1. CASE UNCHANGED <<task, attempt>>
    BY <1>2, <2>1
  <2>2. CASE ~UNCHANGED <<task, attempt>>
    <3>1. PICK j \in Heads(now) : ClaimJob(w, j, now)
      BY <1>5, <2>2 DEF ClaimNext, NothingDue, ClaimRefused, Quarantine, vars
    <3>2. /\ j \in Tasks
          /\ job[j].status \in Waiting
          /\ job[j] \in JobRow
          /\ Projected(job[j], task[j], attempt[j])
          /\ task[j].state # "cancelled"
      BY <3>1 DEF Heads, Due, ClaimJob, TypedClaimable, Preparable, JobsIInv, JobsTyped
    <3>3. task[j].state \in WaitingStates /\ task[j].attempts_started < task[j].max_attempts
      BY <1>1, <3>2, ClaimProjection
    <3>4. task' = [task EXCEPT ![j] = Started(@)]
      BY <3>1 DEF ClaimJob
    <3>5. Contract!Grant(j)
      BY <1>1, <3>2, <3>3, <3>4, ClaimGrants
    <3>6. QED
      BY <3>2, <3>5 DEF Contract!Next
  <2>3. QED
    BY <2>1, <2>2
<1>6. ASSUME NEW w \in Workers, NEW now \in Stamps, NEW success \in BOOLEAN,
             NEW transient \in BOOLEAN, NEW d \in Backoffs,
             Complete(w, success, transient, d, now)
      PROVE  Contract!Next
  <2>1. PICK j \in Tasks, to \in {"completed", "retrying", "failed"} :
          \E row : /\ task[j].state = "running"
                   /\ task' = [task EXCEPT ![j] = row]
                   /\ row.state = to
                   /\ row.attempts_started = task[j].attempts_started
    BY <1>1, <1>6, CompleteStep
  <2>2. PICK row : /\ task[j].state = "running"
                   /\ task' = [task EXCEPT ![j] = row]
                   /\ row.state = to
                   /\ row.attempts_started = task[j].attempts_started
    BY <2>1
  <2>3. IF to = "completed" THEN Contract!Answer(j) ELSE Contract!Lose({j})
    BY <1>1, <2>2, CompleteAnswersOrLoses
  <2>4. {j} \in SUBSET Tasks
    OBVIOUS
  <2>5. QED
    BY <2>3, <2>4 DEF Contract!Next
<1>7. ASSUME NEW j \in Tasks, NEW now \in Stamps, NEW requested \in 0..MaxAttempts,
             SubmitJob(j, requested, now)
      PROVE  Stutter
  <2> DEFINE row == NewTask(NoKey, BudgetFor(requested), now)
  <2>1. row.attempts_started = 0 /\ row.state = "created"
    BY DEF NewTask
  <2>2. task[j].state = "absent" /\ task[j].attempts_started = 0
    BY <1>1, <1>7 DEF SubmitJob, Exists, RowOK, Budget
  <2>3. task' = [task EXCEPT ![j] = row]
    BY <1>7 DEF SubmitJob
  <2> HIDE DEF row
  <2>4. QED
    BY <1>1, <2>1, <2>2, <2>3, QuietStep
<1>8. ASSUME NEW j \in Tasks, NEW now \in Stamps, JobRetry(j, now)
      PROVE  Stutter
  <2> DEFINE row == [Moved(task[j], "retrying") EXCEPT !.next_run_at = now]
  <2>1. CASE Retry(j, now)
    <3>1. /\ row.state = "retrying" /\ task[j].state = "failed"
          /\ row.attempts_started = task[j].attempts_started
      BY <1>1, <2>1 DEF Retry, Moved, TaskRow
    <3>2. task' = [task EXCEPT ![j] = row]
      BY <2>1 DEF Retry
    <3> HIDE DEF row
    <3>3. QED
      BY <1>1, <3>1, <3>2, QuietStep
  <2>2. QED
    BY <1>1, <1>2, <1>8, <2>1, RetryStep
<1>9. ASSUME NEW j \in Tasks, JobCancel(j)
      PROVE  Contract!Next \/ Stutter
  BY <1>1, <1>2, <1>9, CancelStep, CancelWithdraws DEF Contract!Next
<1>10. ASSUME NEW j \in Tasks, PurgeRead(j) \/ PurgeDelete(j)
       PROVE  Stutter
  BY <1>2, <1>10, PurgeStep
<1>11. CASE JobsTick \/ UNCHANGED jobVars \/ (\E w \in Workers : Crash(w))
  BY <1>2, <1>11 DEF JobsTick, Tick, jobVars, vars, Crash
<1>12. ASSUME NEW w \in Workers, NEW now \in Stamps, StaleRejected(w, now)
       PROVE  Stutter
  BY <1>2, <1>12 DEF StaleRejected, vars
<1>13. QED
  BY <1>3, <1>4, <1>5, <1>6, <1>7, <1>8, <1>9, <1>10, <1>11, <1>12 DEF JobsNext, WorkerStep

\* So is a task command.
LEMMA CommandsContractStep ==
    ASSUME JobsIInv, JobsIInv', NEW j \in Tasks, TaskCommand(j)
    PROVE  Contract!Next \/ UNCHANGED <<Granted, Running, Answered, Withdrawn>>
<1>1. /\ IInv /\ IInv'
      /\ task[j] \in TaskRow
  BY DEF JobsIInv, IInv
<1>2. CASE CancelIdle(j)
  <2>1. /\ task[j].state \notin {"completed", "cancelled"}
        /\ task' = [task EXCEPT ![j] = Released(@, "cancelled")]
    BY <1>1, <1>2 DEF CancelIdle, AllowedTransitions, TaskRow
  <2>2. QED
    BY <1>1, <2>1, CancelWithdraws DEF Contract!Next
<1>3. ASSUME NEW now, Retry(j, now)
      PROVE  UNCHANGED <<Granted, Running, Answered, Withdrawn>>
  <2> DEFINE row == [Moved(task[j], "retrying") EXCEPT !.next_run_at = now]
  <2>1. /\ row.state = "retrying" /\ task[j].state = "failed"
        /\ row.attempts_started = task[j].attempts_started
    BY <1>1, <1>3 DEF Retry, Moved, TaskRow
  <2>2. task' = [task EXCEPT ![j] = row]
    BY <1>3 DEF Retry
  <2> HIDE DEF row
  <2>3. QED
    BY <1>1, <2>1, <2>2, QuietStep
<1>4. QED
  BY <1>2, <1>3 DEF TaskCommand

\* Seen through its typed tasks the job queue keeps the task contract, also when
\* the operator gives commands on the tasks themselves.
THEOREM JobsRefinement == TaskCommandSpec => JobsImplementContract
<1>1. JobsInit => Contract!Init
  <2> SUFFICES ASSUME JobsInit PROVE Contract!Init
    OBVIOUS
  <2>1. /\ \A j \in Tasks : task[j] = NoTask
        /\ \A j \in Tasks : \A n \in AttemptNo : attempt[j][n] = NoAttempt
    BY DEF JobsInit, Init
  <2>2. QED
    BY <2>1 DEF Contract!Init, NoTask, NoAttempt
<1>2. JobsIInv /\ JobsIInv' /\ [JobsNext \/ \E j \in Tasks : TaskCommand(j)]_jobVars
      => [Contract!Next]_(Contract!vars)
  BY JobsContractStep, CommandsContractStep DEF Contract!vars, Granted, Running, Answered, Withdrawn
<1>3. QED
  BY <1>1, <1>2, JobsInvariance, PTL
  DEF TaskCommandSpec, JobsImplementContract, ImplementsContract, Contract!Spec

=============================================================================
