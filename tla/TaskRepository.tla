--------------------------- MODULE TaskRepository ---------------------------
(***************************************************************************)
(* The typed task store of harness2/kernel/tasks.py: the tables            *)
(* kernel_tasks and kernel_task_attempts and the operations of class       *)
(* TaskRepository on them.                                                 *)
(*                                                                         *)
(* Every operation is one BEGIN IMMEDIATE transaction, so it is one action *)
(* here; an operation that raises rolls back, so its failing branches are  *)
(* steps that do not exist.  Callers are left as free as the interface     *)
(* leaves them: any lease that was ever handed out may be presented again  *)
(* at any time (a worker that was slow, was paused, or whose attempt was   *)
(* taken from it), and an operation reads time.time() before it waits for  *)
(* the database lock, so the timestamp it works with may be old when its   *)
(* transaction runs.                                                       *)
(***************************************************************************)
EXTENDS Integers, FiniteSets

CONSTANTS
    Tasks,         \* task identities
    Keys,          \* idempotency keys
    NoKey,         \* the NULL idempotency key
    MaxAttempts,   \* largest attempt budget a submission asks for
    LeaseSeconds,  \* length of a lease
    Backoffs,      \* distances from now at which a caller may put retry_at
    LockWait,      \* longest wait between reading the clock and the transaction
    RecoverLimit,  \* rows recover_expired takes in one call
    MaxClock       \* bound: the clock stops here

ASSUME ConstantsOK ==
    /\ NoKey \notin Keys
    /\ MaxAttempts \in Nat \ {0}
    /\ LeaseSeconds \in Nat \ {0}
    /\ Backoffs \subseteq Nat
    /\ LockWait \in Nat
    /\ RecoverLimit \in Nat \ {0}
    /\ MaxClock \in Nat

VARIABLES
    clock,    \* wall-clock time
    task,     \* kernel_tasks, by task
    attempt   \* kernel_task_attempts, by task and attempt_no

vars == <<clock, task, attempt>>

-----------------------------------------------------------------------------
(***************************************************************************)
(* The task state machine.                                                 *)
(***************************************************************************)
TaskState == {"created", "planned", "ready", "running", "waiting",
              "verifying", "completed", "failed", "cancelled", "blocked",
              "retrying", "degraded", "recovering"}

AllowedTransitions ==
    [s \in TaskState |->
        CASE s = "created"    -> {"planned", "cancelled", "blocked"}
          [] s = "planned"    -> {"ready", "blocked", "cancelled"}
          [] s = "ready"      -> {"running", "cancelled", "blocked"}
          [] s = "running"    -> {"waiting", "degraded", "cancelled"}
          [] s = "waiting"    -> {"ready", "running", "cancelled", "blocked"}
          [] s = "verifying"  -> {"degraded"}
          [] s = "retrying"   -> {"ready", "running", "failed", "cancelled"}
          [] s = "degraded"   -> {"recovering", "retrying", "failed", "cancelled"}
          [] s = "recovering" -> {"ready", "running", "failed", "cancelled"}
          [] s = "blocked"    -> {"ready", "cancelled", "failed"}
          [] s = "failed"     -> {"retrying"}
          [] OTHER            -> {}]

\* The targets the program passes to transition(): prepare asks for planned
\* and ready, ApplicationKernel.execute asks for blocked.
RequestedStates == {"planned", "ready", "blocked"}

\* Mutant: a claim that also takes a running task over.
ClaimableStatesStealing == {"ready", "retrying", "recovering", "running"}

ClaimableStates == {"ready", "retrying", "recovering"}

-----------------------------------------------------------------------------
(***************************************************************************)
(* Rows.  "absent" and "none" stand for a row that is not in its table; 0  *)
(* stands for a NULL attempt reference.  An attempt is named by its        *)
(* attempt_no, which is unique in its task, instead of by its uuid.  Hashes*)
(* are reduced to what tells them apart: a submission to its budget and    *)
(* idempotency key, a result to the attempt that delivered it.  A row's    *)
(* revision is left out: BEGIN IMMEDIATE keeps it from changing between    *)
(* the read and the write that compares it.                                *)
(***************************************************************************)
AttemptNo == 1..MaxAttempts

TaskRow == [state            : TaskState \cup {"absent"},
            key              : Keys \cup {NoKey},
            max_attempts     : AttemptNo,
            attempts_started : 0..MaxAttempts,
            current_fence    : Nat,
            active_attempt   : 0..MaxAttempts,
            next_run_at      : Nat,
            result           : 0..MaxAttempts]

AttemptState == {"running", "succeeded", "failed", "cancelled", "expired"}

AttemptRow == [state       : AttemptState \cup {"none"},
               fence       : Nat,
               started_at  : Nat,
               lease_until : Nat,
               renewals    : SUBSET Nat]

NoTask == [state |-> "absent", key |-> NoKey, max_attempts |-> 1,
           attempts_started |-> 0, current_fence |-> 0, active_attempt |-> 0,
           next_run_at |-> 0, result |-> 0]

NewTask(key, budget, now) ==
    [state |-> "created", key |-> key, max_attempts |-> budget,
     attempts_started |-> 0, current_fence |-> 0, active_attempt |-> 0,
     next_run_at |-> now, result |-> 0]

NoAttempt == [state |-> "none", fence |-> 0, started_at |-> 0,
              lease_until |-> 0, renewals |-> {}]

Exists(t) == task[t].state # "absent"

\* The timestamps an operation whose transaction runs now may carry.
Stamps == {now \in 0..clock : clock - now <= LockWait}

-----------------------------------------------------------------------------
(***************************************************************************)
(* What a transaction writes to a row.                                     *)
(***************************************************************************)
Moved(row, to) ==
    [row EXCEPT !.state = to]

\* Mutant: the end of an attempt leaves the task pointing at it.
ReleasedKeepingActive(row, to) == Moved(row, to)

\* The end of the active attempt.
Released(row, to) == [Moved(row, to) EXCEPT !.active_attempt = 0]

\* Mutant: a new attempt under the old fence.
StartedOldFence(row) ==
    [Moved(row, "running") EXCEPT !.attempts_started = @ + 1,
                                  !.active_attempt   = row.attempts_started + 1]

\* Mutant: a new attempt that is not counted.
StartedUncounted(row) ==
    [Moved(row, "running") EXCEPT !.current_fence  = @ + 1,
                                  !.active_attempt = row.attempts_started + 1]

Started(row) ==
    [Moved(row, "running") EXCEPT !.attempts_started = @ + 1,
                                  !.current_fence    = @ + 1,
                                  !.active_attempt   = row.attempts_started + 1]

NewAttempt(row, now) ==
    [state |-> "running", fence |-> row.current_fence + 1, started_at |-> now,
     lease_until |-> now + LeaseSeconds, renewals |-> {}]

Finished(t, n, state) == [attempt EXCEPT ![t][n].state = state]

-----------------------------------------------------------------------------
(***************************************************************************)
(* The operations.                                                         *)
(***************************************************************************)
Init ==
    /\ clock = 0
    /\ task = [t \in Tasks |-> NoTask]
    /\ attempt = [t \in Tasks |-> [n \in AttemptNo |-> NoAttempt]]

\* A new task.  A submission that names a known task or a used key returns
\* the existing row or raises, and writes nothing in either case.
Submit(t, key, budget, now) ==
    /\ ~Exists(t)
    /\ key # NoKey => \A u \in Tasks : task[u].key # key
    /\ task' = [task EXCEPT ![t] = NewTask(key, budget, now)]
    /\ UNCHANGED <<clock, attempt>>

Transition(t, to) ==
    /\ Exists(t)
    /\ task[t].active_attempt = 0
    /\ to \in AllowedTransitions[task[t].state]
    /\ task' = [task EXCEPT ![t] = Moved(@, to)]
    /\ UNCHANGED <<clock, attempt>>

Claimable(t, now) ==
    /\ task[t].state \in ClaimableStates
    /\ task[t].next_run_at <= now
    /\ task[t].attempts_started < task[t].max_attempts

Claim(t, now) ==
    /\ Claimable(t, now)
    /\ task' = [task EXCEPT ![t] = Started(@)]
    /\ attempt' = [attempt EXCEPT
                     ![t][task[t].attempts_started + 1] = NewAttempt(task[t], now)]
    /\ UNCHANGED clock

\* Mutant: a lease is checked by its fence and its end alone.
LeaseValidByFence(t, n, now) ==
    /\ task[t].current_fence = attempt[t][n].fence
    /\ attempt[t][n].lease_until >= now

\* _verify_lease for the lease of attempt n: its attempt_id, fence and owner
\* are those of the attempt's row, which no operation rewrites.
LeaseValid(t, n, now) ==
    /\ task[t].state = "running"
    /\ task[t].active_attempt = n
    /\ task[t].current_fence = attempt[t][n].fence
    /\ attempt[t][n].state = "running"
    /\ attempt[t][n].lease_until >= now

\* The event of a renewal is keyed by its millisecond: a second renewal in
\* the same one collides with it and rolls back.
Renew(t, n, now) ==
    /\ LeaseValid(t, n, now)
    /\ now \notin attempt[t][n].renewals
    /\ attempt' = [attempt EXCEPT
                     ![t][n].lease_until =
                        IF @ >= now + LeaseSeconds THEN @ ELSE now + LeaseSeconds,
                     ![t][n].renewals = @ \cup {now}]
    /\ UNCHANGED <<clock, task>>

\* Mutant: the task is completed and its attempt is not.
SucceedTaskOnly(t, n, now) ==
    /\ LeaseValid(t, n, now)
    /\ task' = [task EXCEPT ![t] = [Released(@, "completed") EXCEPT
                                      !.next_run_at = now, !.result = n]]
    /\ UNCHANGED <<clock, attempt>>

Succeed(t, n, now) ==
    /\ LeaseValid(t, n, now)
    /\ task' = [task EXCEPT ![t] = [Released(@, "completed") EXCEPT
                                      !.next_run_at = now, !.result = n]]
    /\ attempt' = Finished(t, n, "succeeded")
    /\ UNCHANGED clock

\* Mutant: one retry too many.
FailureTargetOneMore(row, retryable) ==
    IF retryable /\ row.attempts_started <= row.max_attempts
    THEN "retrying" ELSE "failed"

FailureTarget(row, retryable) ==
    IF retryable /\ row.attempts_started < row.max_attempts
    THEN "retrying" ELSE "failed"

Fail(t, n, retryable, retry_at, now) ==
    /\ LeaseValid(t, n, now)
    /\ task' = [task EXCEPT
                  ![t] = [Released(@, FailureTarget(@, retryable)) EXCEPT
                            !.next_run_at = retry_at, !.result = 0]]
    /\ attempt' = Finished(t, n, "failed")
    /\ UNCHANGED clock

\* cancel() without a lease: what an operator's command sends.
CancelIdle(t) ==
    /\ Exists(t)
    /\ "cancelled" \in AllowedTransitions[task[t].state]
    /\ task[t].active_attempt = 0
    /\ task' = [task EXCEPT ![t] = Released(@, "cancelled")]
    /\ UNCHANGED <<clock, attempt>>

\* cancel() by the holder of the active attempt.
CancelHeld(t, n, now) ==
    /\ LeaseValid(t, n, now)
    /\ task' = [task EXCEPT ![t] = Released(@, "cancelled")]
    /\ attempt' = Finished(t, n, "cancelled")
    /\ UNCHANGED clock

Retry(t, now) ==
    /\ task[t].state = "failed"
    /\ task[t].attempts_started < task[t].max_attempts
    /\ task' = [task EXCEPT ![t] = [Moved(@, "retrying") EXCEPT !.next_run_at = now]]
    /\ UNCHANGED <<clock, attempt>>

\* Mutant: a lease is over in its last instant already.
ExpiredTooEarly(T, now) ==
    {t \in T : /\ task[t].state = "running"
               /\ task[t].active_attempt # 0
               /\ attempt[t][task[t].active_attempt].lease_until <= now}

\* The tasks of T whose active attempt has outlived its lease at time now.
Expired(T, now) ==
    {t \in T : /\ task[t].state = "running"
               /\ task[t].active_attempt # 0
               /\ LET a == attempt[t][task[t].active_attempt]
                  IN /\ a.state = "running"
                     /\ a.fence = task[t].current_fence
                     /\ a.lease_until < now}

LeaseEnd(t) == attempt[t][task[t].active_attempt].lease_until

\* ORDER BY lease_until LIMIT: the batch is the oldest rows of the set.
OldestFirst(batch, all) ==
    /\ batch \subseteq all
    /\ Cardinality(batch) <= RecoverLimit
    /\ batch # all => Cardinality(batch) = RecoverLimit
    /\ \A t \in batch, u \in all \ batch : LeaseEnd(t) <= LeaseEnd(u)

RecoveryTarget(row) ==
    IF row.attempts_started < row.max_attempts THEN "recovering" ELSE "failed"

\* recover_expired over the tasks of T, those without a legacy job.
RecoverExpired(T, now) ==
    \E batch \in SUBSET Expired(T, now) :
        /\ batch # {}
        /\ OldestFirst(batch, Expired(T, now))
        /\ task' = [t \in Tasks |->
                      IF t \in batch
                      THEN [Released(task[t], RecoveryTarget(task[t]))
                              EXCEPT !.next_run_at = now]
                      ELSE task[t]]
        /\ attempt' = [t \in Tasks |->
                        IF t \in batch
                        THEN [attempt[t] EXCEPT
                                ![task[t].active_attempt].state = "expired"]
                        ELSE attempt[t]]
        /\ UNCHANGED clock

Tick ==
    /\ clock < MaxClock
    /\ clock' = clock + 1
    /\ UNCHANGED <<task, attempt>>

\* A bound: every lease ends while the clock still runs.
WithinHorizon(now) == now + LeaseSeconds < MaxClock

\* Whoever was given the lease of an attempt, and not before it was given.
HolderStep(t, now) ==
    \E n \in AttemptNo :
        /\ attempt[t][n].state # "none"
        /\ attempt[t][n].started_at <= now
        /\ \/ WithinHorizon(now) /\ Renew(t, n, now)
           \/ Succeed(t, n, now)
           \/ \E retryable \in BOOLEAN, d \in Backoffs :
                  Fail(t, n, retryable, now + d, now)
           \/ CancelHeld(t, n, now)

Recovery == \E now \in Stamps : RecoverExpired(Tasks, now)

Next ==
    \/ Tick
    \/ Recovery
    \/ \E t \in Tasks, now \in Stamps :
        \/ \E key \in Keys \cup {NoKey}, budget \in AttemptNo :
               Submit(t, key, budget, now)
        \/ WithinHorizon(now) /\ Claim(t, now)
        \/ HolderStep(t, now)
        \/ Retry(t, now)
    \/ \E t \in Tasks :
        \/ \E to \in RequestedStates : Transition(t, to)
        \/ CancelIdle(t)

Spec == Init /\ [][Next]_vars

\* The service loop calls recover_expired in every cycle, and time passes.
FairSpec == Spec /\ WF_vars(Tick) /\ WF_vars(Recovery)

-----------------------------------------------------------------------------
(***************************************************************************)
(* Properties.                                                             *)
(***************************************************************************)
\* Every row keeps to the columns of its table.
TypeOK ==
    /\ clock \in Nat
    /\ task \in [Tasks -> TaskRow]
    /\ attempt \in [Tasks -> [AttemptNo -> AttemptRow]]

\* A task is running exactly while one attempt of it is, that attempt is the
\* newest, it is the one the task points at, and it carries the task's fence:
\* whatever claims, recoveries, cancellations and late completions interleave,
\* two attempts of a task never run at once and none is left running by a task
\* that has moved on (claim, complete, cancel, recover_expired).
OneActiveAttempt ==
    \A t \in Tasks :
        /\ task[t].state = "running" <=> task[t].active_attempt # 0
        /\ \A n \in AttemptNo :
             attempt[t][n].state = "running" <=> task[t].active_attempt = n
        /\ task[t].active_attempt # 0 =>
             /\ task[t].active_attempt = task[t].attempts_started
             /\ attempt[t][task[t].active_attempt].fence = task[t].current_fence

\* Attempts are numbered without gaps and their fences grow with their number,
\* never past the fence of the task: a newer attempt can always be told from
\* an older one (UNIQUE(task_id, attempt_no) and UNIQUE(task_id, fence_token)
\* in kernel/migrations.py).
FencesGrow ==
    \A t \in Tasks, n \in AttemptNo :
        /\ attempt[t][n].state # "none" <=> n <= task[t].attempts_started
        /\ n <= task[t].attempts_started =>
             /\ attempt[t][n].fence \in 1..task[t].current_fence
             /\ \A m \in 1..(n - 1) : attempt[t][m].fence < attempt[t][n].fence

\* A task that waits for its next attempt has budget for it: claim() never
\* meets a retrying, recovering or ready task it can only refuse, so
\* complete(), retry() and recover_expired() agree about the budget.
WaitingTaskHasBudget ==
    \A t \in Tasks :
        task[t].state \in ClaimableStates \cup {"created", "planned", "blocked"} =>
            task[t].attempts_started < task[t].max_attempts

\* The state of a task is the story its attempts tell: it is completed exactly
\* when its newest attempt succeeded, the stored result is that attempt's, no
\* attempt succeeded or was cancelled before it, a cancelled attempt is never
\* followed by another, and whoever looks at a failed, waiting or blocked task
\* that has run finds its newest attempt failed or expired (complete, cancel,
\* transition, recover_expired).
OutcomeIsLastAttempts ==
    \A t \in Tasks :
        LET row == task[t]
            last == row.attempts_started
            Last(states) == last > 0 /\ attempt[t][last].state \in states
        IN /\ row.state = "completed" <=> Last({"succeeded"})
           /\ row.result = IF row.state = "completed" THEN last ELSE 0
           /\ Last({"cancelled"}) => row.state = "cancelled"
           /\ row.state \in {"failed", "retrying", "recovering"} => last > 0
           /\ row.state \notin {"running", "completed", "cancelled"} /\ last > 0 =>
                Last({"failed", "expired"})
           /\ \A n \in 1..(last - 1) : attempt[t][n].state \in {"failed", "expired"}

\* What is over stays over: a completed or cancelled task's row and a finished
\* attempt's row are never written again, so a worker that comes back with a
\* lease that was taken from it changes nothing (_verify_lease).
FinishedStaysFinished ==
    [][\A t \in Tasks :
         /\ task[t].state \in {"completed", "cancelled"} => task'[t] = task[t]
         /\ \A n \in AttemptNo :
              attempt[t][n].state \notin {"none", "running"} =>
                  attempt'[t][n] = attempt[t][n]]_vars

\* With recover_expired running, no task runs for ever because its worker
\* died: it settles, or it is put back for recovery.
RunningSettles ==
    \A t \in Tasks : task[t].state = "running" ~> task[t].state # "running"

\* The store keeps the contract of a task: one runner at a time, a bounded
\* number of grants, one answer and none after a withdrawal.
Contract == INSTANCE TaskContract WITH
    granted   <- [t \in Tasks |-> task[t].attempts_started],
    running   <- [t \in Tasks |-> {n \in AttemptNo : attempt[t][n].state = "running"}],
    answered  <- [t \in Tasks |-> {n \in AttemptNo : attempt[t][n].state = "succeeded"}],
    withdrawn <- {t \in Tasks : task[t].state = "cancelled"}

\* Every step of the store is a step of the contract or changes nothing in it
\* ("stale workers cannot complete after expiration, cancellation or a newer
\* attempt", docs/architecture/CHECKPOINT_3A.md).
ImplementsContract == Contract!Spec

=============================================================================
