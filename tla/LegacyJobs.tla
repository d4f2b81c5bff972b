----------------------------- MODULE LegacyJobs -----------------------------
(***************************************************************************)
(* The durable run jobs of harness2/jobs.py: class JobManager over the     *)
(* tables jobs and kernel_legacy_job_tasks, together with the typed task   *)
(* store (TaskRepository) that every job is a projection of.               *)
(*                                                                         *)
(* A job and its task are created together and named alike (the task id is *)
(* "legacy-job-" and the job id), so one identity stands for both.  Every  *)
(* method is one transaction except work_once(), whose worker goes through *)
(* three (recovery of stale jobs, claim, completion) with the run of the   *)
(* engine in between, and purge(), which reads and deletes without BEGIN   *)
(* IMMEDIATE and so takes two steps.  A worker may die between any two of  *)
(* its steps.  The encrypted envelope of a job is left out: it is written  *)
(* and unlinked, and no operation reads it.                                *)
(***************************************************************************)
EXTENDS TaskRepository

CONSTANTS
    Workers,                 \* the service and every "harness work" process
    OldJobs                  \* job rows left by a version without typed tasks

ASSUME LegacyConstantsOK == OldJobs \subseteq Tasks

VARIABLES
    job,                   \* jobs, by job id
    mapped,                \* the jobs with a row in kernel_legacy_job_tasks
    worker,                \* what each worker is doing
    purging                \* the jobs a purge() has read and not yet deleted

jobVars == <<vars, job, mapped, worker, purging>>

-----------------------------------------------------------------------------
JobStatus == {"queued", "running", "retry", "succeeded", "dead", "cancelled"}

\* latest stands for latest_attempt_id and latest_fence_token of the mapping
\* row, 0 for NULL in it and in lease_until.
JobRow == [status       : JobStatus \cup {"absent"},
           attempt      : 0..MaxAttempts,
           max_attempts : 1..MaxAttempts,
           created_at   : Nat,
           next_run_at  : Nat,
           lease_until  : Nat,
           latest       : 0..MaxAttempts]

NoJob == [status |-> "absent", attempt |-> 0, max_attempts |-> 1, created_at |-> 0,
          next_run_at |-> 0, lease_until |-> 0, latest |-> 0]

\* A worker is between cycles, between its recovery and its claim, or running
\* the attempt n of job j that it claimed.
Idle == [at |-> "idle"]
Claiming == [at |-> "claim"]
RunningJob(j, n) == [at |-> "run", job |-> j, n |-> n]

WorkerState ==
    {Idle, Claiming} \cup {RunningJob(j, n) : j \in Tasks, n \in 1..MaxAttempts}

Waiting == {"queued", "retry"}

JobsInit ==
    /\ Init
    /\ job \in [Tasks -> {NoJob, [NoJob EXCEPT !.status = "queued"],
                          [NoJob EXCEPT !.status = "running", !.attempt = 1,
                                        !.lease_until = LeaseSeconds]}]
    /\ \A j \in Tasks : job[j].status # "absent" <=> j \in OldJobs
    /\ mapped = {}
    /\ worker = [w \in Workers |-> Idle]
    /\ purging = {}

-----------------------------------------------------------------------------
(***************************************************************************)
(* submit().                                                               *)
(***************************************************************************)
BudgetFor(requested) == IF requested < 1 THEN 1 ELSE requested

\* The job, its task and their mapping.  The task's idempotency key is derived
\* from the job id, which is fresh, so it never meets another: NoKey stands for it.
SubmitJob(j, requested, now) ==
    /\ job[j].status = "absent"
    /\ j \notin OldJobs
    /\ ~Exists(j)
    /\ task' = [task EXCEPT ![j] = NewTask(NoKey, BudgetFor(requested), now)]
    /\ job' = [job EXCEPT ![j] = [NoJob EXCEPT !.status = "queued",
                                               !.max_attempts = BudgetFor(requested),
                                               !.created_at = now, !.next_run_at = now]]
    /\ mapped' = mapped \cup {j}
    /\ UNCHANGED <<clock, attempt, worker, purging>>

-----------------------------------------------------------------------------
(***************************************************************************)
(* work_once().                                                            *)
(***************************************************************************)
Overdue(now) == {j \in Tasks : job[j].status = "running" /\ job[j].lease_until < now}

\* The overdue jobs whose task is running under an attempt that is overdue too.
Lapsed(now) ==
    {j \in Overdue(now) \cap mapped :
        /\ task[j].state = "running"
        /\ task[j].active_attempt # 0
        /\ attempt[j][task[j].active_attempt].lease_until < now}

\* Mutant: a stale run is put back in the queue while it has attempts left.
StaleStatusRequeued(j) ==
    IF j \in mapped /\ job[j].attempt < job[j].max_attempts THEN "retry" ELSE "dead"

\* What an overdue job becomes; its task, if it was running, has failed.
StaleStatus(j) ==
    IF j \in mapped /\ task[j].state = "completed" THEN "succeeded"
    ELSE IF j \in mapped /\ task[j].state = "cancelled" THEN "cancelled"
    ELSE "dead"

\* _recover_stale(), the first transaction of a cycle.
RecoverStale(w, now) ==
    /\ worker[w] = Idle
    /\ task' = [j \in Tasks |->
                  IF j \in Lapsed(now)
                  THEN [Released(task[j], "failed") EXCEPT !.next_run_at = now]
                  ELSE task[j]]
    /\ attempt' = [j \in Tasks |->
                     IF j \in Lapsed(now)
                     THEN [attempt[j] EXCEPT ![task[j].active_attempt].state = "expired"]
                     ELSE attempt[j]]
    /\ job' = [j \in Tasks |->
                 IF j \in Overdue(now)
                 THEN [job[j] EXCEPT !.status = StaleStatus(j), !.lease_until = 0]
                 ELSE job[j]]
    /\ worker' = [worker EXCEPT ![w] = Claiming]
    /\ UNCHANGED <<clock, mapped, purging>>

\* ORDER BY created_at LIMIT 1 over the jobs that are due.
Due(now) == {j \in Tasks : job[j].status \in Waiting /\ job[j].next_run_at <= now}

Heads(now) == {j \in Due(now) : \A i \in Due(now) : job[j].created_at <= job[i].created_at}

\* prepare() takes these to ready in the transaction of the claim.
Preparable == {"created", "planned", "blocked"}

TypedClaimable(j, now) ==
    /\ task[j].state \in Preparable \cup ClaimableStates
    /\ task[j].next_run_at <= now
    /\ task[j].attempts_started < task[j].max_attempts

Quarantine(w, j) ==
    /\ j \notin mapped
    /\ job' = [job EXCEPT ![j].status = "dead"]
    /\ worker' = [worker EXCEPT ![w] = Idle]
    /\ UNCHANGED <<vars, mapped, purging>>

ClaimJob(w, j, now) ==
    /\ j \in mapped
    /\ TypedClaimable(j, now)
    /\ task' = [task EXCEPT ![j] = Started(@)]
    /\ attempt' = [attempt EXCEPT
                     ![j][task[j].attempts_started + 1] = NewAttempt(task[j], now)]
    /\ job' = [job EXCEPT ![j].status = "running", ![j].attempt = @ + 1,
                          ![j].lease_until = now + LeaseSeconds,
                          ![j].latest = task[j].attempts_started + 1]
    /\ worker' = [worker EXCEPT ![w] = RunningJob(j, task[j].attempts_started + 1)]
    /\ UNCHANGED <<clock, mapped, purging>>

\* The typed claim raises: the cycle ends and nothing is written.
ClaimRefused(w, j, now) ==
    /\ j \in mapped
    /\ ~TypedClaimable(j, now)
    /\ worker' = [worker EXCEPT ![w] = Idle]
    /\ UNCHANGED <<vars, job, mapped, purging>>

NothingDue(w, now) ==
    /\ Due(now) = {}
    /\ worker' = [worker EXCEPT ![w] = Idle]
    /\ UNCHANGED <<vars, job, mapped, purging>>

\* A bound: every lease ends while the clock still runs.
RunWithinHorizon(now) == now + LeaseSeconds + LockWait < MaxClock

ClaimNext(w, now) ==
    /\ worker[w] = Claiming
    /\ \/ NothingDue(w, now)
       \/ \E j \in Heads(now) :
            \/ Quarantine(w, j)
            \/ RunWithinHorizon(now) /\ ClaimJob(w, j, now)
            \/ ClaimRefused(w, j, now)

\* Mutant: a completion is accepted on the mapping alone.
AcceptedByMapping(j, n, now) == j \in mapped /\ job[j].latest = n

\* The mapping still names the worker's attempt, its lease is valid and the
\* job row is running; otherwise StaleLeaseError rolls the transaction back.
Accepted(j, n, now) ==
    /\ j \in mapped
    /\ job[j].latest = n
    /\ LeaseValid(j, n, now)
    /\ job[j].status = "running"

StatusOf(state) ==
    CASE state = "completed" -> "succeeded"
      [] state = "retrying"  -> "retry"
      [] state = "failed"    -> "dead"

\* The run ended, with success or with an error that is transient or not.
Complete(w, success, transient, d, now) ==
    /\ worker[w].at = "run"
    /\ LET j == worker[w].job
           n == worker[w].n
           retryable == ~success /\ transient /\ n < job[j].max_attempts
           next_run == IF retryable THEN now + d ELSE now
           target == IF success THEN "completed"
                     ELSE FailureTarget(task[j], retryable)
       IN /\ Accepted(j, n, now)
          /\ task' = [task EXCEPT
                        ![j] = [Released(@, target) EXCEPT
                                  !.next_run_at = next_run,
                                  !.result = IF success THEN n ELSE 0]]
          /\ attempt' = Finished(j, n, IF success THEN "succeeded" ELSE "failed")
          /\ job' = [job EXCEPT ![j] = [@ EXCEPT !.status = StatusOf(target),
                                                 !.lease_until = 0,
                                                 !.next_run_at = next_run]]
    /\ worker' = [worker EXCEPT ![w] = Idle]
    /\ UNCHANGED <<clock, mapped, purging>>

StaleRejected(w, now) ==
    /\ worker[w].at = "run"
    /\ ~Accepted(worker[w].job, worker[w].n, now)
    /\ worker' = [worker EXCEPT ![w] = Idle]
    /\ UNCHANGED <<vars, job, mapped, purging>>

\* The worker dies, and a new one takes its place.
Crash(w) ==
    /\ worker[w] # Idle
    /\ worker' = [worker EXCEPT ![w] = Idle]
    /\ UNCHANGED <<vars, job, mapped, purging>>

-----------------------------------------------------------------------------
(***************************************************************************)
(* The operator's commands: "harness jobs cancel/retry/purge", and "harness*)
(* task cancel/retry" with the id of a job's task.                         *)
(***************************************************************************)
\* Mutant: only the projection is cancelled.
JobCancelProjection(j) ==
    /\ job[j].status \in Waiting
    /\ job' = [job EXCEPT ![j].status = "cancelled"]
    /\ UNCHANGED <<vars, mapped, worker, purging>>

JobCancel(j) ==
    /\ job[j].status \in Waiting
    /\ \/ /\ j \in mapped
          /\ task[j].state \notin {"completed", "failed", "cancelled"}
          /\ task[j].active_attempt = 0
          /\ task' = [task EXCEPT ![j] = Released(@, "cancelled")]
       \/ /\ j \notin mapped
          /\ UNCHANGED task
    /\ job' = [job EXCEPT ![j].status = "cancelled"]
    /\ UNCHANGED <<clock, attempt, mapped, worker, purging>>

\* Mutant: a retried job keeps its old schedule.
RequeuedAsScheduled(row, now) == [row EXCEPT !.status = "queued"]

Requeued(row, now) == [row EXCEPT !.status = "queued", !.next_run_at = now]

JobRetry(j, now) ==
    /\ job[j].status # "absent"
    /\ \/ /\ j \in mapped
          /\ task[j].state = "failed"
          /\ task[j].attempts_started < task[j].max_attempts
          /\ task' = [task EXCEPT ![j] = [Moved(@, "retrying") EXCEPT
                                            !.next_run_at = now]]
       \/ /\ j \notin mapped
          /\ UNCHANGED task
    /\ job' = [job EXCEPT ![j] = IF @.status = "dead" THEN Requeued(@, now) ELSE @]
    /\ UNCHANGED <<clock, attempt, mapped, worker, purging>>

\* purge() reads the status; the row may change before the delete.
PurgeRead(j) ==
    /\ job[j].status \notin {"absent", "running"}
    /\ purging' = purging \cup {j}
    /\ UNCHANGED <<vars, job, mapped, worker>>

PurgeDelete(j) ==
    /\ j \in purging
    /\ job' = [job EXCEPT ![j] = NoJob]
    /\ mapped' = mapped \ {j}
    /\ purging' = purging \ {j}
    /\ UNCHANGED <<vars, worker>>

TaskCommand(j) ==
    /\ CancelIdle(j) \/ \E now \in Stamps : Retry(j, now)
    /\ UNCHANGED <<job, mapped, worker, purging>>

-----------------------------------------------------------------------------
\* Mutant: recover_expired() passes over every task that came from a job.
NoOrphans == {}

\* NOT EXISTS(SELECT 1 FROM kernel_legacy_job_tasks): a task whose job was purged.
Orphans == Tasks \ mapped

\* The service loop's recover_expired().
RecoverOrphans ==
    /\ \E now \in Stamps : RecoverExpired(Orphans, now)
    /\ UNCHANGED <<job, mapped, worker, purging>>

JobsTick == Tick /\ UNCHANGED <<job, mapped, worker, purging>>

WorkerStep(w) ==
    \E now \in Stamps :
        \/ RecoverStale(w, now)
        \/ ClaimNext(w, now)
        \/ \E success, transient \in BOOLEAN, d \in Backoffs :
               Complete(w, success, transient, d, now)
        \/ StaleRejected(w, now)

JobsNext ==
    \/ JobsTick
    \/ RecoverOrphans
    \/ \E w \in Workers : WorkerStep(w) \/ Crash(w)
    \/ \E j \in Tasks, now \in Stamps :
        \/ \E requested \in 0..MaxAttempts : SubmitJob(j, requested, now)
        \/ JobRetry(j, now)
    \/ \E j \in Tasks :
        JobCancel(j) \/ PurgeRead(j) \/ PurgeDelete(j)

JobsSpec == JobsInit /\ [][JobsNext]_jobVars

\* The same with an operator who uses the task commands on the tasks of jobs.
TaskCommandSpec == JobsInit /\ [][JobsNext \/ \E j \in Tasks : TaskCommand(j)]_jobVars

\* Workers poll for ever and an engine run ends by its timeout; the service
\* loop calls recover_expired in every cycle; time passes.
JobsFairSpec ==
    /\ JobsSpec
    /\ WF_jobVars(JobsTick)
    /\ WF_jobVars(RecoverOrphans)
    /\ \A w \in Workers : WF_jobVars(WorkerStep(w))

-----------------------------------------------------------------------------
(***************************************************************************)
(* Properties.                                                             *)
(***************************************************************************)
\* The rows keep to their columns and the workers to their three places.
JobsTypeOK ==
    /\ TypeOK
    /\ job \in [Tasks -> JobRow]
    /\ mapped \subseteq Tasks
    /\ worker \in [Workers -> WorkerState]
    /\ purging \subseteq Tasks

StatesOf(status) ==
    CASE status = "queued"    -> {"created", "retrying"}
      [] status = "running"   -> {"running"}
      [] status = "retry"     -> {"retrying"}
      [] status = "succeeded" -> {"completed"}
      [] status = "dead"      -> {"failed"}
      [] status = "cancelled" -> {"cancelled"}
      [] OTHER                -> {}

\* A job is a projection of its task: their states correspond, they count the
\* same attempts, the mapping names the newest attempt and a running job's
\* lease is that attempt's (every method of JobManager writes both in one
\* transaction).
ProjectionAgrees ==
    \A j \in mapped :
        /\ task[j].state \in StatesOf(job[j].status)
        /\ job[j].max_attempts = task[j].max_attempts
        /\ job[j].attempt = task[j].attempts_started
        /\ job[j].latest = task[j].attempts_started
        /\ job[j].status = "running" =>
             job[j].lease_until = attempt[j][task[j].active_attempt].lease_until

\* The job at the head of the queue can always be claimed: were a due job's
\* task not claimable, claim() would raise on it in every cycle and no job
\* behind it would ever run.
HeadIsClaimable ==
    \A j \in mapped :
        job[j].status \in Waiting => TypedClaimable(j, job[j].next_run_at)

\* The task commands may move the task of a job that waits or is dead.
StatesAfterCommands(status) ==
    StatesOf(status) \cup
        (CASE status \in Waiting -> {"cancelled"}
           [] status = "dead"    -> {"retrying", "cancelled"}
           [] OTHER              -> {})

\* What the task commands leave of the projection, which they do not write
\* (cli.py:228): a job and its task run together, under one attempt and one
\* lease, and end together, and they are at odds only about work that nobody does.
CommandsSpareRuns ==
    \A j \in mapped :
        /\ task[j].state \in StatesAfterCommands(job[j].status)
        /\ job[j].max_attempts = task[j].max_attempts
        /\ job[j].attempt = task[j].attempts_started
        /\ job[j].latest = task[j].attempts_started
        /\ job[j].status = "running" =>
             job[j].lease_until = attempt[j][task[j].active_attempt].lease_until

\* The queue stops at its head for one reason only: somebody cancelled the
\* task of a waiting job by a task command.
OnlyCancelledBlocks ==
    \A j \in mapped :
        job[j].status \in Waiting /\ task[j].state # "cancelled" =>
            TypedClaimable(j, job[j].next_run_at)

\* A run whose lease ended is not started again by the harness: its job is dead
\* until an operator queues or cancels it, and recover_expired() never makes a
\* mapped task claimable ("never auto-reclaim an executor that cannot be proven
\* dead", _recover_stale).
ExpiredRunWaitsForOperator ==
    \A j \in mapped :
        LET n == task[j].attempts_started
        IN n > 0 /\ attempt[j][n].state = "expired" =>
             /\ job[j].status \in {"dead", "queued", "cancelled"}
             /\ task[j].state # "recovering"

\* No typed task stays running for ever, whoever has to recover it: while it is
\* mapped the job side does, and after a purge that overtook a claim
\* recover_expired() does.
TaskRunSettles == RunningSettles

\* Seen through its typed tasks the job queue keeps the task contract: one
\* accepted completion, from the current attempt, and none after a cancel.
JobsImplementContract == ImplementsContract

=============================================================================
