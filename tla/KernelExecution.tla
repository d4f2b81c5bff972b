-------------------------- MODULE KernelExecution --------------------------
(***************************************************************************)
(* ApplicationKernel.execute() of harness2/kernel/application.py over the  *)
(* task store: submission, preparation, planning, claim, the run of a      *)
(* driver and completion, by several processes that may execute the same   *)
(* request; and checkpoint() of harness2/kernel/execution_state.py, which  *)
(* whoever was given a lease may call.                                     *)
(*                                                                         *)
(* execute() is a chain of transactions with the planner and the driver    *)
(* between them.  Each transaction is an action of TaskRepository; between *)
(* any two of them the other processes run, leases end, the service loop   *)
(* recovers, an operator cancels or retries, and the process may die.      *)
(***************************************************************************)
EXTENDS TaskRepository, Sequences

CONSTANTS
    Callers,         \* processes that execute requests
    MaxCheckpoints   \* bound: checkpoints of a task

\* execute() leaves retry_at at its default, which is now.
ASSUME ExecConstantsOK == 0 \in Backoffs /\ MaxCheckpoints \in Nat

VARIABLES
    caller,       \* where each process is in execute()
    starts,       \* history: how often a driver was started, by task and attempt
    ended,        \* history: what the driver returned, by task and attempt
    checkpoints   \* kernel_task_checkpoints, by task and checkpoint_seq

execVars == <<caller, starts, ended, checkpoints>>
allVars == <<vars, execVars>>

-----------------------------------------------------------------------------
Place == {"idle", "prepare", "to planned", "to ready", "plan", "block",
          "claim", "start", "driving", "complete"}

\* A process in execute(): its task, and the attempt once it has claimed one.
At(place, t, n) == [at |-> place, task |-> t, attempt |-> n]

Settled(t) == task[t].state \in {"completed", "failed", "cancelled"}

Doing(c, place) == caller[c].at = place

\* The process was given a lease and has not reported yet.
Holds(c) == caller[c].at \in {"start", "driving", "complete"}

Becomes(c, place, t, n) == caller' = [caller EXCEPT ![c] = At(place, t, n)]

Goes(c, place) == caller' = [caller EXCEPT ![c].at = place]

ExecInit ==
    /\ Init
    /\ caller \in [Callers -> {At("idle", t, 0) : t \in Tasks}]
    /\ starts = [t \in Tasks |-> [n \in AttemptNo |-> 0]]
    /\ ended = [t \in Tasks |-> [n \in AttemptNo |-> "none"]]
    /\ checkpoints = [t \in Tasks |-> <<>>]

-----------------------------------------------------------------------------
(***************************************************************************)
(* execute().                                                              *)
(***************************************************************************)
\* submit() inserts the task or finds the one of an earlier call with the same
\* request.  A settled task is replayed: the call returns and writes nothing.
Call(c, t, now) ==
    /\ Doing(c, "idle")
    /\ \/ \E key \in Keys \cup {NoKey}, budget \in AttemptNo : Submit(t, key, budget, now)
       \/ Exists(t) /\ ~Settled(t) /\ UNCHANGED vars
    /\ Becomes(c, "prepare", t, 0)
    /\ UNCHANGED <<starts, ended, checkpoints>>

\* prepare() reads the state outside the transactions that change it.
Prepare(c) ==
    /\ Doing(c, "prepare")
    /\ Goes(c, CASE task[caller[c].task].state = "created" -> "to planned"
                 [] task[caller[c].task].state \in {"planned", "blocked"} -> "to ready"
                 [] OTHER -> "plan")
    /\ UNCHANGED <<vars, starts, ended, checkpoints>>

\* Mutant: the state that was read is overwritten without another look at it.
MoveBlindly(c, to, next) ==
    /\ task' = [task EXCEPT ![caller[c].task] = Moved(@, to)]
    /\ Goes(c, next)
    /\ UNCHANGED <<clock, attempt>>

\* transition() goes through, or it raises and execute() with it.
MoveOr(c, to, next) ==
    LET t == caller[c].task
    IN \/ Transition(t, to) /\ Goes(c, next)
       \/ /\ task[t].active_attempt # 0 \/ to \notin AllowedTransitions[task[t].state]
          /\ Goes(c, "idle")
          /\ UNCHANGED vars

ToPlanned(c) ==
    /\ Doing(c, "to planned")
    /\ MoveOr(c, "planned", "to ready")
    /\ UNCHANGED <<starts, ended, checkpoints>>

ToReady(c) ==
    /\ Doing(c, "to ready")
    /\ MoveOr(c, "ready", "plan")
    /\ UNCHANGED <<starts, ended, checkpoints>>

\* The planner and _validate_plan() accept the request or raise.
Plan(c) ==
    /\ Doing(c, "plan")
    /\ Goes(c, "claim") \/ Goes(c, "block")
    /\ UNCHANGED <<vars, starts, ended, checkpoints>>

Block(c) ==
    /\ Doing(c, "block")
    /\ MoveOr(c, "blocked", "idle")
    /\ UNCHANGED <<starts, ended, checkpoints>>

ClaimAttempt(c, now) ==
    LET t == caller[c].task
    IN /\ Doing(c, "claim")
       /\ \/ /\ WithinHorizon(now)
             /\ Claim(t, now)
             /\ Becomes(c, "start", t, task[t].attempts_started + 1)
          \/ ~Claimable(t, now) /\ Goes(c, "idle") /\ UNCHANGED vars
       /\ UNCHANGED <<starts, ended, checkpoints>>

Start(c) ==
    /\ Doing(c, "start")
    /\ Goes(c, "driving")
    /\ starts' = [starts EXCEPT ![caller[c].task][caller[c].attempt] = @ + 1]
    /\ UNCHANGED <<vars, ended, checkpoints>>

\* The driver returns; one that raises, or answers for another task or plan,
\* counts as a failure.
Return(c, end) ==
    /\ Doing(c, "driving")
    /\ Goes(c, "complete")
    /\ ended' = [ended EXCEPT ![caller[c].task][caller[c].attempt] = end]
    /\ UNCHANGED <<vars, starts, checkpoints>>

\* Mutant: what the driver returned is reported as success.
ReportedBlindly(t, n, now) == Succeed(t, n, now)

Reported(t, n, now) ==
    IF ended[t][n] = "success" THEN Succeed(t, n, now) ELSE Fail(t, n, FALSE, now, now)

\* complete() under the lease, or StaleLeaseError.
Report(c, now) ==
    LET t == caller[c].task
        n == caller[c].attempt
    IN /\ Doing(c, "complete")
       /\ attempt[t][n].started_at <= now
       /\ Reported(t, n, now) \/ (~LeaseValid(t, n, now) /\ UNCHANGED vars)
       /\ Goes(c, "idle")
       /\ UNCHANGED <<starts, ended, checkpoints>>

Die(c) ==
    /\ ~Doing(c, "idle")
    /\ Goes(c, "idle")
    /\ UNCHANGED <<vars, starts, ended, checkpoints>>

-----------------------------------------------------------------------------
(***************************************************************************)
(* checkpoint(): the object is stored first, at any time; the transaction  *)
(* that links it to the chain verifies the lease.                          *)
(***************************************************************************)
Link(t, n) ==
    /\ Len(checkpoints[t]) < MaxCheckpoints
    /\ checkpoints' = [checkpoints EXCEPT
                         ![t] = Append(@, [attempt |-> n, fence |-> attempt[t][n].fence])]
    /\ UNCHANGED <<vars, caller, starts, ended>>

\* Mutant: the lease was verified before the object was stored.
CheckpointUnverified(t, n, now) ==
    /\ attempt[t][n].state # "none"
    /\ Link(t, n)

Checkpoint(t, n, now) ==
    /\ LeaseValid(t, n, now)
    /\ Link(t, n)

-----------------------------------------------------------------------------
CallerStep(c, now) ==
    \/ \E t \in Tasks : Call(c, t, now)
    \/ Prepare(c)
    \/ ToPlanned(c)
    \/ ToReady(c)
    \/ Plan(c)
    \/ Block(c)
    \/ ClaimAttempt(c, now)
    \/ Start(c)
    \/ \E end \in {"success", "failure"} : Return(c, end)
    \/ Report(c, now)
    \/ Die(c)

\* The service loop and the commands of an operator.
Others(now) ==
    /\ \/ Tick
       \/ RecoverExpired(Tasks, now)
       \/ \E t \in Tasks : CancelIdle(t) \/ Retry(t, now)
    /\ UNCHANGED execVars

ExecNext ==
    \E now \in Stamps :
        \/ \E c \in Callers : CallerStep(c, now)
        \/ \E t \in Tasks, n \in AttemptNo :
             /\ attempt[t][n].started_at <= now
             /\ Checkpoint(t, n, now)
        \/ Others(now)

ExecSpec == ExecInit /\ [][ExecNext]_allVars

-----------------------------------------------------------------------------
(***************************************************************************)
(* Properties.                                                             *)
(***************************************************************************)
\* Every process is at a place of execute(), with an attempt once it has one,
\* and drivers are counted and heard under their attempts.
ExecTypeOK ==
    /\ caller \in [Callers -> [at : Place, task : Tasks, attempt : 0..MaxAttempts]]
    /\ \A c \in Callers :
         Holds(c) =>
             /\ caller[c].attempt # 0
             /\ attempt[caller[c].task][caller[c].attempt].state # "none"
    /\ starts \in [Tasks -> [AttemptNo -> Nat]]
    /\ ended \in [Tasks -> [AttemptNo -> {"none", "success", "failure"}]]
    /\ checkpoints \in [Tasks -> Seq([attempt : AttemptNo, fence : Nat])]

\* However many processes execute a request, and whatever dies, expires or is
\* retried in between, a driver is started at most once for each attempt that was
\* granted, and attempts stay within the budget: for a foreground run, with a budget
\* of one, its driver is started at most once (which may itself ask its provider
\* again, legacy_bridge.py).
RunsWithinBudget ==
    \A t \in Tasks, n \in AttemptNo :
        /\ starts[t][n] <= 1
        /\ starts[t][n] # 0 => n <= task[t].attempts_started
        /\ task[t].attempts_started <= task[t].max_attempts

\* Whoever drives a task holds its active attempt or has outlived its lease, so
\* that no two processes drive one task within their leases.
DrivesUnderLease ==
    \A c \in Callers :
        Holds(c) =>
            LET t == caller[c].task
                n == caller[c].attempt
            IN task[t].active_attempt = n \/ attempt[t][n].lease_until < clock

\* The store tells what the driver told: an attempt has succeeded or failed only
\* as its own driver returned, and a completed task has the result of a driver
\* that succeeded (complete() after a lost lease, a late driver of an older
\* attempt, a driver that never ran).
OutcomeIsTheDrivers ==
    \A t \in Tasks :
        /\ \A n \in AttemptNo :
             /\ attempt[t][n].state = "succeeded" => ended[t][n] = "success"
             /\ attempt[t][n].state = "failed" => ended[t][n] = "failure"
        /\ task[t].state = "completed" =>
             task[t].result # 0 /\ ended[t][task[t].result] = "success"

\* Along the chain of checkpoints fences never fall: an attempt that was
\* superseded adds nothing after its successor has begun to ("Stale attempts
\* cannot checkpoint", docs/architecture/CHECKPOINT_3B_PLAN.md).
ChainFollowsFences ==
    \A t \in Tasks :
        /\ \A i, j \in 1..Len(checkpoints[t]) :
             i <= j => checkpoints[t][i].fence <= checkpoints[t][j].fence
        /\ \A i \in 1..Len(checkpoints[t]) :
             checkpoints[t][i].fence <= task[t].current_fence

\* Seen through its tables the whole is the task store, whose guarantees it
\* therefore has.
ImplementsRepository == Spec

=============================================================================
