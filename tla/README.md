# TLA+ models of ultimate-harness

Models, TLC runs and machine-checked proofs of `harness2`, a command-line
harness that routes prompts to AI engines, keeps durable jobs, typed tasks and
encrypted conversations in SQLite, and supervises the Prime daemon, and of the
scripts that migrate its state. Every definition is translated from the source;
`PROJECT.json` maps each one to its lines.

## The system

One SQLite database (`store.py`, `kernel/migrations.py`), a run directory with
pidfiles, locks and sockets, and a number of processes that share them: the
service loop, every `harness` command in a terminal, workers, engines and the
Prime daemon. There are no threads but the pipe readers of `execution.py`; the
concurrency is between processes, and the only atomic units are a SQLite
transaction and a system call.

| component | state it keeps | operations | hard part | what makes it correct |
|---|---|---|---|---|
| typed task store, `kernel/tasks.py` | `kernel_tasks`, `kernel_task_attempts` | submit, prepare/transition, claim, renew, complete, fail, cancel, retry, recover_expired | stale leases, old timestamps, recovery against late completion | one active attempt, growing fences, an outcome that is its attempts', finality, attempt budget |
| legacy run jobs, `jobs.py` | `jobs`, `kernel_legacy_job_tasks` | submit, work_once (recover, claim, run, complete), cancel, retry, purge | two tables that tell one story; worker death; purge without the write lock | projection agrees with the task, the queue moves, no automatic rerun |
| start mutex, `supervisor.py` | a file or directory at one path | acquire_start_lock, FlockLock, MkdirLock | two strategies on one path, stale directories | mutual exclusion |
| Prime daemon supervision, `supervisor.py` | pidfile, socket, process table | start_daemon, stop_daemon, cleanup_stale | death of the starter, stop without the mutex, status read before the act | one daemon, named by the pidfile |
| sessions, `sessions.py` | `sessions`, `session_turns` | run_session_turn, close, resume, attach | five transactions around an engine run | one result for a turn, retries reuse the turn, a classification that later answers do not lose |
| service loop, `service.py`, `cmd_supervise` | pidfile, back-off | run | one failing step of a cycle, two loops | a failing start of Prime keeps no cycle from its duties |
| context jobs, `context/jobs.py` | a JSON file for each job | submit, work_once | read-then-write claim, crash while running | a job has its source, a settled one stays settled |
| context packages, `context/package.py` | a directory for each context | write, load | published file by file, shared by editions | no mixture is a success |
| event bus, `kernel/event_bus.py` | `kernel_events`, cursors | append, replay, ack | duplicate appends, late acks | one event under a key, cursors never go back |
| execution state, `kernel/execution_state.py`, `kernel/payloads.py`, `storage/local.py` | payload bindings, checkpoint chain, objects | create_task, checkpoint, latest_checkpoint, put, get | object and row written apart, checkpoints of old attempts | contiguous chain under the fence |
| application kernel, `kernel/application.py` | none of its own | execute | crash between effect and completion | a settled task is replayed and not run |
| orchestrator, `orchestrator.py`, `circuit.py` | circuits, runs | run, before/success/failure | read-modify-write of a breaker by several processes | sound rows, and an engine that works again is let in |
| policy and routing, `policy.py`, `router.py`, `kernel/resources.py`, `kernel/provider_intelligence.py` | observations | decide, assemble_candidates, evaluate | constraints that must hold for every fallback | no retry or fallback leaves the rule that decided |
| audit chain, `store.py` | `audit` | append_audit, verify_audit | concurrent appends | the chain verifies |
| migrations, `kernel/migrations.py` | `kernel_schema_migrations` | migrate, verify | programs of several versions, crash between statements | a whole number of versions, in order, known to whoever opens them |
| parsers, `events.py` | none | parse | truncated and repeated streams | no success without a final answer, nothing twice |
| engine adapters, `adapters/` | none | run | refusals, cut connections, limits | every run has one outcome |
| process boundary, `execution.py` | a process group | run_process | timeout, output limit, inherited pipes, cancellation | the run ends and leaves no pipe held |
| state import, `migrate.py` | a mark | plan, migrate | death before the mark, unreadable files | what could be read is in the chain before the mark |
| keys, `crypto.py` | a key file | load_or_create_key | creation race, crash before the key is written | all processes get one key |
| migration packages, `scripts/migration/` | key file, artifacts, a restored root | build, restore | copying a root in use, failure between artifacts | one moment, decryptable, withdrawn when it fails |
| skills, `skills/` | descriptors | evaluate, promote | evidence gates | no activation without its evidence |

Interaction: a job is a projection of a typed task, written in the same
transaction; `service.py` calls `recover_expired`, `work_once` of jobs and of
context jobs and `prime.start` in each cycle; `orchestrator.run` is what a job
and a session turn execute; the kernel executes typed tasks through drivers; the
event bus is appended to in the transactions of the task store.

## Modules

| module | models | abstract or detailed |
|---|---|---|
| `TaskContract` | what the task store promises: one runner at a time, a bounded number of grants, one answer, none after a withdrawal | abstract |
| `TaskRepository` | `kernel/tasks.py` | implements `TaskContract` |
| `TaskRepository_proofs` | the theorems about it | proofs |
| `LegacyJobs` | `jobs.py` over `TaskRepository`, which it extends; implements `TaskContract` through it | composition |
| `KernelExecution` | `ApplicationKernel.execute` in several processes, and `checkpoint`, over `TaskRepository`, which it extends and implements | composition |
| `TaskRuns_proofs` | the theorems about `KernelExecution` and `LegacyJobs`; extends `TaskRepository_proofs` | proofs |
| `StartLock` | `FlockLock`, `MkdirLock`, `acquire_start_lock` | |
| `PrimeDaemon` | `start_daemon`, `stop_daemon`, `cleanup_stale`, `stop_verified_pid`; extends `StartLock` | composition |
| `PrimeDaemon_proofs` | the theorems about both | proofs |
| `Sessions` | `run_session_turn` and `SessionService` | |
| `Sessions_proofs` | the theorems about it | proofs |
| `RoutingPolicy` | `PolicyRouter.decide`, `assemble_candidates`, the route of a decision | operators |
| `Orchestration` | `Orchestrator.run` and the foreground route in several processes over shared breakers; extends `RoutingPolicy` | composition |
| `Orchestration_proofs` | the theorems about both | proofs |
| `ContextJobs` | the context queue: `submit`, `work_once`, `capture_source`, packages, `harness context compile` | |
| `ServiceLoop` | `cmd_supervise` around `ServiceLoop.run`; extends `ContextJobs` | composition |
| `MigrationPackage` | `build_package.py` and `restore_state.py` over a root that `ContextJobs` uses, which it extends | composition |
| `MigrationPackage_proofs` | the theorems about `ContextJobs`, `ServiceLoop` and `MigrationPackage` | proofs |
| `EngineEvents` | the strict parsers of `events.py` | operators |
| `ProcessBoundary` | `run_process` | |
| `EngineRun` | `run()` of five adapters; extends `EngineEvents` and `ProcessBoundary` | composition |
| `EngineRun_proofs` | the theorems about `ProcessBoundary` and `EngineRun` | proofs |
| `StateRoot` | opening a state root (`Store._init`, `Migrator`, `load_or_create_key`) and appending to it (audit chain, state import, event bus) | |
| `StateRoot_proofs` | the theorems about it | proofs |
| `MC*` | instances, bounds and symmetry for TLC | |

### How state and actions correspond to the code

**TaskRepository.** `task[t]` is the row of `kernel_tasks`, `attempt[t][n]` the row
of `kernel_task_attempts` with `attempt_no = n`. A method is one `BEGIN IMMEDIATE`
transaction and so one action; a method that raises rolls back, so its failing
branches are steps that do not exist. Attempts are named by number and not by
uuid; hashes are reduced to what tells them apart; events, transitions and
`revision` are written in the same transaction and are left out, except the
renewal event, whose dedup key can refuse a renewal (`renewals`). Two things make
the model stronger than a test: any lease that was ever handed out may be
presented again at any time (`HolderStep`), and the timestamp of an operation may
be up to `LockWait` old (`Stamps`), because it is read before the transaction waits
for the lock.

**LegacyJobs.** `job[j]` and `mapped` are the rows of `jobs` and
`kernel_legacy_job_tasks`; a job and its task have one identity. `OldJobs` are those that a version
without tasks has left behind. `work_once` is three
transactions with the run between them: `RecoverStale`, `ClaimNext` (`Quarantine`,
`ClaimJob`, `ClaimRefused`, `NothingDue`), `Complete` or `StaleRejected`. `purge` is two
steps because it reads without a write lock. `Crash` may happen between any two.
`TaskCommand` is `harness task cancel/retry` on the task of a job; it belongs to
`TaskCommandSpec` only, about which there are theorems and no run.

**KernelExecution.** `caller[c]` is where process `c` is in `execute()`: which transaction
it does next, whether it plans or drives, and the attempt of its lease. Every
transaction is an action of `TaskRepository`; between two of them anything may happen,
`Die` included. `Call` finds the task of an earlier call or inserts it; for a settled task
the call replays and writes nothing, which is a step that does not exist. `Prepare`
is the read of `prepare()`, which is outside the transactions `ToPlanned` and `ToReady`
that follow, so that the state it read may be old; a transition that is refused
raises, and `execute()` with it. `Plan` accepts or refuses. A driver that raises or
answers for another task is a failure (`Return`). `Report` is `complete()`: it reports under the lease or
is refused. `Checkpoint` belongs to whoever was ever given a lease; the object is
stored before its transaction and at no particular time, so only the transaction is a
step. `Others` is the service loop's recovery and an operator's `harness task cancel` and
`retry`. `starts` and `ended` are history: how often a driver was started for an
attempt, and what it returned.

**StartLock.** `entry` is what is at the lock path, `flocked` who has `LOCK_EX`. A step is
one system call. Time is two facts: a waiter may run out of its timeout after
any attempt, and a directory gets older than `stale_after` only when nobody holds
it. The second is an assumption about durations: `stale_after` is 600 s and a start
holds the lock for at most about 75 s (`wait_socket` 60, `grace` 5, `kill_wait` 2,
waits between).

**PrimeDaemon.** `daemon` is the process table, `pidfile` and `socket` the two files,
`doing` the position of each starter or stopper. `status()` is one step; the
decision of `cleanup_stale` and its act are two (`Decide`, then `Heal` or `Sweep`), so
that what was decided may be old. The daemon itself is external: it opens its
socket if the path is free, and may exit and leave the path behind. `slips` and
`stolen` are history variables: they record the events outside the guarantees.

**Sessions.** `turns` is `session_turns` of one session by `seq`, `chat[c]` a process inside
`run_session_turn`. `Begin` takes the prompt and the flag of its call: a retry of the same
prompt may come with another flag, whether the turn it finds is sensitive or not. The row
of a user turn keeps the flag it was inserted with; the answer gets that of its run. `origins` is a history variable: the user turns whose content may
have gone into a turn. The byte budget is an arbitrary set of turns that fit.
Of the two classifications one is modelled, since the code treats them alike.

**Orchestration.** `breaker[e]` is the row of `circuits`, `proc[p]` a run: the engines
still to be tried, the retries, and the copy of a row between its read and its save,
since `Store.circuit` and `save_circuit` are two transactions. `Prepare` takes any start
that `Decide` gives for the request under any statuses that the adapters can report,
through the orchestrator or, for an explicit engine, through the foreground route of
`application.py`. `Assemble` names each engine once, as `assemble_candidates()` does,
and passes over engines that are not registered. `ran` is history. A killed process and an adapter that raises are one
step, `Dies`: neither saves a breaker.

**ContextJobs, ServiceLoop.** Each file write and each transaction is a step.
`submitter[j]`, `worker[w]` and `shell[s]` are positions in `submit`, `work_once` and the compile
command; a worker keeps the copy of the job that it read. A package is two files that
are replaced one after the other, each naming its edition, and are read one after the other
(`LoadManifest`, `LoadIR`); the directory is named by the context, so that editions share it.
`displaced` is history: the jobs that had found an edition in a package into which another was written
afterwards. `service[w]` is the place in `cmd_supervise` and in a cycle of `run`. What `run()` catches
around the start of Prime is `StartPrime`; the check of the daemon before it (`service.py:87`) and the audit of a
failed start (97) are outside that inner `try`, and so are recovery, both job cycles and the reads
of the context queue: an error there goes to the outer `except` and ends the cycle (`PrimeRaises`,
`JobCycleRaises`, `ContextRaises`). An error in the outer `except` ends the loop (`LoopRaises`). `raced` is history.

**MigrationPackage.** `builder[b]` is the position in `build`, with the files it has
fingerprinted (`read`), those replaced since (`touched`: the second fingerprint will differ),
the copy (`staged`) and, as history, the root at the end of the first fingerprint
(`moment`). The key file is told by who made it; `robbed` (history) are the builds whose key a
failed build has removed, so that a key made later is another key. While a builder holds `lock`, transactions of others wait and file writes do
not. Work on private copies is one step that may refuse.

**EngineRun, ProcessBoundary.** The engine writes a prefix of one of its streams; a helper
may inherit the pipe, write noise, go silent or leave the group. `reader` is the pipe
thread, `control` the controller: poll, join, reap, the `finally` clause. A cancellation may come at
any of its steps. The outcome goes through the parser and the adapter's own rules to one
`EngineResult`; over HTTP, `body` takes the place of the process.

**StateRoot.** `tables` are the statements that took effect, `history` the rows of
`kernel_schema_migrations`, `writer` who is in `BEGIN IMMEDIATE`; a death rolls back. The program
`proc[p]` opens the database, then the key, then appends. `Known` is `verify()`: it refuses a history
that is longer than the program's own or other than it (`migrations.py:361-380`). Hashes are links to the entry
before. An import goes through the records file by file (`next`); `SkipFile` is `except OSError:
continue` (`migrate.py:66`), at the opening of a file or in the middle of it, and `skipped` (history) are the files it was taken for;
a line that is no record is none of `Legacy`.

## Runs

Each run stays well under five minutes with two workers.

| run | instance | shows |
|---|---|---|
| `task_repository` | 2 tasks, 2 attempts, clock 0..3, leases of 1, timestamps up to 1 old, symmetry in tasks | the four invariants, `FinishedStaysFinished`, `ImplementsContract` |
| `legacy_jobs` | 2 jobs, 2 workers, 2 attempts, clock 0..3, symmetry in workers | `ProjectionAgrees`, `HeadIsClaimable`, `ExpiredRunWaitsForOperator`, `JobsImplementContract` |
| `legacy_jobs_live` | 1 worker, 1 new job, 1 row of an old version, clock 0..4 | `TaskRunSettles`, quarantine and stale rows of an old version |
| `kernel_execution` | 2 processes, 1 task, 2 attempts, clock 0..4, leases of 1, timestamps up to 1 old, 2 checkpoints | `RunsWithinBudget`, `DrivesUnderLease`, `OutcomeIsTheDrivers`, `ChainFollowsFences`, `ImplementsRepository` |
| `prime_daemon` | 2 starters, 1 stopper, 2 daemons, all methods and platforms | the mutex, the pidfile and the single daemon, but for the named disturbances |
| `sessions` | 2 terminals that wait for each other from the look-up of a turn to its answer, 2 prompts, either flag in each call, 5 rows, 1 turn of history, symmetry in terminals and in prompts | `OneResultWhenCompleted`, `RetryReusesTurn`, `LostOnlyByRetry` |
| `orchestration` | 2 processes, engines OpenCode, Hermes and local, threshold 2, 1 retry, cooldowns up to twice the base | `RowsAreSound`, `FallbacksKeepToRule`, `EngineComesBack` |
| `service` | 2 loops, 2 jobs that publish two editions of one context | `SnapshotsAreBacked`, `SucceededLoads`, `SettledUnlessRaced`, `QueueDrains` |
| `migration` | 2 builders, 1 restorer, 1 job and 1 command that publish two editions of one context, symmetry in builders | `SnapshotIsOneMoment`, `KeyOutlivesPackage`, `FailureLeavesOneFile` |
| `engine_run` | 5 engines, 11 streams and all their prefixes, limit 5 events, 4 events parsed, bodies up to 2 chunks | `NothingHoldsOn`, `SuccessIsWhole`, `BoundaryEnds` |
| `state_root` | programs with schemas 1, 1-2 and 1-drift, 2 statements a version, 3 audit records, 3 legacy records in 2 files, 3 events of which two share a key | `SchemaIsWhole`, `KeysAgree`, `LedgersVerify`, `OpensWhatItKnows`, `LedgersOnlyGrow` |
| `prime_daemon_single` | see below | a violation: the finding |

**Bounds.** Two tasks let recovery choose, key conflicts arise and one job wait
behind another; two attempts are the least with a retry, a recovery and a stale
lease of the first attempt beside the second. Lease length 1 with a clock of 3
or 4 lets a lease expire, be renewed and expire again. `WithinHorizon` (`RunWithinHorizon` for jobs) keeps
a claim or renewal from starting a lease that the stopped clock could never end; without
it liveness would fail for the bound and not for the code. `MaxPid` 2 is the least
with a duplicate daemon. `kernel_execution` needs one task, since `execute()` concerns one,
two processes, one of which may come late with the lease of the first attempt, and
two checkpoints, the least that can be out of order. `MaxTurns` 5 holds three questions,
two of them answered, or a turn that each terminal has tried and answers to others; with a history of one turn a sensitive turn leaves the window while
its content stays in later answers, and a retry without the flag finds it still unfinished.

`orchestration`: one process may be asked anything that the rules choose for or OpenCode by
name (other engines are named in the same way), the other keeps disturbing OpenCode's
breaker; three engines are the least with a fallback, a messaging engine and a local one.
`service`: a process lives once, and two are enough for a race on the pidfile and for the files of two editions to
be written and read between each other; the compile command, which writes the same two files, is in the
run of `migration` and in the theorems. `migration`: `Bounded`
lets two builders run over a root without context jobs, or one while jobs and commands do;
the builders meet only in the key file, which does not depend on the root. `engine_run`:
`MaxEvents` 4 and `Limit` 5 are each passed by some stream, and noise of one event by the helper
is enough to break a parser's ending. `state_root`: each audit, import, publication and
acknowledgement may interleave with another program's; the bound only stops the chain. Two records in one file and one in another are the
least for a file that fails in the middle and one that is read after it.

**Deadlock** is checked in `orchestration`, whose processes are always asked again. It is not
checked elsewhere, where a model may stop (bounds reached, nothing to do).

**Fairness.** `TaskRepository`: weak fairness of `Tick` (time passes) and of `Recovery`
(the service loop calls `recover_expired` in every cycle). No fairness for workers:
they may die. `LegacyJobs`: the same, and of `WorkerStep` of each worker, since a worker
polls for ever and an engine run ends by its timeout (`execution.py` enforces it);
`Crash` is not prevented. `TaskRunSettles` is about the state `running` being left,
which a crash then turns over to recovery.

`Orchestration`: weak fairness of each process's steps and of each cooldown: both are a matter
of time. `Dies` is not prevented; `EngineComesBack` speaks of behaviours in which deaths
and failures of the engine cease and the engine is asked for. `ServiceLoop`: weak fairness of
`Cycle`, since a loop that runs goes on; nothing for submitters, commands and starts, and
`QueueDrains` speaks of a loop that stays on and in which from some time on the check of Prime, the audits, the
job cycle and the reads and writes of the context cycle cease to raise, since each of these ends its
cycle before the jobs it has not reached; the start of Prime may fail for ever. `EngineRun`: weak fairness of the controller's steps, of the reader while there is something
to read, and of time. No fairness for the engine: it may hang for ever.

**The violation run** `prime_daemon_single` checks the specification of `prime_daemon`, with an
instance without a stopper. `prime_daemon` shows that one daemon is guaranteed as
long as no starter dies between Popen and the pidfile, no cleanup acts on an old
decision and no lock directory is stolen wrongly; the other shows the start that
duplicates a daemon it has just found.

**Assumed of time.** A directory lock gets older than `stale_after` only when nobody holds it
(see `StartLock`). A reader has taken what an exited process wrote before the join's grace is
over (`ProcessBoundary`): on a machine that does not schedule a thread for that long,
output would be cut without a sign. SIGKILL takes effect at once.

## Findings

Shown by a run:

1. `start_daemon` does not look again after `cleanup_stale` has healed the pidfile with
   a live daemon, and spawns a second (`supervisor.py:915`).

Shown by TLC on instances that are not runs of the project; the definitions are in the
modules:

2. `harness task cancel/retry` on the task of a job changes the task alone. A queued
   job whose task is cancelled makes `claim()` raise in every cycle, and no job
   behind it runs (`cli.py:228`). `LegacyJobs` with `SPECIFICATION TaskCommandSpec`, `ProjectionAgrees`.
3. The mkdir fallback of `acquire_start_lock` cannot work: the rejected flock attempt
   has created a file at the path (`supervisor.py:450`). `StartLock`, `FallbackIsUsable`.
4. `mark_interrupted` overwrites a turn that another terminal completed
   (`sessions.py:366`). `Sessions` with `SPECIFICATION Spec` and two `Chats`, `InterruptedHasNoResult`;
   `SerialSpec`, which the run checks, is what a lock over the section would leave of it.
5. A retry without `--sensitive` finds the stored turn of its prompt, runs it and answers it with the
   flags of the new call (`sessions.py:541-553`), and later answers follow that answer; a retry with the flag leaves the stored row
   as it was. So the classification is not "additive across history, never downgraded"
   (`docs/architecture/PHASE10_SESSIONS.md`). `Sessions` with `SPECIFICATION Spec` or `SerialSpec`, `NeverDowngraded`;
   what the code keeps of it is `LostOnlyByRetry`, which the run checks.
6. An untrusted request that names OpenCode and an agent runs, in the foreground, with that agent and
   not with `harness-sandbox` (`legacy_bridge.py:84` and `120`), while `docs/ARCHITECTURE.md:12-13` says
   "untrusted tasks use the read-only `harness-sandbox` OpenCode agent". `MCOrchestration` with
   `INVARIANT UntrustedIsSandboxed`.
7. "Explicit engine selection outranks policy" (`docs/ARCHITECTURE.md:12`), but `decide()` looks at the sensitive and untrusted
   flags first (`policy.py:150-166`): a sensitive request that names another engine is decided for the local one.
   `ExplicitOutranks` of `RoutingPolicy` is a constant formula; TLC evaluates it to FALSE for the engines of `orchestration`.

Where the code does less, or other, than one may expect, and the models follow the code:

- A context id names the content and not the version (`context/compiler.py:94`): two editions of a context share a
  directory. Writers of two editions never make a job take a mixture for its success (`SucceededLoads`), but what a
  job has found may be replaced afterwards, by the other edition or, when two write at once or one dies between its
  files, by a directory that does not load (`package.py:93-118`); and the result of a success names the
  edition that was found, which need not be its own (`jobs.py:111-130`). `build_package.py` refuses a root with such a package (`ContextJobs`, `MigrationPackage`).
- Two calls of a cycle are outside its inner `try` but before its duties: `daemon_status()` (`service.py:87`) and the audit of a failed
  start (97). While one of them raises, no cycle reaches recovery, jobs or context jobs (`ServiceLoop`, `PrimeRaises`).
  The audit of a start that succeeded (92) is inside: when it raises, the start counts as failed.
- `cmd_supervise` reads and writes its pidfile without a lock; after such a race two loops can
  run one context job. A job left running by a crash is never taken up again.
- An import of old records that dies before its mark imports them again (`migrate.py:50`). A file that cannot be
  opened, or fails in the middle, is passed over (`migrate.py:66-67`), and the import is marked all the same: what was in it is never
  imported (`StateRoot`, `SkipFile`).
- A crash between the creation and the writing of a key file leaves an empty key that is
  refused for ever, in `crypto.py` as in `build_package.py`. A failing build removes a key that
  it found missing at its start, whoever has made and used it since; it leaves the file it was
  just writing, because of which a second attempt at the same output is refused.
- The first time a breaker opens, its cooldown is twice the base (`Orchestration`).
- An OpenCode session whose last `step_finish` says error, aborted or max-turns without an error event is
  a success when the exit code is zero; two consecutive equal messages of Prime are one (`EngineEvents`).
- An error event whose text is empty is taken for none (`events.py:260-262`): `success` is `not self.error`, although its docstring (114-119)
  says that a stream that ended with an error is no success. `WellSpoken` assumes that engines send no such event.
- The local engine's `run()` does not catch a timeout while it reads, and neither HTTP
  engine catches a connection that is cut in the middle: the exception leaves the
  orchestrator without a breaker's failure (`EngineRun`).
- A helper that is silent (holds no pipe) survives a normal exit of its engine, and one that left the
  group keeps the reader thread until it ends (`ProcessBoundary`).
- A program that opened the state root before a newer one migrated it is not asked again and goes on with
  the schema it knows (`StateRoot`).

## Proofs

Eight modules hold the theorems. Each is about its model with any values of the constants that
its named assumption admits; each safety theorem rests on an inductive invariant, which TLC
checked on the instance of the run before it was proved. The refinements are proved as well.
Together they state all safety invariants and action properties of the passing runs; liveness stays with
TLC (see "Only model-checked").

| module | theorems | of the run |
|---|---|---|
| `TaskRepository_proofs` | `Invariance`, `TypeCorrect`, `ActiveAttempt`, `Fences`, `Budgets`, `Outcomes`, `Finality`, `Refinement` | `task_repository` |
| `TaskRuns_proofs` | `ExecInvariance`, `ExecRefinement`, `ExecTypes`, `Runs`, `Leases`, `DriversOutcome`, `ChainOrder` | `kernel_execution` |
| `TaskRuns_proofs` | `JobsInvariance`, `JobsTypeCorrect`, `Projection`, `HeadClaimable`, `RunsAreSpared`, `HeadBlocked`, `ExpiredWaits`, `JobsRefinement` | `legacy_jobs` |
| `PrimeDaemon_proofs` | `LockExclusive`, `DaemonInvariance`, `DaemonTypeCorrect`, `MutexExclusive`, `DaemonRegistered`, `DaemonSingle` | `prime_daemon` |
| `Sessions_proofs` | `SessionInvariance`, `SessionTypeCorrect`, `ClassificationKept`, `SerialInvariance`, `OneTerminal`, `OneResult`, `RetryReuses`, `InterruptedSerial` | `sessions` |
| `Orchestration_proofs` | `RunInvariance`, `BreakersSound`, `FallbacksKept` | `orchestration` |
| `StateRoot_proofs` | `RootInvariance`, `SchemaSound`, `OpensItsOwn`, `OneKey`, `LedgersSound`, `NothingTakenBack` | `state_root` |
| `MigrationPackage_proofs` | `ContextInvariance`, `SnapshotsBacked`, `SuccessLoads`, `LoopInvariance`, `LoopsBackSnapshots`, `LoopsLoad`, `SettledStays`, `BuilderInvariance`, `OneMoment`, `KeyOutlives`, `LeavesOneFile` | `service`, `migration` |
| `EngineRun_proofs` | `EngineInvariance`, `NobodyHoldsOn`, `SuccessIsEarned`, `OutputInvariance`, `CollectedWhole`, `WholeSuccess` | `engine_run` |

### The task store

The inductive invariant `IInv` says `RowOK` of every task and its attempts:
`Typed`, `Activity` (which attempt is active), `Numbering` (numbers and fences), `Budget`
and `Outcome`. None of the parts is inductive alone: a claim keeps one attempt
active only because a claimable task has none (`Activity`), numbers the new attempt
only because no row has that number yet (`Numbering`), and stays within
`MaxAttempts` only because of `Budget`; that a late lease cannot rewrite an old attempt
needs all of them. `Budget` also says that `waiting`, `verifying` and `degraded` are never
entered: from `degraded` a task could reach `retrying` without a budget. Since an
operation rewrites one task and its attempts, the lemmas first show, without a
step, that what an operation writes keeps `RowOK` (`IdleMoveOK`, `ClaimOK`, `FinishOK`,
`RenewOK`), `OneTaskStep` lifts that to `IInv'`, and one lemma for each group of
actions connects them. The refinement maps a claim to `Grant`, a successful
completion to `Answer`, a failure or expiry to `Lose`, a cancellation to `Withdraw`
and everything else to a stutter, using `IInv` to read the contract's sets off the
task row (`StoreView`).

### The kernel's execution

`StoreStep` shows that every step is one of the task store or leaves its tables
alone, which gives `IInv` and the refinement. `KInv` adds what the processes rely on:
`HeldReliably` (the attempt of a process is still active, or its lease has ended; it is
running or expired, never finished by somebody else), `HeldApart` (no two processes hold one
attempt), `StartedOnce`, `Heard` and `Told` (what drivers returned and what the store says), and
`Chained`. A driver is started once for an attempt only because a claim hands out a
number that nobody holds and that was never started; and an attempt is told as its
own driver ended only because nobody but its holder can report it, which needs
`HeldApart`. The argument is one of non-interference: all steps of the store but a report are
`Quiet` about every attempt (`IdleQuiet`, `ClaimQuiet`, `RecoverQuiet`, `StillQuiet`), a report is
quiet about all attempts but its own (`ReportQuiet`), and what a holder relies on
outlives a quiet step (`StaysReliable`, `Frame`). So each action has to be looked at only
for the process that takes it. The lease a process presents is one it was given
(`execute()` keeps it in a local variable).

### Jobs

`JobsIInv` is the task store's `IInv`, the types of the job side, and `Projected` for each mapped
job: both rows have the same budget and have counted as many attempts, the lease of a running
job is that of the task's active attempt, a waiting job is not due before its task, a job in
retry has a failed last attempt, and the state of the task is one that its status stands for or
that a task command may have made of it (`StatesAfterCommands`). It is an invariant of `TaskCommandSpec`, with
`harness task cancel/retry` on the tasks of jobs, and so of `JobsSpec` (`WithoutCommands`). That it
survives a worker that comes back late needs `RowOK`: the stale completion is refused by the
task's fence, and then the job row is not written either. Each transaction is first shown to be
operations of the task store on the job's task, then to write a job row that is `Projected` again.

Of `TaskCommandSpec` itself follow `RunsAreSpared` (`CommandsSpareRuns`: a job and its task run together, under one
attempt and one lease, and end together), `HeadBlocked` (`OnlyCancelledBlocks`: finding 2 is the only way to
block the head), `ExpiredWaits` and `JobsRefinement`, for which `JobsContractStep` and
`CommandsContractStep` show each step to be one of the contract or a stutter. TLC checked the four on the
instance of `legacy_jobs` with `SPECIFICATION TaskCommandSpec`. Of `JobsSpec` alone follows that states correspond
(`ProjectionAgrees`): every step of the queue leaves the rows it writes in agreement, also where
they did not agree before, and the rest as it was (`StepKeeps`). `HeadIsClaimable` follows from that with the
budget part of `RowOK`: a waiting job's task is in a state that `claim()` accepts and has an
attempt left.

### The start mutex and the daemon

`LockIInv` ties each starter's `stage` to the holders of the lock and what is at the path; unless a
directory was stolen, a made directory is there and no two starters hold the lock by
whatever method. `IInv` adds `Locked` (a starter acts only with the mutex) and, unless one of
the three disturbances has happened, `Accounted`: between the check under the mutex and the
spawn there is no daemon, one that was spawned and is not yet recorded is the only one,
and any other is named by the pidfile. `SingleUnlessDisturbed` alone is not inductive: a spawn
keeps it only because the check before it has seen no daemon and nobody else could have
spawned one since.

### Sessions

For any number of terminals, `IInv` says of every stored row and every turn in the making that
it refers to earlier rows only, and that it is sensitive if anything sensitive has gone into it, unless that was itself
answered without the flag by then; `ClassificationKept` follows. The exception is stable because an answer is never
removed or reclassified, and the sensitivity of a user row is never changed. What a turn's answer is, is false for two terminals that race
(finding 4, and `RetryReusesTurn` likewise), and the code does not keep them apart. It is proved of
`SerialSpec`: any number of terminals, in any order and dying anywhere, of which at most one
(`OneInSection`) is between the look-up of the turn it is to answer and the answer. That is the
section a lock would have to cover, no more: reading the history, which comes before, and
whatever a terminal does between commands may interleave. One terminal is the special case the code is made for
(`OneTerminal`). `SingleIInv` adds to `IInv` that a completed turn has exactly one answer and any
other none, and that a turn which is about to run is the last unfinished one; it says
of terminals outside the section only what they cannot lose to the one inside. `InterruptedSerial` is the
positive side of finding 4.

### Orchestration

`RowOK` says which rows a single breaker could have; `RunOK` of each process that its copy of a
row is such a row and, where it is about to write half-open, due (`SoundCopy`), that
it has not run more often than it may (`Counted`), and that every engine still on its route is
one that the rule of the decision allows and none occurs twice (`Lawful`). A breaker row that is overwritten
by an older copy stays sound because copies are sound, not because it is the newer one. That
`Assemble` yields distinct engines and keeps the forbidden ones out is proved for any preference
list; it is about functions over indices, with induction over a set of numbers
(`InductionOnNat`, from the library's least-element theorem), since the induction theorems take
operators that the provers cannot instantiate.

### The state root

`IInv` has four parts. `Schema`: outside a transaction the statements that took effect are those of
the versions in the history, which is a prefix of what some program knows (and what an opened program knows is a prefix of
it); inside, of these and the part that the writer has done, and no other process writes. `Keys`: whoever has read a key has
that of the file, and a key is never replaced. `Ledgers`: each entry of the chain links to the one
before, what a process is about to append was linked under the writer's lock, and an import has recorded all records
before the one it is at, but for those of files in `skipped` (`Importing`); marked or not, an entry stays and a skipped file stays
skipped. That two imports may interleave costs nothing: each has its own. `Typed` gives each process its place. `OpensItsOwn` is about the four steps that open: a history that a program knows is a prefix of its own, and
one that is also current is all of it; the check before the lock counts only where it is made again under it. Steps also `Grow` the ledgers
(`NothingTakenBack`), which the same case analysis shows.

### The context queue, its loops and the migration packages

`MigrationPackage_proofs` extends both compositions of the queue, whose names are kept apart (`LoopSpec`,
`LoopNext`), since the facts about the queue serve both. `ContextIInv` is proved of `ContextStep`, a step of the queue alone; the compositions only show
that theirs are such steps (`BuildsLeaveTheQueue`, `LoopKeepsIt`). Of a job's file and of a worker's copy it says
that a success in it rests on a package of which both files are of the edition that the result names, unless the job
has been displaced since (`Rests`); a worker that has read the manifest relies on the manifest in the same way until it
has compared the IR. A write of the same edition changes nothing of that, and a write of another puts
every job that has found its own into `displaced`, which never shrinks. Nothing is assumed of who else writes.

`LoopIInv` adds `ServiceInv`, that unless a race has happened a process in its loop is the one in the pidfile, and
`OwnsItsJob`, that unless a race has happened nobody else has its job and the job is not settled. A settled job is
then taken up by nobody.

`BuilderIInv` says where each builder is: exactly the one between `BEGIN IMMEDIATE` and its end has the
lock; past its key it has one, which is in the key file unless it has been robbed
(`SoundKey`); the output is a prefix of the artifacts, one longer than the list of what has been created while a
file is being written (`SoundOutput`); and (`SoundSnap`) a file in the copy is what it
was at the moment unless it has been touched since, the database in any case, since the lock
keeps it, and a file that the second fingerprint has passed is what it was at the moment. At the end
of the second fingerprint every file has been passed. `Visited` shows that the two orders visit
the same files. A restorer changes nothing that these speak of.

### The engines' processes

`BoundaryIInv` is about `run_process()` alone. `Alive` says that there is a process from the spawn on and that the
end of the pipe means nobody holds it; `Waited`, that the controller joins and collects only after
the process, which is why the code it returns is the final one; `Terminated`, that a
termination which no exception cut short has left nobody in the group. The two ways to `returned` then give
`NothingHoldsOn`: a last termination, or a process and a reader that have both ended. `RunIInv` adds
the adapters: an HTTP engine has no process, and a success is earned (`EarnedSuccess`), whatever the parser
made of the output.

`OutputIInv` follows what the process writes. `Kept`: what the reader holds and the pipe holds after it are, but for the
helper's lines, what the process has written, unless it was too much and a flag says so or will.
`Drained`: when the controller is about to take the output, the process is over and only its
helper's lines are unread, whether the reader is done or was left behind; a read that comes now may add such lines or
cut them off, and loses nothing of the process's own (`OwnKeeps`). `Taken`: the output of a process
that ended by itself is taken once and the flag read after it, so a result without the flag is whole. That needs
`Waited`, since otherwise the process could write on. `CollectedWhole` follows for any engine.

`WholeSuccess` adds what the parsers make of the output. A fold is a function on sets of indices in the
library; `FoldGoesOn` turns it, by induction over a set of numbers, into one that goes line by
line, and says so once for the parser, for the lines that are the engine's own and for the parts of
one type (`Turn`, `Folds`). `OpenCodeLine` and `PrimeLine` say which lines leave a result without a fault:
there was none before, the session was not over, and the line is no noise and no error.
`OpenCodeClean` and `PrimeClean` carry that through the stream, together with the text so far and, for
Prime, that the parser's `last` is the message that came last (`LastSaid`), which is why a
repetition is dropped and nothing else is. A clean output has no noise, so it has no line of the
helper, so it is what the engine said (`NothingElse`).

The hypothesis `WellSpoken` is what the parsers rely on and cannot check: a helper's line is no
event, and Prime sends each message once as `message_end`, never the same twice in a row, while `turn_end` and
`agent_end` repeat the last one or carry none. Without it a helper could forge an answer, and an
answer given twice in a row would be dropped as a repetition, and without its clause about errors a stream with an
empty one would count as a success; TLC evaluates it for the streams of the run.

### Assumptions

Each `...ConstantsOK` is an assumption on constants only, which TLC evaluates in the runs. Numbers are
numbers and limits are positive (`ConstantsOK`, `OrchestrationConstantsOK`, `SessionConstantsOK`,
`DaemonConstantsOK`, `StateRootConstantsOK`), and a retry may come at once (`ExecConstantsOK`). Names
that the code keeps apart are apart: `None` and "empty" are no process or builder
(`StateRootConstantsOK`, `MigrationConstantsOK`), `None` is no worker and no edition (`ContextConstantsOK`), who
starts a daemon and who stops it are two processes (`DaemonConstantsOK`), a class of engines is no engine
(`OrchestrationConstantsOK`), and neither is `auto` (`PolicyConstantsOK`). OpenCode is registered, as
`registry.py` always does, and the preference is a sequence (`PolicyConstantsOK`). The migrations of
a program come in a sequence without repetition, since `Migrator` refuses a version twice
(`StateRootConstantsOK`). Jobs and contexts are finitely many (`ContextConstantsOK`). Streams are
sequences of lines, none of which is the helper's (`StreamsOK`).

### Only model-checked

- Liveness: `TaskRunSettles`, `EngineComesBack`, `QueueDrains` and `BoundaryEnds`. Fairness and ENABLED are out of the
  provers' reach.
- `SingleInstance`, and the statements of findings 2 to 7, which the code does not keep.
- Restoration: `restore_state.py` is modelled, with what it checks, but checks directly before the move that makes
  it final; no property is stated of it, since it would repeat the check.

`TypeOK`, `ExecTypeOK`, `JobsTypeOK` and the daemon's and the sessions' are proved for all instances,
and no run repeats them.

## Not modelled

Three components: the skill foundry and the sandbox contracts, which validate immutable
records and keep nothing between calls, and configuration and discovery, which is I/O. In the
modelled parts:

- supervision: pid reuse, the wrapper and its node child as two processes, validation of the run
  directory, RPC; `harness svc`, which starts `supervise` through a wrapper.
- jobs, tasks, sessions: envelope files, priorities and listing (no claim orders by them),
  attachments, the text and encryption of turns. A closed session may get a turn (`sessions.py:314`), and a
  second renewal within a millisecond is refused (`tasks.py:571`): both are in the models, and nothing
  promises otherwise.
- kernel: catalogue, registries and validation (a plan is accepted or refused); `create_task`'s payload
  binding; observations of providers and resources, which no decision reads.
- engines: construction of arguments, zen, manifests; lenient parsing; the Windows branch of
  `run_process`; standard error but for its limit.
- context: the text a compilation produces; list and get, which read only.
- state root: runs, settings, secrets; cryptography. An authentic envelope opens with its key
  and with no other.
- migration: Git checks, reports, archives and signatures, each a step that may refuse.

## Plan

Done: `TaskRepository` with `TaskContract` and `KernelExecution`; `LegacyJobs`; `StartLock` and
`PrimeDaemon`; `Sessions`; `RoutingPolicy` and `Orchestration`; `ContextJobs` and `ServiceLoop`;
`MigrationPackage`; `EngineEvents`, `ProcessBoundary` and `EngineRun`; `StateRoot`.

Proved: whatever the passing runs check, but liveness.

Left: what "Not modelled" names (the skill foundry, the sandbox contracts, configuration and discovery),
where the code is mostly validation of data; and liveness in `Sessions` and `PrimeDaemon`, for which the
code states no schedule.
