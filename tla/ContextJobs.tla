---------------------------- MODULE ContextJobs ----------------------------
(***************************************************************************)
(* The context queue under the state root: ContextJobManager of            *)
(* harness2/context/jobs.py, the source snapshots it takes                 *)
(* (ExecutionStateRepository.capture_source, source_snapshot, load_source  *)
(* over LocalAuthenticatedStorage) and the packages it publishes           *)
(* (ContextPackage).  Each write of a file (atomic_write_json and          *)
(* atomic_write_bytes replace it as a whole) and each transaction is a step*)
(* of its own, and a process may die between any two.                      *)
(*                                                                         *)
(* A package directory is named by the name and the content of its source, *)
(* not by its version: what is written into it is its edition, and two     *)
(* editions of one context share the directory.  The source file of a      *)
(* package is named by its content and the same in every edition; it is    *)
(* left out.  Whose files another edition is written over is kept as       *)
(* history: the code does not know.                                        *)
(***************************************************************************)
EXTENDS Naturals, FiniteSets, FiniteSetsExt

CONSTANTS
    Jobs,      \* jobs that may be submitted
    Workers,   \* processes that call work_once()
    Shells,    \* invocations of "harness context compile"
    Contexts,  \* context ids
    Editions,  \* versions of a context
    Context,   \* the context id of a job or a compile command
    Edition    \* and its version

None == "none"

ASSUME ContextConstantsOK ==
    /\ Context \in [Jobs \cup Shells -> Contexts]
    /\ Edition \in [Jobs \cup Shells -> Editions]
    /\ IsFiniteSet(Jobs) /\ IsFiniteSet(Contexts)
    /\ None \notin Editions \cup Workers

VARIABLES
    objects,    \* jobs whose source is in the object store
    snapshots,  \* jobs with a row in kernel_source_snapshots
    file,       \* context-jobs/<id>.json
    package,    \* contexts/<context id>/
    displaced,  \* (history) jobs over whose package another edition was written
    submitter,  \* how far the submission of each job has come
    worker,     \* what each worker is doing
    shell       \* what each compile command is doing

root  == <<objects, snapshots, file, package, displaced>>
users == <<submitter, worker, shell>>
contextVars == <<root, users>>

-----------------------------------------------------------------------------
Job(status, created) ==
    [status |-> status, created |-> created, attempt |-> 0, result |-> None]

NoFile == Job(None, 0)

Settled == {"succeeded", "failed"}

Files == {j \in Jobs : file[j].status # None}

EmptyPackage == [ir |-> None, manifest |-> None]

\* ContextPackage.load(): the manifest names the hash of the IR it came with.
Loads(p) == p.manifest # None /\ p.ir = p.manifest

Idle == [at |-> "idle"]

ContextInit ==
    /\ objects = {}
    /\ snapshots = {}
    /\ file = [j \in Jobs |-> NoFile]
    /\ package = [c \in Contexts |-> EmptyPackage]
    /\ displaced = {}
    /\ submitter = [j \in Jobs |-> "no"]
    /\ worker = [w \in Workers |-> Idle]
    /\ shell = [s \in Shells |-> "no"]

-----------------------------------------------------------------------------
(***************************************************************************)
(* submit(): capture_source() puts the object, which is verified at once,  *)
(* and then binds it in a transaction; the file of the job comes last.     *)
(***************************************************************************)
\* Mutant: the object is only announced.
PutNothing(j) ==
    /\ submitter[j] = "no"
    /\ submitter' = [submitter EXCEPT ![j] = "put"]
    /\ UNCHANGED <<root, worker, shell>>

PutObject(j) ==
    /\ submitter[j] = "no"
    /\ objects' = objects \cup {j}
    /\ submitter' = [submitter EXCEPT ![j] = "put"]
    /\ UNCHANGED <<snapshots, file, package, displaced, worker, shell>>

BindSnapshot(j) ==
    /\ submitter[j] = "put"
    /\ snapshots' = snapshots \cup {j}
    /\ submitter' = [submitter EXCEPT ![j] = "bound"]
    /\ UNCHANGED <<objects, file, package, displaced, worker, shell>>

\* source_snapshot() reads and authenticates row and object.
Intact(j) == j \in snapshots /\ j \in objects

Enqueue(j) ==
    /\ submitter[j] = "bound"
    /\ Intact(j)
    /\ file' = [file EXCEPT ![j] = Job("queued", 1 + Cardinality(Files))]
    /\ submitter' = [submitter EXCEPT ![j] = "done"]
    /\ UNCHANGED <<objects, snapshots, package, displaced, worker, shell>>

SubmitDies(j) ==
    /\ submitter[j] \in {"put", "bound"}
    /\ submitter' = [submitter EXCEPT ![j] = "dead"]
    /\ UNCHANGED <<root, worker, shell>>

-----------------------------------------------------------------------------
(***************************************************************************)
(* work_once(): the first queued job is read, changed and written back     *)
(* without anything that keeps a second worker from doing the same.        *)
(***************************************************************************)
Queued == {j \in Files : file[j].status = "queued"}

First == CHOOSE j \in Queued : \A k \in Queued : file[j].created <= file[k].created

Working(w, place) == worker[w].at = place

Doing(w, place) == worker' = [worker EXCEPT ![w].at = place]

Pick(w) ==
    /\ Working(w, "idle")
    /\ Queued # {}
    /\ worker' = [worker EXCEPT ![w] = [at |-> "picked", job |-> First, copy |-> file[First]]]
    /\ UNCHANGED <<root, submitter, shell>>

MarkRunning(w) ==
    /\ Working(w, "picked")
    /\ LET running == [worker[w].copy EXCEPT !.status = "running", !.attempt = @ + 1]
       IN /\ file' = [file EXCEPT ![worker[w].job] = running]
          /\ worker' = [worker EXCEPT ![w].at = "running", ![w].copy = running]
    /\ UNCHANGED <<objects, snapshots, package, displaced, submitter, shell>>

\* What the worker will write at the end: the edition it loaded, or nothing.
Ends(w, status, result) ==
    worker' = [worker EXCEPT ![w].at = "ending",
                             ![w].copy.status = status, ![w].copy.result = result]

\* The source is loaded and compiled, which any source may refuse.
Compile(w) ==
    /\ Working(w, "running")
    /\ \/ Intact(worker[w].job) /\ Doing(w, "write ir")
       \/ Ends(w, "failed", None)
    /\ UNCHANGED <<root, submitter, shell>>

\* The jobs of a context that have found an edition other than e in its package:
\* their success says so, or a worker is about to say so.
Displaces(c, e) ==
    displaced' = displaced \cup
        {j \in Jobs : /\ Context[j] = c
                      /\ \/ file[j].status = "succeeded" /\ file[j].result # e
                         \/ \E w \in Workers :
                               /\ worker[w].at \in {"load ir", "ending"}
                               /\ worker[w].job = j
                               /\ worker[w].copy.result \notin {None, e}}

WriteIR(w) ==
    /\ Working(w, "write ir")
    /\ package' = [package EXCEPT ![Context[worker[w].job]].ir = Edition[worker[w].job]]
    /\ Displaces(Context[worker[w].job], Edition[worker[w].job])
    /\ Doing(w, "write manifest")
    /\ UNCHANGED <<objects, snapshots, file, submitter, shell>>

WriteManifest(w) ==
    /\ Working(w, "write manifest")
    /\ package' = [package EXCEPT ![Context[worker[w].job]].manifest = Edition[worker[w].job]]
    /\ Displaces(Context[worker[w].job], Edition[worker[w].job])
    /\ Doing(w, "load")
    /\ UNCHANGED <<objects, snapshots, file, submitter, shell>>

\* write() ends with load(), which reads the manifest first, and then the IR.
LoadManifest(w) ==
    /\ Working(w, "load")
    /\ worker' = [worker EXCEPT ![w].at = "load ir",
                                ![w].copy.result = package[Context[worker[w].job]].manifest]
    /\ UNCHANGED <<root, submitter, shell>>

\* Mutant: an IR of any edition is taken.
LoadAny(w) ==
    /\ Working(w, "load ir")
    /\ Ends(w, "succeeded", worker[w].copy.result)
    /\ UNCHANGED <<root, submitter, shell>>

\* An IR of another edition has another hash; else the result names the version.
LoadIR(w) ==
    /\ Working(w, "load ir")
    /\ LET found == worker[w].copy.result
       IN IF package[Context[worker[w].job]].ir = found
          THEN Ends(w, "succeeded", found) ELSE Ends(w, "failed", None)
    /\ UNCHANGED <<root, submitter, shell>>

Settle(w) ==
    /\ Working(w, "ending")
    /\ file' = [file EXCEPT ![worker[w].job] = worker[w].copy]
    /\ worker' = [worker EXCEPT ![w] = Idle]
    /\ UNCHANGED <<objects, snapshots, package, displaced, submitter, shell>>

WorkerDies(w) ==
    /\ ~Working(w, "idle")
    /\ worker' = [worker EXCEPT ![w] = Idle]
    /\ UNCHANGED <<root, submitter, shell>>

WorkStep(w) ==
    \/ MarkRunning(w) \/ Compile(w) \/ WriteIR(w) \/ WriteManifest(w)
    \/ LoadManifest(w) \/ LoadIR(w) \/ Settle(w)

-----------------------------------------------------------------------------
(***************************************************************************)
(* "harness context compile" writes a package without a job.               *)
(***************************************************************************)
ShellWritesIR(s) ==
    /\ shell[s] = "no"
    /\ package' = [package EXCEPT ![Context[s]].ir = Edition[s]]
    /\ Displaces(Context[s], Edition[s])
    /\ shell' = [shell EXCEPT ![s] = "ir"]
    /\ UNCHANGED <<objects, snapshots, file, submitter, worker>>

\* Unless it dies before.
ShellWritesManifest(s) ==
    /\ shell[s] = "ir"
    /\ package' = [package EXCEPT ![Context[s]].manifest = Edition[s]]
    /\ Displaces(Context[s], Edition[s])
    /\ shell' = [shell EXCEPT ![s] = "done"]
    /\ UNCHANGED <<objects, snapshots, file, submitter, worker>>

Submission(j) == PutObject(j) \/ BindSnapshot(j) \/ Enqueue(j) \/ SubmitDies(j)

Command(s) == ShellWritesIR(s) \/ ShellWritesManifest(s)

-----------------------------------------------------------------------------
(***************************************************************************)
(* Properties.                                                             *)
(***************************************************************************)

\* Wherever a submission dies, a job in the queue has the row of its snapshot
\* and a row has its object: no worker meets a job without a source
\* (ContextJobManager.submit, capture_source).
SnapshotsAreBacked ==
    /\ Files \subseteq snapshots
    /\ snapshots \subseteq objects

\* However the files of two editions of a context meet in its package, a job never
\* takes a mixture for its success: a succeeded job has a package that loads, in the
\* version of its result, whoever publishes the same context at the same time and
\* wherever they die, unless another edition has been written there after the job
\* has found its own (ContextPackage.write and load, ContextJobManager.work_once).
SucceededLoads ==
    \A j \in Jobs \ displaced :
        file[j].status = "succeeded"
        => /\ Loads(package[Context[j]])
           /\ package[Context[j]].manifest = file[j].result

=============================================================================
