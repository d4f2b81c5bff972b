----------------------- MODULE MigrationPackage_proofs -----------------------
(***************************************************************************)
(* Proofs about ContextJobs.tla under ServiceLoop.tla and under            *)
(* MigrationPackage.tla, for any jobs, contexts, workers, commands,        *)
(* builders and restorers.                                                 *)
(*                                                                         *)
(* Both compose the context queue with something else.  What the queue     *)
(* promises is therefore proved of ContextStep, a step of the queue alone, *)
(* and each composition only has to show that its steps are such steps.    *)
(***************************************************************************)
EXTENDS MigrationPackage, ServiceLoop, FiniteSetTheorems, SequenceTheorems, WellFoundedInduction, TLAPS

-----------------------------------------------------------------------------
(***************************************************************************)
(* The context queue, whoever its workers are.                             *)
(***************************************************************************)
ContextStep ==
    \/ \E j \in Jobs : Submission(j)
    \/ \E w \in Workers : Pick(w) \/ WorkStep(w) \/ WorkerDies(w)
    \/ \E s \in Shells : Command(s)

JobStatus == {None, "queued", "running", "succeeded", "failed"}

Results == Editions \cup {None}

JobFile == [status : JobStatus, created : Nat, attempt : Nat, result : Results]

PackageFiles == [ir : Results, manifest : Results]

Busy == {"picked", "running", "write ir", "write manifest", "load", "load ir", "ending"}

Run == [at : Busy, job : Jobs, copy : JobFile]

\* A success of job j that says so rests on the files it names, unless another
\* edition has been written over them since.
Rests(j, f) ==
    f.status = "succeeded" =>
        /\ f.result # None
        /\ j \notin displaced =>
              package[Context[j]].ir = f.result /\ package[Context[j]].manifest = f.result

SoundRun(u) ==
    u # Idle =>
        /\ u \in Run
        /\ file[u.job].status # None /\ u.copy.status # None
        /\ u.at = "load" => package[Context[u.job]].manifest # None
        /\ u.at = "load ir" =>
              /\ u.copy.result # None
              /\ u.job \notin displaced => package[Context[u.job]].manifest = u.copy.result
        /\ u.copy.status = "succeeded" => u.at = "ending"
        /\ Rests(u.job, u.copy)

SoundJob(j) ==
    /\ submitter[j] = "put" => j \in objects
    /\ submitter[j] = "bound" => j \in snapshots
    /\ file[j].status # None => submitter[j] = "done" /\ j \in snapshots
    /\ Rests(j, file[j])

ContextIInv ==
    /\ file \in [Jobs -> JobFile]
    /\ package \in [Contexts -> PackageFiles]
    /\ submitter = [j \in Jobs |-> submitter[j]]
    /\ worker = [w \in Workers |-> worker[w]]
    /\ shell = [s \in Shells |-> shell[s]]
    /\ snapshots \subseteq objects
    /\ \A j \in Jobs : SoundJob(j)
    /\ \A w \in Workers : SoundRun(worker[w])

-----------------------------------------------------------------------------
(***************************************************************************)
(* Records, one change after the other.                                    *)
(***************************************************************************)
LEMMA JobStatusSet ==
    \A f, x, g :
        f \in JobFile /\ x \in JobStatus /\ g = [f EXCEPT !.status = x]
        => /\ g \in JobFile
           /\ g.status = x /\ g.created = f.created /\ g.attempt = f.attempt /\ g.result = f.result
BY DEF JobFile

LEMMA JobResultSet ==
    \A f, x, g :
        f \in JobFile /\ x \in Results /\ g = [f EXCEPT !.result = x]
        => /\ g \in JobFile
           /\ g.status = f.status /\ g.created = f.created /\ g.attempt = f.attempt /\ g.result = x
BY DEF JobFile

LEMMA JobAttemptSet ==
    \A f, x, g :
        f \in JobFile /\ x \in Nat /\ g = [f EXCEPT !.attempt = x]
        => /\ g \in JobFile
           /\ g.status = f.status /\ g.created = f.created /\ g.attempt = x /\ g.result = f.result
BY DEF JobFile

LEMMA RunAtSet ==
    \A u, x, v :
        u \in Run /\ x \in Busy /\ v = [u EXCEPT !.at = x]
        => v \in Run /\ v.at = x /\ v.job = u.job /\ v.copy = u.copy
BY DEF Run

LEMMA RunCopySet ==
    \A u, f, v :
        u \in Run /\ f \in JobFile /\ v = [u EXCEPT !.copy = f]
        => v \in Run /\ v.at = u.at /\ v.job = u.job /\ v.copy = f
BY DEF Run

LEMMA IdleApart == \A u \in Run : u # Idle /\ u.at \in Busy /\ u.at # "idle" /\ u.job \in Jobs /\ u.copy \in JobFile
<1>1. \A u \in Run : u.at \in Busy /\ u.job \in Jobs /\ u.copy \in JobFile
  BY DEF Run
<1>2. Idle.at = "idle"
  BY DEF Idle
<1>3. "idle" \notin Busy
  BY DEF Busy
<1>4. QED
  BY <1>1, <1>2, <1>3

\* What the worker writes as it starts, and then holds.
Started(f) == [f EXCEPT !.status = "running", !.attempt = @ + 1]

Holding(u, f) == [u EXCEPT !.at = "running", !.copy = f]

LEMMA Starting ==
    ASSUME NEW u \in Run, NEW f, f = Started(u.copy), NEW v, v = Holding(u, f)
    PROVE  /\ f \in JobFile /\ f.status = "running" /\ f.attempt = u.copy.attempt + 1
           /\ f.result = u.copy.result /\ u.copy.attempt \in Nat
           /\ v \in Run /\ v.at = "running" /\ v.job = u.job /\ v.copy = f
<1> DEFINE to == "running"
           c == u.copy
           n == c.attempt + 1
           f1 == [c EXCEPT !.status = to]
           v1 == [u EXCEPT !.at = to]
<1>1. c \in JobFile /\ c.attempt \in Nat /\ n \in Nat /\ to \in JobStatus /\ to \in Busy
  <2>1. c \in JobFile
    BY DEF Run
  <2>2. c.attempt \in Nat
    BY <2>1 DEF JobFile
  <2>3. to \in JobStatus /\ to \in Busy
    BY DEF JobStatus, Busy
  <2>4. QED
    BY <2>1, <2>2, <2>3
<1>2. f1 = [c EXCEPT !.status = to] /\ v1 = [u EXCEPT !.at = to]
  OBVIOUS
<1>3. f = [f1 EXCEPT !.attempt = n]
  BY <1>1 DEF JobFile, Started
<1>4. v = [v1 EXCEPT !.copy = f]
  BY DEF Holding
<1> HIDE DEF to, c, n, f1, v1
<1>5. f1 \in JobFile /\ f1.status = to /\ f1.result = c.result
  BY ONLY <1>1, <1>2, JobStatusSet
<1>6. f \in JobFile /\ f.status = to /\ f.attempt = n /\ f.result = c.result
  BY ONLY <1>1, <1>3, <1>5, JobAttemptSet
<1>7. v1 \in Run /\ v1.at = to /\ v1.job = u.job
  BY ONLY <1>1, <1>2, u \in Run, RunAtSet
<1>8. v \in Run /\ v.at = to /\ v.job = u.job /\ v.copy = f
  BY ONLY <1>4, <1>6, <1>7, RunCopySet
<1>9. QED
  BY <1>1, <1>6, <1>8 DEF to, n, c

\* What the worker holds as it ends.
Ended(u, x, e) == [u EXCEPT !.at = "ending", !.copy.status = x, !.copy.result = e]

LEMMA Ending ==
    ASSUME NEW u \in Run, NEW x \in JobStatus, NEW e \in Results,
           NEW v, v = Ended(u, x, e)
    PROVE  /\ v \in Run /\ v.at = "ending" /\ v.job = u.job
           /\ v.copy \in JobFile /\ v.copy.status = x /\ v.copy.result = e
           /\ v.copy.attempt = u.copy.attempt
<1> DEFINE to == "ending"
           c == u.copy
           c1 == [c EXCEPT !.status = x]
           c2 == [c1 EXCEPT !.result = e]
           v1 == [u EXCEPT !.at = to]
<1>1. c \in JobFile /\ to \in Busy
  BY DEF Run, Busy
<1>2. c1 = [c EXCEPT !.status = x] /\ v1 = [u EXCEPT !.at = to]
  OBVIOUS
<1>3. c2 = [c1 EXCEPT !.result = e]
  OBVIOUS
<1>4. v = [v1 EXCEPT !.copy = c2]
  BY DEF Run, JobFile, Ended
<1> HIDE DEF to, c, c1, c2, v1
<1>5. c1 \in JobFile /\ c1.status = x /\ c1.attempt = c.attempt
  BY ONLY <1>1, <1>2, x \in JobStatus, JobStatusSet
<1>6. c2 \in JobFile /\ c2.status = c1.status /\ c2.attempt = c1.attempt /\ c2.result = e
  BY ONLY <1>3, <1>5, e \in Results, JobResultSet
<1>7. v1 \in Run /\ v1.at = to /\ v1.job = u.job
  BY ONLY <1>1, <1>2, u \in Run, RunAtSet
<1>8. v \in Run /\ v.at = to /\ v.job = u.job /\ v.copy = c2
  BY ONLY <1>4, <1>6, <1>7, RunCopySet
<1>9. QED
  BY <1>5, <1>6, <1>8 DEF to, c

-----------------------------------------------------------------------------
(***************************************************************************)
(* A step that writes no package takes nothing from what a success rests   *)
(* on, nor from what a worker has found.                                   *)
(***************************************************************************)
Stays ==
    /\ \A j \in Jobs : file[j].status # None => file'[j].status # None
    /\ UNCHANGED <<package, displaced>>

LEMMA RestsStays == Stays => \A j, f : Rests(j, f) => Rests(j, f)'
BY DEF Stays, Rests

LEMMA RunStays == Stays => \A u : SoundRun(u) => SoundRun(u)'
<1> SUFFICES ASSUME Stays, NEW u, SoundRun(u), u # Idle
             PROVE  /\ u \in Run
                    /\ file'[u.job].status # None /\ u.copy.status # None
                    /\ u.at = "load" => package'[Context[u.job]].manifest # None
                    /\ u.at = "load ir" =>
                          /\ u.copy.result # None
                          /\ u.job \notin displaced' =>
                                package'[Context[u.job]].manifest = u.copy.result
                    /\ u.copy.status = "succeeded" => u.at = "ending"
                    /\ Rests(u.job, u.copy)'
  BY DEF SoundRun
<1>1. PICK j, f : j = u.job /\ f = u.copy
  OBVIOUS
<1>2. u \in Run /\ j \in Jobs /\ Rests(j, f)
  BY <1>1, IdleApart DEF SoundRun
<1>3. Rests(j, f)'
  BY <1>2, RestsStays
<1>4. QED
  BY <1>1, <1>2, <1>3 DEF SoundRun, Stays

\* What each worker has found is still there.
RunsStay == \A x \in Workers : \A u : u = worker[x] => SoundRun(u)'

LEMMA StaysRuns == ContextIInv /\ Stays => RunsStay
BY RunStays DEF ContextIInv, RunsStay

\* A step that leaves the files and the packages alone.
LEMMA RootKept ==
    UNCHANGED <<file, package, displaced>>
    => /\ Stays
       /\ \A j \in Jobs : Rests(j, file[j]) => Rests(j, file[j])'
BY DEF Stays, Rests

\* What is left of the invariant once one worker has moved, or none.
LEMMA WorkerChanges ==
    ASSUME ContextIInv, RunsStay, NEW w \in Workers, NEW v, SoundRun(v)',
           worker' = [worker EXCEPT ![w] = v]
    PROVE  /\ worker' = [x \in Workers |-> worker'[x]]
           /\ \A x \in Workers : SoundRun(worker[x])'
<1>1. worker = [x \in Workers |-> worker[x]]
  BY DEF ContextIInv
<1>2. \A x \in Workers : worker'[x] = IF x = w THEN v ELSE worker[x]
  BY <1>1
<1>3. worker' = [x \in Workers |-> worker'[x]]
  BY <1>1
<1>4. ASSUME NEW x \in Workers
      PROVE  SoundRun(worker[x])'
  <2>1. PICK u : u = worker[x]
    OBVIOUS
  <2>2. SoundRun(u)'
    BY <2>1 DEF RunsStay
  <2>3. CASE x = w
    <3>1. worker'[x] = v
      BY <2>3, <1>2
    <3>2. QED
      BY <3>1, SoundRun(v)' DEF SoundRun
  <2>4. CASE x # w
    <3>1. worker'[x] = u
      BY <2>4, <2>1, <1>2
    <3>2. QED
      BY <3>1, <2>2 DEF SoundRun
  <2>5. QED
    BY <2>3, <2>4
<1>5. QED
  BY <1>3, <1>4

LEMMA WorkersKept ==
    ASSUME ContextIInv, RunsStay, UNCHANGED worker
    PROVE  /\ worker' = [x \in Workers |-> worker'[x]]
           /\ \A x \in Workers : SoundRun(worker[x])'
<1>1. ASSUME NEW x \in Workers
      PROVE  SoundRun(worker[x])'
  <2>1. PICK u : u = worker[x]
    OBVIOUS
  <2>2. SoundRun(u)'
    BY <2>1 DEF RunsStay
  <2>3. worker'[x] = u
    BY <2>1
  <2>4. QED
    BY <2>2, <2>3 DEF SoundRun
<1>2. QED
  BY <1>1 DEF ContextIInv

-----------------------------------------------------------------------------
(***************************************************************************)
(* Submissions.                                                            *)
(***************************************************************************)
LEMMA FilesFinite == Cardinality(Files) \in Nat
<1>1. Files \subseteq Jobs
  BY DEF Files
<1>2. IsFiniteSet(Files)
  BY <1>1, ContextConstantsOK, FS_Subset
<1>3. QED
  BY <1>2, FS_CardinalityType

LEMMA SourcesKeepIt ==
    ASSUME ContextIInv, NEW j \in Jobs, PutObject(j) \/ BindSnapshot(j) \/ SubmitDies(j)
    PROVE  ContextIInv'
<1>1. UNCHANGED <<file, package, displaced, shell, worker>>
  BY DEF PutObject, BindSnapshot, SubmitDies, root
<1>2. /\ RunsStay
      /\ \A k \in Jobs : Rests(k, file[k]) => Rests(k, file[k])'
  BY <1>1, RootKept, StaysRuns
<1>3. /\ worker' = [x \in Workers |-> worker'[x]]
      /\ \A x \in Workers : SoundRun(worker[x])'
  BY <1>1, <1>2, WorkersKept
<1>4. /\ submitter' = [k \in Jobs |-> submitter'[k]]
      /\ \A k \in Jobs : k # j => submitter'[k] = submitter[k]
      /\ objects \subseteq objects' /\ snapshots \subseteq snapshots' /\ snapshots' \subseteq objects'
      /\ submitter'[j] = "put" => j \in objects'
      /\ submitter'[j] = "bound" => j \in snapshots'
      /\ submitter[j] # "done"
  BY DEF PutObject, BindSnapshot, SubmitDies, root, ContextIInv, SoundJob
<1>5. ASSUME NEW k \in Jobs
      PROVE  SoundJob(k)'
  <2>1. SoundJob(k) /\ Rests(k, file[k])'
    BY <1>2 DEF ContextIInv, SoundJob
  <2>2. file'[k] = file[k] /\ objects \subseteq objects' /\ snapshots \subseteq snapshots'
    BY <1>1, <1>4
  <2>3. CASE k = j
    BY <2>1, <2>2, <2>3, <1>4 DEF SoundJob
  <2>4. CASE k # j
    BY <2>1, <2>2, <2>4, <1>4 DEF SoundJob
  <2>5. QED
    BY <2>3, <2>4
<1>6. QED
  BY <1>1, <1>2, <1>3, <1>4, <1>5 DEF ContextIInv

\* One file of the queue is written.
LEMMA FileWritten ==
    ASSUME ContextIInv, NEW j \in Jobs, NEW f \in JobFile, file' = [file EXCEPT ![j] = f],
           f.status # None, UNCHANGED <<package, displaced>>
    PROVE  /\ Stays
           /\ file' \in [Jobs -> JobFile]
           /\ file'[j] = f
           /\ \A k \in Jobs : k # j => file'[k] = file[k]
           /\ \A k \in Jobs : k # j => Rests(k, file[k])'
<1>1. file \in [Jobs -> JobFile]
  BY DEF ContextIInv
<1>2. file' \in [Jobs -> JobFile] /\ file'[j] = f /\ \A k \in Jobs : k # j => file'[k] = file[k]
  BY <1>1
<1>3. Stays
  BY <1>2 DEF Stays
<1>4. ASSUME NEW k \in Jobs, k # j
      PROVE  Rests(k, file[k])'
  <2>1. PICK g : g = file[k]
    OBVIOUS
  <2>2. Rests(k, g)'
    BY <2>1, <1>3, RestsStays DEF ContextIInv, SoundJob
  <2>3. file'[k] = g
    BY <2>1, <1>2, <1>4
  <2>4. QED
    BY <2>2, <2>3 DEF Rests
<1>5. QED
  BY <1>2, <1>3, <1>4

LEMMA EnqueueKeepsIt ==
    ASSUME ContextIInv, NEW j \in Jobs, Enqueue(j)
    PROVE  ContextIInv'
<1> DEFINE f == Job("queued", 1 + Cardinality(Files))
<1>1. PICK n \in Nat : n = 1 + Cardinality(Files)
  BY FilesFinite
<1>2. PICK g : g = Job("queued", n)
  OBVIOUS
<1>3. g \in JobFile /\ g.status = "queued"
  BY <1>2 DEF Job, JobFile, JobStatus, Results, None
<1>4. file' = [file EXCEPT ![j] = g]
  BY <1>1, <1>2 DEF Enqueue
<1>5. /\ submitter[j] = "bound" /\ j \in snapshots
      /\ submitter' = [submitter EXCEPT ![j] = "done"]
      /\ UNCHANGED <<objects, snapshots, package, displaced, worker, shell>>
  BY DEF Enqueue, Intact
<1>6. file[j].status = None
  BY <1>5 DEF ContextIInv, SoundJob
<1>7. /\ RunsStay
      /\ file' \in [Jobs -> JobFile]
      /\ file'[j] = g
      /\ \A k \in Jobs : k # j => file'[k] = file[k]
      /\ \A k \in Jobs : k # j => Rests(k, file[k])'
  <2>1. g.status # None
    BY <1>3 DEF None
  <2>2. UNCHANGED <<package, displaced>>
    BY <1>5
  <2>3. QED
    BY <2>1, <2>2, <1>3, <1>4, FileWritten, StaysRuns
<1>8. Rests(j, file[j])'
  BY <1>3, <1>7 DEF Rests
<1>9. ASSUME NEW k \in Jobs
      PROVE  SoundJob(k)'
  <2>1. submitter = [i \in Jobs |-> submitter[i]] /\ SoundJob(k)
    BY DEF ContextIInv
  <2>2. CASE k = j
    BY <2>1, <2>2, <1>3, <1>5, <1>7, <1>8 DEF SoundJob, None
  <2>3. CASE k # j
    BY <2>1, <2>3, <1>5, <1>7 DEF SoundJob
  <2>4. QED
    BY <2>2, <2>3
<1>10. /\ worker' = [x \in Workers |-> worker'[x]]
       /\ \A x \in Workers : SoundRun(worker[x])'
  BY <1>5, <1>7, WorkersKept
<1>11. /\ submitter' = [k \in Jobs |-> submitter'[k]]
       /\ shell' = [s \in Shells |-> shell'[s]]
       /\ package' \in [Contexts -> PackageFiles]
       /\ snapshots' \subseteq objects'
  BY <1>5 DEF ContextIInv
<1>12. QED
  BY <1>7, <1>9, <1>10, <1>11 DEF ContextIInv

-----------------------------------------------------------------------------
(***************************************************************************)
(* Workers.                                                                *)
(***************************************************************************)
\* A step of a worker that writes no file.
LEMMA WorkerAlone ==
    ASSUME ContextIInv, UNCHANGED <<root, submitter, shell>>,
           NEW w \in Workers, NEW v, SoundRun(v), worker' = [worker EXCEPT ![w] = v]
    PROVE  ContextIInv'
<1>1. UNCHANGED <<objects, snapshots, file, package, displaced, submitter, shell>>
  BY DEF root
<1>2. /\ Stays /\ RunsStay
      /\ \A k \in Jobs : Rests(k, file[k]) => Rests(k, file[k])'
  BY <1>1, RootKept, StaysRuns
<1>3. SoundRun(v)'
  BY <1>2, RunStays
<1>4. /\ worker' = [x \in Workers |-> worker'[x]]
      /\ \A x \in Workers : SoundRun(worker[x])'
  BY <1>2, <1>3, WorkerChanges
<1>5. \A k \in Jobs : SoundJob(k)'
  BY <1>1, <1>2 DEF ContextIInv, SoundJob
<1>6. QED
  BY <1>1, <1>2, <1>4, <1>5 DEF ContextIInv

LEMMA IdleIsSound == SoundRun(Idle)
BY DEF SoundRun

LEMMA DiesKeepsIt ==
    ASSUME ContextIInv, NEW w \in Workers, WorkerDies(w)
    PROVE  ContextIInv'
BY WorkerAlone, IdleIsSound DEF WorkerDies

\* A worker that does something has a job.
LEMMA AtWork ==
    ASSUME ContextIInv, NEW w \in Workers, NEW p \in Busy, Working(w, p)
    PROVE  /\ worker[w] # Idle /\ worker[w] \in Run
           /\ worker[w].job \in Jobs /\ worker[w].copy \in JobFile
           /\ SoundRun(worker[w])
<1>1. SoundRun(worker[w])
  BY DEF ContextIInv
<1>2. worker[w] # Idle
  <2>1. Idle.at = "idle" /\ "idle" \notin Busy
    BY DEF Idle, Busy
  <2>2. worker[w].at = p
    BY DEF Working
  <2>3. QED
    BY <2>1, <2>2
<1>3. QED
  BY <1>1, <1>2, IdleApart DEF SoundRun

LEMMA LeastNatural ==
    ASSUME NEW S, S \subseteq Nat, S # {}
    PROVE  \E n \in S : \A m \in S : n <= m
<1> DEFINE R == OpToRel(<, Nat)
<1>1. PICK x \in S : \A y \in S : <<y, x>> \notin R
  <2>1. IsWellFoundedOn(R, Nat)
    BY NatLessThanWellFounded
  <2> HIDE DEF R
  <2>2. QED
    BY <2>1, WFMin
<1>2. ASSUME NEW y \in S PROVE x <= y
  <2>1. SUFFICES ASSUME y < x PROVE FALSE
    OBVIOUS
  <2>2. <<y, x>> \in R
    BY <2>1 DEF OpToRel
  <2>3. QED
    BY <1>1, <2>2
<1>3. QED
  BY <1>2

\* The queue has a first job.
LEMMA FirstQueued ==
    ASSUME ContextIInv, Queued # {}
    PROVE  First \in Jobs /\ file[First].status = "queued"
<1> DEFINE N == {file[j].created : j \in Queued}
<1>1. Queued \subseteq Jobs /\ \A j \in Queued : file[j].status = "queued"
  BY DEF Queued, Files
<1>2. \A j \in Queued : file[j].created \in Nat
  BY <1>1 DEF ContextIInv, JobFile
<1>3. N \subseteq Nat /\ N # {}
  BY <1>2
<1>4. PICK n \in N : \A m \in N : n <= m
  <2> HIDE DEF N
  <2>1. QED
    BY <1>3, LeastNatural
<1>5. \E j \in Queued : \A k \in Queued : file[j].created <= file[k].created
  BY <1>4
<1>6. First \in Queued
  BY <1>5 DEF First
<1>7. QED
  BY <1>1, <1>6

LEMMA PickKeepsIt ==
    ASSUME ContextIInv, NEW w \in Workers, Pick(w)
    PROVE  ContextIInv'
<1>1. Queued # {}
  BY DEF Pick
<1>2. PICK j \in Jobs : j = First
  BY <1>1, FirstQueued
<1>3. file[j].status = "queued" /\ file[j] \in JobFile /\ SoundJob(j)
  BY <1>1, <1>2, FirstQueued DEF ContextIInv
<1>4. PICK v : v = [at |-> "picked", job |-> j, copy |-> file[j]]
  OBVIOUS
<1>5. v \in Run /\ v.at = "picked" /\ v.job = j /\ v.copy = file[j]
  BY <1>3, <1>4 DEF Run, Busy
<1>6. SoundRun(v)
  BY <1>3, <1>5 DEF SoundRun, SoundJob, None
<1>7. worker' = [worker EXCEPT ![w] = v] /\ UNCHANGED <<root, submitter, shell>>
  BY <1>2, <1>4 DEF Pick
<1>8. QED
  BY <1>6, <1>7, WorkerAlone

\* Another place, the same copy.
LEMMA DoingIsSound ==
    ASSUME ContextIInv, NEW w \in Workers, NEW p \in Busy, p # "ending", Working(w, p),
           NEW q \in Busy, q \notin {"load", "load ir"},
           NEW v, v = [worker[w] EXCEPT !.at = q]
    PROVE  SoundRun(v)
<1>1. /\ worker[w] \in Run /\ SoundRun(worker[w]) /\ worker[w] # Idle
  BY AtWork
<1>2. PICK u : u = worker[w]
  OBVIOUS
<1>3. v \in Run /\ v.at = q /\ v.job = u.job /\ v.copy = u.copy
  <2>1. u \in Run /\ v = [u EXCEPT !.at = q]
    BY <1>1, <1>2
  <2>2. QED
    BY ONLY <2>1, q \in Busy, RunAtSet
<1>4. u.at = p
  BY <1>2 DEF Working
<1>5. QED
  BY <1>1, <1>2, <1>3, <1>4 DEF SoundRun

LEMMA EndingIsSound ==
    ASSUME ContextIInv, NEW w \in Workers, NEW p \in Busy, p # "picked", Working(w, p),
           NEW x \in JobStatus, x # None, NEW e \in Results,
           x = "succeeded" =>
               /\ e # None
               /\ worker[w].job \notin displaced =>
                     /\ package[Context[worker[w].job]].ir = e
                     /\ package[Context[worker[w].job]].manifest = e,
           Ends(w, x, e)
    PROVE  \E v : SoundRun(v) /\ worker' = [worker EXCEPT ![w] = v]
<1>1. /\ worker[w] \in Run /\ SoundRun(worker[w]) /\ worker[w] # Idle
  BY AtWork
<1>2. PICK u : u = worker[w]
  OBVIOUS
<1>3. PICK v : v = Ended(u, x, e)
  OBVIOUS
<1>4. worker' = [worker EXCEPT ![w] = v]
  BY <1>2, <1>3 DEF Ends, Ended
<1>5. /\ v \in Run /\ v.at = "ending" /\ v.job = u.job
      /\ v.copy.status = x /\ v.copy.result = e
  <2>1. u \in Run /\ x \in JobStatus /\ e \in Results
    BY <1>1, <1>2
  <2>2. QED
    BY ONLY <2>1, <1>3, Ending
<1>6. u.at = p
  BY <1>2 DEF Working
<1>7. Rests(v.job, v.copy)
  BY <1>2, <1>5 DEF Rests
<1>8. SoundRun(v)
  BY <1>1, <1>2, <1>5, <1>6, <1>7 DEF SoundRun
<1>9. QED
  BY <1>4, <1>8

LEMMA CompileKeepsIt ==
    ASSUME ContextIInv, NEW w \in Workers, Compile(w)
    PROVE  ContextIInv'
<1>1. Working(w, "running") /\ UNCHANGED <<root, submitter, shell>>
      /\ "running" \in Busy /\ "running" # "picked" /\ "running" # "ending"
  BY DEF Compile, Busy
<1>2. CASE Doing(w, "write ir")
  <2>1. PICK v : v = [worker[w] EXCEPT !.at = "write ir"]
    OBVIOUS
  <2>2. "write ir" \in Busy /\ "write ir" \notin {"load", "load ir"}
    BY DEF Busy
  <2>3. SoundRun(v)
    BY <1>1, <2>1, <2>2, DoingIsSound
  <2>4. worker' = [worker EXCEPT ![w] = v]
    BY <1>2, <2>1 DEF Doing
  <2>5. QED
    BY <1>1, <2>3, <2>4, WorkerAlone
<1>3. CASE Ends(w, "failed", None)
  <2>1. "failed" \in JobStatus /\ "failed" # None /\ None \in Results
    BY DEF JobStatus, Results, None
  <2>2. PICK v : SoundRun(v) /\ worker' = [worker EXCEPT ![w] = v]
    BY <1>1, <1>3, <2>1, EndingIsSound
  <2>3. QED
    BY <1>1, <2>2, WorkerAlone
<1>4. QED
  BY <1>2, <1>3 DEF Compile

\* The manifest the worker takes with it.
Finding(u, e) == [u EXCEPT !.at = "load ir", !.copy.result = e]

HasFound(u, e, v) ==
    /\ v \in Run /\ v.at = "load ir" /\ v.job = u.job
    /\ v.copy \in JobFile /\ v.copy.status = u.copy.status /\ v.copy.result = e

LEMMA Found ==
    ASSUME NEW u \in Run, NEW e \in Results, NEW v, v = Finding(u, e)
    PROVE  HasFound(u, e, v)
<1> DEFINE to == "load ir"
           c == u.copy
           c1 == [c EXCEPT !.result = e]
           v1 == [u EXCEPT !.at = to]
<1>1. c \in JobFile /\ to \in Busy
  BY DEF Run, Busy
<1>2. c1 = [c EXCEPT !.result = e] /\ v1 = [u EXCEPT !.at = to]
  OBVIOUS
<1>3. v = [v1 EXCEPT !.copy = c1]
  BY DEF Run, JobFile, Finding
<1> HIDE DEF to, c, c1, v1
<1>4. c1 \in JobFile /\ c1.status = c.status /\ c1.result = e
  BY ONLY <1>1, <1>2, e \in Results, JobResultSet
<1>5. v1 \in Run /\ v1.at = to /\ v1.job = u.job
  BY ONLY <1>1, <1>2, u \in Run, RunAtSet
<1>6. v \in Run /\ v.at = to /\ v.job = u.job /\ v.copy = c1
  BY ONLY <1>3, <1>4, <1>5, RunCopySet
<1>7. QED
  BY <1>4, <1>6 DEF to, c, HasFound

LEMMA LoadManifestKeepsIt ==
    ASSUME ContextIInv, NEW w \in Workers, LoadManifest(w)
    PROVE  ContextIInv'
<1>1. Working(w, "load") /\ UNCHANGED <<root, submitter, shell>> /\ "load" \in Busy
  BY DEF LoadManifest, Busy
<1>2. PICK u, e : u = worker[w] /\ e = package[Context[u.job]].manifest
  OBVIOUS
<1>3. u \in Run /\ u # Idle /\ SoundRun(u) /\ u.job \in Jobs /\ u.at = "load"
  BY <1>1, <1>2, AtWork DEF Working
<1>4. e # None /\ e \in Results
  BY <1>2, <1>3, ContextConstantsOK DEF SoundRun, ContextIInv, PackageFiles
<1>5. PICK v : v = Finding(u, e)
  OBVIOUS
<1>6. /\ v \in Run /\ v.at = "load ir" /\ v.job = u.job
      /\ v.copy.status = u.copy.status /\ v.copy.result = e
  <2>1. u \in Run /\ e \in Results /\ v = Finding(u, e)
    BY <1>3, <1>4, <1>5
  <2>2. HasFound(u, e, v)
    BY ONLY <2>1, Found
  <2>3. QED
    BY <2>2 DEF HasFound
<1>7. u.copy.status # "succeeded"
  BY <1>3 DEF SoundRun
<1>8. Rests(v.job, v.copy)
  BY <1>6, <1>7 DEF Rests
<1>9. SoundRun(v)
  BY <1>2, <1>3, <1>4, <1>6, <1>7, <1>8 DEF SoundRun
<1>10. worker' = [worker EXCEPT ![w] = v]
  BY <1>2, <1>5 DEF LoadManifest, Finding
<1>11. QED
  BY <1>1, <1>9, <1>10, WorkerAlone

LEMMA LoadIRKeepsIt ==
    ASSUME ContextIInv, NEW w \in Workers, LoadIR(w)
    PROVE  ContextIInv'
<1>1. Working(w, "load ir") /\ UNCHANGED <<root, submitter, shell>>
      /\ "load ir" \in Busy /\ "load ir" # "picked"
  BY DEF LoadIR, Busy
<1>2. PICK u, e : u = worker[w] /\ e = u.copy.result
  OBVIOUS
<1>3. u \in Run /\ u # Idle /\ SoundRun(u) /\ u.copy \in JobFile /\ u.at = "load ir"
  BY <1>1, <1>2, AtWork DEF Working
<1>4. /\ e # None /\ e \in Results
      /\ u.job \notin displaced => package[Context[u.job]].manifest = e
  BY <1>2, <1>3 DEF SoundRun, JobFile
<1>5. CASE package[Context[u.job]].ir = e
  <2>1. Ends(w, "succeeded", e)
    BY <1>2, <1>5 DEF LoadIR
  <2>2. "succeeded" \in JobStatus /\ "succeeded" # None
    BY DEF JobStatus, None
  <2>3. PICK v : SoundRun(v) /\ worker' = [worker EXCEPT ![w] = v]
    BY <1>1, <1>2, <1>4, <1>5, <2>1, <2>2, EndingIsSound
  <2>4. QED
    BY <1>1, <2>3, WorkerAlone
<1>6. CASE package[Context[u.job]].ir # e
  <2>1. "failed" \in JobStatus /\ "failed" # None /\ None \in Results
    BY DEF JobStatus, Results, None
  <2>2. Ends(w, "failed", None)
    BY <1>2, <1>6 DEF LoadIR
  <2>3. PICK v : SoundRun(v) /\ worker' = [worker EXCEPT ![w] = v]
    BY <1>1, <2>1, <2>2, EndingIsSound
  <2>4. QED
    BY <1>1, <2>3, WorkerAlone
<1>7. QED
  BY <1>5, <1>6

\* A file of a package is written: what rested on another edition is displaced.
LEMMA PackageWritten ==
    ASSUME ContextIInv, UNCHANGED file, NEW c \in Contexts, NEW e \in Editions,
           NEW p \in PackageFiles, package' = [package EXCEPT ![c] = p], Displaces(c, e),
           p.ir \in {package[c].ir, e}, p.manifest \in {package[c].manifest, e}
    PROVE  /\ RunsStay
           /\ package' \in [Contexts -> PackageFiles]
           /\ \A k \in Jobs : Rests(k, file[k])'
<1>1. package' \in [Contexts -> PackageFiles] /\ package'[c] = p
      /\ \A d \in Contexts : d # c => package'[d] = package[d]
  BY DEF ContextIInv
<1>2. e # None
  BY ContextConstantsOK
<1>3. displaced \subseteq displaced'
  BY DEF Displaces
<1>4. ASSUME NEW k \in Jobs
      PROVE  Rests(k, file[k])'
  <2>1. PICK f : f = file[k]
    OBVIOUS
  <2>2. Rests(k, f) /\ f = file'[k] /\ Context[k] \in Contexts
    BY <2>1, ContextConstantsOK DEF ContextIInv, SoundJob
  <2>3. CASE Context[k] = c
    <3>1. f.status = "succeeded" /\ k \notin displaced' => f.result = e
      BY <2>1, <2>3 DEF Displaces
    <3>2. QED
      BY <2>2, <2>3, <3>1, <1>1, <1>3 DEF Rests
  <2>4. CASE Context[k] # c
    BY <2>2, <2>4, <1>1, <1>3 DEF Rests
  <2>5. QED
    BY <2>3, <2>4
<1>5. ASSUME NEW x \in Workers, NEW u, u = worker[x], u # Idle
      PROVE  SoundRun(u)'
  <2>1. SoundRun(u) /\ u \in Run
    BY <1>5 DEF ContextIInv, SoundRun
  <2>2. PICK k \in Jobs, d \in Contexts : k = u.job /\ d = Context[k]
    BY <2>1, IdleApart, ContextConstantsOK
  <2>3. PICK f : f = u.copy
    OBVIOUS
  <2>4. d = c /\ k \notin displaced' /\ u.at \in {"load ir", "ending"} => f.result \in {None, e}
    BY <1>5, <2>2, <2>3 DEF Displaces
  <2>5. f.status = "succeeded" => u.at = "ending"
    BY <2>1, <2>3, <1>5 DEF SoundRun
  <2>6. Rests(k, f)
    BY <2>1, <2>2, <2>3, <1>5 DEF SoundRun
  <2>7. Rests(k, f)'
    <3>1. CASE d = c
      BY <2>2, <2>4, <2>5, <2>6, <3>1, <1>1, <1>3 DEF Rests
    <3>2. CASE d # c
      BY <2>2, <2>6, <3>2, <1>1, <1>3 DEF Rests
    <3>3. QED
      BY <3>1, <3>2
  <2>8. u.at = "load" => package'[d].manifest # None
    BY <2>1, <2>2, <1>1, <1>2, <1>5 DEF SoundRun
  <2>9. u.at = "load ir" =>
            /\ f.result # None
            /\ k \notin displaced' => package'[d].manifest = f.result
    <3>1. CASE d = c
      BY <2>1, <2>2, <2>3, <2>4, <3>1, <1>1, <1>3, <1>5 DEF SoundRun
    <3>2. CASE d # c
      BY <2>1, <2>2, <2>3, <3>2, <1>1, <1>3, <1>5 DEF SoundRun
    <3>3. QED
      BY <3>1, <3>2
  <2>10. QED
    BY <2>1, <2>2, <2>3, <2>7, <2>8, <2>9, <1>5 DEF SoundRun
<1>6. RunsStay
  <2>1. SoundRun(Idle)'
    BY DEF SoundRun
  <2>2. QED
    BY <2>1, <1>5 DEF RunsStay
<1>7. QED
  BY <1>1, <1>4, <1>6

LEMMA PackageFileSet ==
    ASSUME NEW p \in PackageFiles, NEW e \in Editions, NEW q,
           q = [p EXCEPT !.ir = e] \/ q = [p EXCEPT !.manifest = e]
    PROVE  q \in PackageFiles /\ q.ir \in {p.ir, e} /\ q.manifest \in {p.manifest, e}
BY DEF PackageFiles, Results

\* A worker writes a file of the package.
LEMMA WorkerPublishes ==
    ASSUME ContextIInv, NEW w \in Workers, NEW p \in Busy, p # "ending", Working(w, p),
           NEW q \in Busy, q # "load ir", Doing(w, q), NEW c, NEW e,
           c = Context[worker[w].job], e = Edition[worker[w].job],
           NEW r \in PackageFiles, package' = [package EXCEPT ![c] = r], Displaces(c, e),
           r.ir \in {package[c].ir, e}, r.manifest \in {package[c].manifest, e},
           q = "load" => r.manifest # None,
           UNCHANGED <<objects, snapshots, file, submitter, shell>>
    PROVE  ContextIInv'
<1>1. PICK u : u = worker[w]
  OBVIOUS
<1>2. u \in Run /\ u # Idle /\ SoundRun(u) /\ u.at = p /\ u.job \in Jobs
  BY <1>1, AtWork DEF Working
<1>3. c \in Contexts /\ e \in Editions
  BY <1>1, <1>2, ContextConstantsOK
<1>4. /\ RunsStay
      /\ package' \in [Contexts -> PackageFiles]
      /\ \A k \in Jobs : Rests(k, file[k])'
  BY <1>3, PackageWritten
<1>5. PICK v : v = [u EXCEPT !.at = q]
  OBVIOUS
<1>6. v \in Run /\ v.at = q /\ v.job = u.job /\ v.copy = u.copy
  BY ONLY <1>2, <1>5, q \in Busy, RunAtSet
<1>7. u.copy.status # "succeeded"
  BY <1>2 DEF SoundRun
<1>8. Rests(v.job, v.copy)'
  BY <1>6, <1>7 DEF Rests
<1>9. package'[c] = r /\ c = Context[v.job]
  BY <1>1, <1>3, <1>6 DEF ContextIInv
<1>10. file'[v.job].status # None /\ v.copy.status # None
  BY <1>2, <1>6 DEF SoundRun
<1>11. SoundRun(v)'
  BY <1>6, <1>7, <1>8, <1>9, <1>10 DEF SoundRun
<1>12. worker' = [worker EXCEPT ![w] = v]
  BY <1>1, <1>5 DEF Doing
<1>13. /\ worker' = [x \in Workers |-> worker'[x]]
       /\ \A x \in Workers : SoundRun(worker[x])'
  BY <1>4, <1>11, <1>12, WorkerChanges
<1>14. \A k \in Jobs : SoundJob(k)'
  BY <1>4 DEF ContextIInv, SoundJob
<1>15. QED
  BY <1>4, <1>13, <1>14 DEF ContextIInv

LEMMA WriteIRKeepsIt ==
    ASSUME ContextIInv, NEW w \in Workers, WriteIR(w)
    PROVE  ContextIInv'
<1>1. PICK c, e : c = Context[worker[w].job] /\ e = Edition[worker[w].job]
  OBVIOUS
<1>2. /\ UNCHANGED <<objects, snapshots, file, submitter, shell>>
      /\ Working(w, "write ir") /\ Doing(w, "write manifest") /\ Displaces(c, e)
  BY <1>1 DEF WriteIR
<1>3. {"write ir", "write manifest"} \subseteq Busy
  BY DEF Busy
<1>4. PICK r : r = [package[c] EXCEPT !.ir = e]
  OBVIOUS
<1>5. package' = [package EXCEPT ![c] = r]
  BY <1>1, <1>4 DEF WriteIR
<1>6. e \in Editions /\ package[c] \in PackageFiles
  BY <1>1, <1>2, <1>3, AtWork, ContextConstantsOK DEF ContextIInv
<1>7. r \in PackageFiles /\ r.ir \in {package[c].ir, e} /\ r.manifest \in {package[c].manifest, e}
  BY <1>4, <1>6, PackageFileSet
<1>8. QED
  BY <1>1, <1>2, <1>3, <1>5, <1>7, WorkerPublishes

LEMMA WriteManifestKeepsIt ==
    ASSUME ContextIInv, NEW w \in Workers, WriteManifest(w)
    PROVE  ContextIInv'
<1>1. PICK c, e : c = Context[worker[w].job] /\ e = Edition[worker[w].job]
  OBVIOUS
<1>2. /\ UNCHANGED <<objects, snapshots, file, submitter, shell>>
      /\ Working(w, "write manifest") /\ Doing(w, "load") /\ Displaces(c, e)
  BY <1>1 DEF WriteManifest
<1>3. {"load", "write manifest"} \subseteq Busy
  BY DEF Busy
<1>4. PICK r : r = [package[c] EXCEPT !.manifest = e]
  OBVIOUS
<1>5. package' = [package EXCEPT ![c] = r]
  BY <1>1, <1>4 DEF WriteManifest
<1>6. e \in Editions /\ package[c] \in PackageFiles /\ e # None
  BY <1>1, <1>2, <1>3, AtWork, ContextConstantsOK DEF ContextIInv
<1>7. r \in PackageFiles /\ r.ir \in {package[c].ir, e} /\ r.manifest \in {package[c].manifest, e}
      /\ r.manifest = e
  BY <1>4, <1>6, PackageFileSet DEF PackageFiles
<1>8. QED
  BY <1>1, <1>2, <1>3, <1>5, <1>6, <1>7, WorkerPublishes

\* A worker writes the file of its job.
LEMMA WorkerWrites ==
    ASSUME ContextIInv, NEW w \in Workers, NEW j \in Jobs, NEW f \in JobFile,
           file[j].status # None, f.status # None, Rests(j, f),
           file' = [file EXCEPT ![j] = f],
           NEW v, worker' = [worker EXCEPT ![w] = v],
           \/ v = Idle
           \/ v \in Run /\ v.at = "running" /\ v.job = j /\ v.copy.status = "running",
           UNCHANGED <<objects, snapshots, package, displaced, submitter, shell>>
    PROVE  ContextIInv'
<1>1. UNCHANGED <<package, displaced>>
  OBVIOUS
<1>2. /\ Stays /\ RunsStay
      /\ file' \in [Jobs -> JobFile]
      /\ file'[j] = f
      /\ \A k \in Jobs : k # j => file'[k] = file[k]
      /\ \A k \in Jobs : k # j => Rests(k, file[k])'
  BY <1>1, FileWritten, StaysRuns
<1>3. Rests(j, f)'
  BY <1>2, RestsStays
<1>4. Rests(j, file[j])'
  BY <1>2, <1>3 DEF Rests
<1>5. SoundRun(v)'
  <2>1. CASE v = Idle
    BY <2>1 DEF SoundRun
  <2>2. CASE v \in Run /\ v.at = "running" /\ v.job = j /\ v.copy.status = "running"
    <3>1. Rests(v.job, v.copy)'
      BY <2>2 DEF Rests
    <3>2. QED
      BY <2>2, <3>1, <1>2 DEF SoundRun, None
  <2>3. QED
    BY <2>1, <2>2
<1>6. /\ worker' = [x \in Workers |-> worker'[x]]
      /\ \A x \in Workers : SoundRun(worker[x])'
  BY <1>2, <1>5, WorkerChanges
<1>7. ASSUME NEW k \in Jobs
      PROVE  SoundJob(k)'
  <2>1. SoundJob(k) /\ SoundJob(j)
    BY DEF ContextIInv
  <2>2. CASE k = j
    BY <2>1, <2>2, <1>2, <1>4 DEF SoundJob
  <2>3. CASE k # j
    BY <2>1, <2>3, <1>2 DEF SoundJob
  <2>4. QED
    BY <2>2, <2>3
<1>8. QED
  BY <1>2, <1>6, <1>7 DEF ContextIInv

LEMMA MarkRunningKeepsIt ==
    ASSUME ContextIInv, NEW w \in Workers, MarkRunning(w)
    PROVE  ContextIInv'
<1>1. PICK u, f, v :
          /\ u = worker[w]
          /\ f = Started(u.copy)
          /\ v = Holding(u, f)
  OBVIOUS
<1>2. "picked" \in Busy /\ Working(w, "picked")
  BY DEF Busy, MarkRunning
<1>3. u \in Run /\ u # Idle /\ SoundRun(u) /\ u.job \in Jobs
  BY <1>1, <1>2, AtWork
<1>4. /\ f \in JobFile /\ f.status = "running" /\ f.attempt = u.copy.attempt + 1
      /\ u.copy.attempt \in Nat
      /\ v \in Run /\ v.at = "running" /\ v.job = u.job /\ v.copy = f
  BY <1>1, <1>3, Starting
<1>5. /\ file' = [file EXCEPT ![u.job] = f]
      /\ worker' = [worker EXCEPT ![w] = v]
      /\ UNCHANGED <<objects, snapshots, package, displaced, submitter, shell>>
  BY <1>1 DEF MarkRunning, Started, Holding
<1>6. f.status # None /\ Rests(u.job, f) /\ file[u.job].status # None
  BY <1>3, <1>4 DEF Rests, None, SoundRun
<1>7. PICK j \in Jobs : j = u.job
  BY <1>3
<1>8. QED
  BY <1>4, <1>5, <1>6, <1>7, WorkerWrites

LEMMA SettleKeepsIt ==
    ASSUME ContextIInv, NEW w \in Workers, Settle(w)
    PROVE  ContextIInv'
<1>1. PICK j, f : j = worker[w].job /\ f = worker[w].copy
  OBVIOUS
<1>2. "ending" \in Busy /\ "ending" # "picked" /\ Working(w, "ending")
  BY DEF Busy, Settle
<1>3. /\ j \in Jobs /\ f \in JobFile /\ file[j].status # None /\ f.status # None
      /\ Rests(j, f)
  BY <1>1, <1>2, AtWork DEF SoundRun, Working
<1>4. /\ file' = [file EXCEPT ![j] = f]
      /\ worker' = [worker EXCEPT ![w] = Idle]
      /\ UNCHANGED <<objects, snapshots, package, displaced, submitter, shell>>
  BY <1>1 DEF Settle
<1>5. QED
  BY <1>3, <1>4, WorkerWrites

-----------------------------------------------------------------------------
(***************************************************************************)
(* Compile commands, and all of it together.                               *)
(***************************************************************************)
LEMMA CommandKeepsIt ==
    ASSUME ContextIInv, NEW s \in Shells, Command(s)
    PROVE  ContextIInv'
<1>1. PICK c, e : c = Context[s] /\ e = Edition[s]
  OBVIOUS
<1>2. c \in Contexts /\ e \in Editions /\ package[c] \in PackageFiles
  BY <1>1, ContextConstantsOK DEF ContextIInv
<1>3. PICK r : /\ package' = [package EXCEPT ![c] = r] /\ Displaces(c, e)
               /\ r = [package[c] EXCEPT !.ir = e] \/ r = [package[c] EXCEPT !.manifest = e]
  BY <1>1 DEF Command, ShellWritesIR, ShellWritesManifest
<1>4. r \in PackageFiles /\ r.ir \in {package[c].ir, e} /\ r.manifest \in {package[c].manifest, e}
  BY <1>2, <1>3, PackageFileSet
<1>5. shell' = [t \in Shells |-> shell'[t]] /\ UNCHANGED <<objects, snapshots, file, submitter, worker>>
  BY DEF Command, ShellWritesIR, ShellWritesManifest, ContextIInv
<1>6. /\ RunsStay
      /\ package' \in [Contexts -> PackageFiles]
      /\ \A k \in Jobs : Rests(k, file[k])'
  BY <1>2, <1>3, <1>4, <1>5, PackageWritten
<1>7. /\ worker' = [x \in Workers |-> worker'[x]]
      /\ \A x \in Workers : SoundRun(worker[x])'
  BY <1>5, <1>6, WorkersKept
<1>8. \A k \in Jobs : SoundJob(k)'
  BY <1>5, <1>6 DEF ContextIInv, SoundJob
<1>9. QED
  BY <1>5, <1>6, <1>7, <1>8 DEF ContextIInv

LEMMA ContextStarts == ContextInit => ContextIInv
<1> SUFFICES ASSUME ContextInit PROVE ContextIInv
  OBVIOUS
<1>1. NoFile \in JobFile /\ NoFile.status = None
  BY DEF NoFile, Job, JobFile, JobStatus, Results
<1>2. file \in [Jobs -> JobFile] /\ \A j \in Jobs : file[j] = NoFile
  BY <1>1 DEF ContextInit
<1>3. package \in [Contexts -> PackageFiles]
  BY DEF ContextInit, EmptyPackage, PackageFiles, Results
<1>4. \A j \in Jobs : SoundJob(j)
  BY <1>1, <1>2 DEF ContextInit, SoundJob, Rests, None
<1>5. \A w \in Workers : SoundRun(worker[w])
  BY DEF ContextInit, SoundRun
<1>6. QED
  BY <1>2, <1>3, <1>4, <1>5 DEF ContextInit, ContextIInv

\* Whatever uses the queue keeps it sound.
LEMMA ContextKeepsIt ==
    ASSUME ContextIInv, [ContextStep]_contextVars
    PROVE  ContextIInv'
<1>1. CASE UNCHANGED contextVars
  BY <1>1 DEF contextVars, root, users, ContextIInv, SoundJob, SoundRun, Rests
<1>2. ASSUME NEW j \in Jobs, Submission(j)
      PROVE  ContextIInv'
  BY <1>2, SourcesKeepIt, EnqueueKeepsIt DEF Submission
<1>3. ASSUME NEW w \in Workers, Pick(w) \/ WorkStep(w) \/ WorkerDies(w)
      PROVE  ContextIInv'
  BY <1>3, PickKeepsIt, MarkRunningKeepsIt, CompileKeepsIt, WriteIRKeepsIt,
     WriteManifestKeepsIt, LoadManifestKeepsIt, LoadIRKeepsIt, SettleKeepsIt, DiesKeepsIt DEF WorkStep
<1>4. ASSUME NEW s \in Shells, Command(s)
      PROVE  ContextIInv'
  BY <1>4, CommandKeepsIt
<1>5. QED
  BY <1>1, <1>2, <1>3, <1>4 DEF ContextStep

LEMMA ContextIsSafe == ContextIInv => SnapshotsAreBacked /\ SucceededLoads
<1> SUFFICES ASSUME ContextIInv PROVE SnapshotsAreBacked /\ SucceededLoads
  OBVIOUS
<1>1. SnapshotsAreBacked
  BY DEF SnapshotsAreBacked, ContextIInv, SoundJob, Files
<1>2. ASSUME NEW j \in Jobs \ displaced, file[j].status = "succeeded"
      PROVE  /\ Loads(package[Context[j]])
             /\ package[Context[j]].manifest = file[j].result
  <2>1. Rests(j, file[j])
    BY DEF ContextIInv, SoundJob
  <2>2. QED
    BY <1>2, <2>1 DEF Rests, Loads
<1>3. QED
  BY <1>1, <1>2 DEF SucceededLoads

-----------------------------------------------------------------------------
(***************************************************************************)
(* The queue beside the migration builds, and under the service loop.      *)
(***************************************************************************)
LEMMA BuildsLeaveTheQueue == [Next]_vars => [ContextStep]_contextVars
<1>1. ASSUME NEW b \in Builders, Build(b)
      PROVE  UNCHANGED contextVars
  BY <1>1 DEF Build, Validate, EnsureKey, WriteKey, ReadKey, Guard, FirstPass, Copy, Check,
     SecondPass, Pack, Publish, Written, Fail, Dies, Again
<1>2. ASSUME NEW r \in Restorers, Restore(r)
      PROVE  UNCHANGED contextVars
  BY <1>2 DEF Restore, Unpack, RelocateDatabase, RelocateJobs, Rename, RestoreEnds
<1>3. Use => ContextStep
  BY DEF Use, ContextStep
<1>4. Work => UNCHANGED contextVars
  BY DEF Work
<1>5. QED
  BY <1>1, <1>2, <1>3, <1>4 DEF Next, vars

\* The queue stays sound while packages are built from it and restored.
THEOREM ContextInvariance == Spec => []ContextIInv
<1>1. Init => ContextIInv
  BY ContextStarts DEF Init
<1>2. ContextIInv /\ [Next]_vars => ContextIInv'
  BY BuildsLeaveTheQueue, ContextKeepsIt
<1>3. QED
  BY <1>1, <1>2, PTL DEF Spec

\* Wherever a submission dies, a job in the queue has the row of its snapshot and
\* a row has its object (ContextJobManager.submit, capture_source).
THEOREM SnapshotsBacked == Spec => []SnapshotsAreBacked
BY ContextInvariance, ContextIsSafe, PTL

\* However the files of two editions of a context meet in its package, a job that
\* succeeded has a package that loads, in the version of its result, unless another
\* edition has been written there after it has found its own, for any number of
\* jobs, editions, workers and commands (ContextPackage.write and load).
THEOREM SuccessLoads == Spec => []SucceededLoads
BY ContextInvariance, ContextIsSafe, PTL

\* A process that is killed, or whose loop ends, leaves what its worker was doing.
LEMMA LosesItsWork ==
    ASSUME ContextIInv, NEW w \in Workers, worker' = [worker EXCEPT ![w] = Idle],
           UNCHANGED <<root, submitter, shell>>
    PROVE  ContextIInv'
BY WorkerAlone, IdleIsSound

-----------------------------------------------------------------------------
(***************************************************************************)
(* The service loops and their pidfile.                                    *)
(***************************************************************************)
InLoop == {"prime", "starting", "jobs", "context", "working", "beat", "unlink"}

Places == {"off", "checked", "ended"} \cup InLoop

\* The pidfile names the one loop there is, unless two have raced.
ServiceInv ==
    /\ service \in [Workers -> Places]
    /\ pidfile \in Workers \cup {None}
    /\ saw \in [Workers -> Workers \cup {None}]
    /\ pidfile # None => service[pidfile] \notin {"off", "checked"}
    /\ \A v \in Workers : service[v] = "checked" => saw[v] = None \/ service[saw[v]] = "ended"
    /\ ~raced => \A v \in Workers : service[v] \in InLoop => pidfile = v

\* A loop works on a job that nobody else has, unless two have raced.
OwnsItsJob(w) ==
    worker[w] # Idle =>
        /\ service[w] = "working"
        /\ ~raced => file[worker[w].job].status =
                        (IF worker[w].at = "picked" THEN "queued" ELSE "running")

LoopIInv ==
    /\ ContextIInv
    /\ ServiceInv
    /\ \A w \in Workers : OwnsItsJob(w)

LEMMA ServiceMoves ==
    ASSUME ServiceInv, NEW w \in Workers, service[w] # "ended", NEW x \in Places,
           x \notin {"off", "checked"}, x \in InLoop => service[w] \in InLoop,
           service' = [service EXCEPT ![w] = x],
           UNCHANGED <<pidfile, saw, raced>>
    PROVE  ServiceInv'
<1>1. /\ service' \in [Workers -> Places]
      /\ \A v \in Workers : service'[v] = IF v = w THEN x ELSE service[v]
  BY DEF ServiceInv
<1>2. pidfile # None => service'[pidfile] \notin {"off", "checked"}
  BY <1>1 DEF ServiceInv
<1>3. ASSUME NEW v \in Workers, service'[v] = "checked"
      PROVE  saw[v] = None \/ service'[saw[v]] = "ended"
  BY <1>1, <1>3 DEF ServiceInv
<1>4. ASSUME ~raced, NEW v \in Workers, service'[v] \in InLoop
      PROVE  pidfile = v
  BY <1>1, <1>4 DEF ServiceInv
<1>5. QED
  BY <1>1, <1>2, <1>3, <1>4 DEF ServiceInv

LEMMA CheckKeepsIt ==
    ASSUME ServiceInv, NEW w \in Workers, CheckPid(w)
    PROVE  ServiceInv'
<1>1. service[w] = "off" /\ UNCHANGED <<pidfile, raced>>
  BY DEF CheckPid, At
<1>2. CASE Live(pidfile)
  <2>1. service' = [service EXCEPT ![w] = "ended"] /\ UNCHANGED saw
    BY <1>2 DEF CheckPid, Going
  <2>2. "ended" \in Places /\ "ended" \notin InLoop
    BY DEF Places, InLoop
  <2>3. QED
    BY <1>1, <2>1, <2>2, ServiceMoves
<1>3. CASE ~Live(pidfile)
  <2>1. service' = [service EXCEPT ![w] = "checked"] /\ saw' = [saw EXCEPT ![w] = pidfile]
    BY <1>3 DEF CheckPid, Going
  <2>2. pidfile = None \/ (pidfile \in Workers /\ service[pidfile] = "ended")
    BY <1>3 DEF ServiceInv, Live, At, None
  <2>3. /\ service' \in [Workers -> Places] /\ saw' \in [Workers -> Workers \cup {None}]
        /\ \A v \in Workers : service'[v] = IF v = w THEN "checked" ELSE service[v]
        /\ \A v \in Workers : saw'[v] = IF v = w THEN pidfile ELSE saw[v]
    BY <2>1 DEF ServiceInv, Places
  <2>4. "checked" \notin InLoop
    BY DEF InLoop
  <2>5. pidfile # w
    BY <1>1, <2>2, ContextConstantsOK
  <2>6. ASSUME NEW v \in Workers, service'[v] = "checked"
        PROVE  saw'[v] = None \/ service'[saw'[v]] = "ended"
    <3>1. CASE v = w
      BY <2>2, <2>3, <2>5, <3>1
    <3>2. CASE v # w
      <4>1. saw'[v] = saw[v] /\ service[v] = "checked"
        BY <2>3, <2>6, <3>2
      <4>2. saw[v] = None \/ (saw[v] \in Workers /\ saw[v] # w /\ service[saw[v]] = "ended")
        BY <4>1, <1>1 DEF ServiceInv
      <4>3. QED
        BY <4>1, <4>2, <2>3
    <3>3. QED
      BY <3>1, <3>2
  <2>7. pidfile' = pidfile /\ (pidfile # None => service'[pidfile] = "ended")
    BY <1>1, <2>2, <2>3, <2>5
  <2>8. QED
    BY <1>1, <2>3, <2>4, <2>6, <2>7 DEF ServiceInv
<1>4. QED
  BY <1>2, <1>3

LEMMA RegisterKeepsIt ==
    ASSUME ServiceInv, NEW w \in Workers, Register(w)
    PROVE  ServiceInv'
<1>1. /\ service[w] = "checked" /\ pidfile' = w
      /\ raced' = (raced \/ pidfile # saw[w])
      /\ saw' = [saw EXCEPT ![w] = None]
      /\ service' = [service EXCEPT ![w] = "prime"]
  BY DEF Register, At, Going, None
<1>2. /\ service' \in [Workers -> Places] /\ saw' \in [Workers -> Workers \cup {None}]
      /\ \A v \in Workers : service'[v] = IF v = w THEN "prime" ELSE service[v]
      /\ \A v \in Workers : saw'[v] = IF v = w THEN None ELSE saw[v]
  BY <1>1 DEF ServiceInv, Places, InLoop
<1>3. ASSUME NEW v \in Workers, service'[v] = "checked"
      PROVE  saw'[v] = None \/ service'[saw'[v]] = "ended"
  <2>1. v # w
    BY <1>2, <1>3
  <2>2. saw[v] = None \/ (saw[v] \in Workers /\ saw[v] # w /\ service[saw[v]] = "ended")
    BY <2>1, <1>1, <1>2, <1>3 DEF ServiceInv
  <2>3. QED
    BY <2>1, <2>2, <1>2
<1>4. ASSUME ~raced', NEW v \in Workers, service'[v] \in InLoop, v # w
      PROVE  FALSE
  <2>1. ~raced /\ pidfile = saw[w]
    BY <1>1, <1>4
  <2>2. service[v] \in InLoop /\ pidfile = v
    BY <1>2, <1>4, <2>1 DEF ServiceInv
  <2>3. service[v] = "ended"
    BY <1>1, <2>1, <2>2, ContextConstantsOK DEF ServiceInv
  <2>4. QED
    BY <2>2, <2>3 DEF InLoop
<1>5. QED
  BY <1>1, <1>2, <1>3, <1>4 DEF ServiceInv

LEMMA UnlinkKeepsIt ==
    ASSUME ServiceInv, NEW w \in Workers, Unlink(w)
    PROVE  ServiceInv'
<1>1. /\ service[w] = "unlink" /\ pidfile' = None
      /\ raced' = (raced \/ pidfile # w)
      /\ UNCHANGED saw
      /\ service' = [service EXCEPT ![w] = "ended"]
  BY DEF Unlink, At, Going, None
<1>2. /\ service' \in [Workers -> Places]
      /\ \A v \in Workers : service'[v] = IF v = w THEN "ended" ELSE service[v]
      /\ "ended" \notin InLoop
  BY <1>1 DEF ServiceInv, Places, InLoop
<1>3. ASSUME NEW v \in Workers, service'[v] = "checked"
      PROVE  saw'[v] = None \/ service'[saw'[v]] = "ended"
  BY <1>1, <1>2, <1>3 DEF ServiceInv
<1>4. ASSUME ~raced', NEW v \in Workers, service'[v] \in InLoop
      PROVE  FALSE
  <2>1. ~raced /\ pidfile = w
    BY <1>1, <1>4
  <2>2. v # w /\ service[v] \in InLoop
    BY <1>2, <1>4
  <2>3. QED
    BY <2>1, <2>2 DEF ServiceInv
<1>5. QED
  BY <1>1, <1>2, <1>3, <1>4 DEF ServiceInv

\* What a worker does to its job and to itself.
Advances(w) ==
    /\ worker[w] # Idle /\ worker[w].job \in Jobs
    /\ \A v \in Workers : v # w => worker'[v] = worker[v]
    /\ \A j \in Jobs : j # worker[w].job => file'[j] = file[j]
    /\ \/ worker'[w] = Idle /\ worker[w].at # "picked"
       \/ /\ worker'[w] # Idle
          /\ worker'[w].job = worker[w].job /\ worker'[w].at # "picked"
          /\ \/ worker[w].at = "picked" /\ file'[worker[w].job].status = "running"
             \/ worker[w].at # "picked" /\ UNCHANGED file

LEMMA DoingAdvances ==
    ASSUME ContextIInv, NEW w \in Workers, NEW p \in Busy, p # "picked", Working(w, p),
           NEW q \in Busy, q # "picked", Doing(w, q), UNCHANGED file
    PROVE  Advances(w)
<1>1. worker[w] \in Run /\ worker[w] # Idle /\ worker[w].job \in Jobs
  BY AtWork
<1>2. PICK v : v = [worker[w] EXCEPT !.at = q]
  OBVIOUS
<1>3. v \in Run /\ v.job = worker[w].job /\ v.at = q
  BY <1>1, <1>2, RunAtSet
<1>4. worker' = [worker EXCEPT ![w] = v] /\ worker = [x \in Workers |-> worker[x]]
  BY <1>2 DEF Doing, ContextIInv
<1>5. worker'[w] = v /\ \A x \in Workers : x # w => worker'[x] = worker[x]
  BY <1>4
<1>6. worker[w].at = p
  BY DEF Working
<1>7. QED
  BY <1>1, <1>3, <1>5, <1>6, IdleApart DEF Advances

LEMMA EndingAdvances ==
    ASSUME ContextIInv, NEW w \in Workers, NEW p \in Busy, p # "picked", Working(w, p),
           NEW x \in JobStatus, NEW e \in Results, Ends(w, x, e), UNCHANGED file
    PROVE  Advances(w)
<1>1. worker[w] \in Run /\ worker[w] # Idle /\ worker[w].job \in Jobs
  BY AtWork
<1>2. PICK u, v : u = worker[w] /\ v = Ended(u, x, e)
  OBVIOUS
<1>3. u \in Run /\ x \in JobStatus /\ e \in Results
  BY <1>1, <1>2
<1>4. v = Ended(u, x, e)
  BY <1>2
<1>5. v \in Run /\ v.job = u.job /\ v.at = "ending"
  BY ONLY <1>3, <1>4, Ending
<1>6. worker' = [worker EXCEPT ![w] = v] /\ worker = [y \in Workers |-> worker[y]]
  <2>1. worker' = [worker EXCEPT ![w] = v]
    BY <1>2 DEF Ends, Ended
  <2>2. QED
    BY <2>1 DEF ContextIInv
<1>7. worker'[w] = v /\ \A y \in Workers : y # w => worker'[y] = worker[y]
  BY <1>6
<1>8. worker[w].at = p
  BY DEF Working
<1>9. QED
  BY <1>1, <1>2, <1>5, <1>7, <1>8, IdleApart DEF Advances

LEMMA FindingAdvances ==
    ASSUME ContextIInv, NEW w \in Workers, LoadManifest(w)
    PROVE  Advances(w)
<1>1. "load" \in Busy /\ Working(w, "load") /\ UNCHANGED file
  BY DEF Busy, LoadManifest, root
<1>2. PICK u, e, v : u = worker[w] /\ e = package[Context[u.job]].manifest /\ v = Finding(u, e)
  OBVIOUS
<1>3. u \in Run /\ u # Idle /\ u.job \in Jobs /\ u.at = "load"
  BY <1>1, <1>2, AtWork DEF Working
<1>4. e \in Results
  BY <1>2, <1>3, ContextConstantsOK DEF ContextIInv, PackageFiles
<1>5. v \in Run /\ v.job = u.job /\ v.at = "load ir"
  <2>1. u \in Run /\ e \in Results /\ v = Finding(u, e)
    BY <1>2, <1>3, <1>4
  <2>2. HasFound(u, e, v)
    BY ONLY <2>1, Found
  <2>3. QED
    BY <2>2 DEF HasFound
<1>6. worker' = [worker EXCEPT ![w] = v] /\ worker = [y \in Workers |-> worker[y]]
  <2>1. worker' = [worker EXCEPT ![w] = v]
    BY <1>2 DEF LoadManifest, Finding
  <2>2. QED
    BY <2>1 DEF ContextIInv
<1>7. worker'[w] = v /\ \A y \in Workers : y # w => worker'[y] = worker[y]
  BY <1>6
<1>8. QED
  BY <1>1, <1>2, <1>3, <1>5, <1>7, IdleApart DEF Advances

LEMMA StartAdvances ==
    ASSUME ContextIInv, NEW w \in Workers, MarkRunning(w)
    PROVE  Advances(w)
<1>1. PICK u, f, v : u = worker[w] /\ f = Started(u.copy) /\ v = Holding(u, f)
  OBVIOUS
<1>2. "picked" \in Busy /\ Working(w, "picked")
  BY DEF Busy, MarkRunning
<1>3. u \in Run /\ u # Idle /\ u.job \in Jobs /\ u.at = "picked"
  BY <1>1, <1>2, AtWork DEF Working
<1>4. f.status = "running" /\ v \in Run /\ v.job = u.job /\ v.at = "running"
  BY <1>1, <1>3, Starting
<1>5. /\ file' = [file EXCEPT ![u.job] = f]
      /\ worker' = [worker EXCEPT ![w] = v]
      /\ worker = [x \in Workers |-> worker[x]] /\ file \in [Jobs -> JobFile]
  BY <1>1 DEF MarkRunning, Started, Holding, ContextIInv
<1>6. PICK j \in Jobs : j = u.job
  BY <1>3
<1>7. /\ worker'[w] = v /\ \A x \in Workers : x # w => worker'[x] = worker[x]
      /\ file'[j] = f /\ \A k \in Jobs : k # j => file'[k] = file[k]
  BY <1>5, <1>6
<1>8. QED
  BY <1>1, <1>3, <1>4, <1>6, <1>7, IdleApart DEF Advances

LEMMA SettleAdvances ==
    ASSUME ContextIInv, NEW w \in Workers, Settle(w)
    PROVE  Advances(w)
<1>1. "ending" \in Busy /\ "ending" # "picked" /\ Working(w, "ending")
  BY DEF Busy, Settle
<1>2. PICK j \in Jobs : j = worker[w].job
  BY <1>1, AtWork
<1>3. worker[w] # Idle /\ worker[w].at = "ending"
  BY <1>1, AtWork DEF Working
<1>4. /\ file' = [file EXCEPT ![j] = worker[w].copy]
      /\ worker' = [worker EXCEPT ![w] = Idle]
      /\ worker = [x \in Workers |-> worker[x]] /\ file \in [Jobs -> JobFile]
  BY <1>2 DEF Settle, ContextIInv
<1>5. /\ worker'[w] = Idle /\ \A x \in Workers : x # w => worker'[x] = worker[x]
      /\ \A k \in Jobs : k # j => file'[k] = file[k]
  BY <1>4
<1>6. QED
  BY <1>1, <1>2, <1>3, <1>5 DEF Advances

LEMMA WorkAdvances ==
    ASSUME ContextIInv, NEW w \in Workers, WorkStep(w)
    PROVE  Advances(w)
<1>1. {"running", "write ir", "write manifest", "load", "load ir", "ending"} \subseteq Busy
      /\ "picked" \notin {"running", "write ir", "write manifest", "load", "load ir", "ending"}
      /\ "failed" \in JobStatus /\ "succeeded" \in JobStatus /\ None \in Results
  BY DEF Busy, JobStatus, Results
<1>2. CASE Compile(w)
  <2>1. Working(w, "running") /\ UNCHANGED file
    BY <1>2 DEF Compile, root
  <2>2. Doing(w, "write ir") \/ Ends(w, "failed", None)
    BY <1>2 DEF Compile
  <2>3. QED
    BY <1>1, <2>1, <2>2, DoingAdvances, EndingAdvances
<1>3. CASE WriteIR(w)
  <2>1. Working(w, "write ir") /\ Doing(w, "write manifest") /\ UNCHANGED file
    BY <1>3 DEF WriteIR
  <2>2. QED
    BY <1>1, <2>1, DoingAdvances
<1>4. CASE WriteManifest(w)
  <2>1. Working(w, "write manifest") /\ Doing(w, "load") /\ UNCHANGED file
    BY <1>4 DEF WriteManifest
  <2>2. QED
    BY <1>1, <2>1, DoingAdvances
<1>5. CASE LoadManifest(w)
  BY <1>5, FindingAdvances
<1>6. CASE LoadIR(w)
  <2>1. Working(w, "load ir") /\ UNCHANGED file
    BY <1>6 DEF LoadIR, root
  <2>2. worker[w].copy \in JobFile
    BY <1>1, <2>1, AtWork
  <2>3. worker[w].copy.result \in Results
    BY <2>2 DEF JobFile
  <2>4. Ends(w, "succeeded", worker[w].copy.result) \/ Ends(w, "failed", None)
    BY <1>6 DEF LoadIR
  <2>5. QED
    BY <1>1, <2>1, <2>3, <2>4, EndingAdvances
<1>7. QED
  BY <1>2, <1>3, <1>4, <1>5, <1>6, StartAdvances, SettleAdvances DEF WorkStep

\* A step that leaves the queue alone moves a loop that is not working.
LEMMA OwnersStay ==
    ASSUME \A v \in Workers : OwnsItsJob(v), ServiceInv,
           NEW w \in Workers, service[w] # "working", NEW x,
           service' = [service EXCEPT ![w] = x], ~raced' => ~raced,
           UNCHANGED <<file, worker>>
    PROVE  \A v \in Workers : OwnsItsJob(v)'
<1>1. SUFFICES ASSUME NEW v \in Workers, worker'[v] # Idle
               PROVE  /\ service'[v] = "working"
                      /\ ~raced' => file'[worker'[v].job].status =
                             (IF worker'[v].at = "picked" THEN "queued" ELSE "running")
  BY DEF OwnsItsJob
<1>2. worker'[v] = worker[v] /\ OwnsItsJob(v)
  OBVIOUS
<1>3. service[v] = "working" /\ v # w
  BY <1>1, <1>2 DEF OwnsItsJob
<1>4. service'[v] = service[v]
  BY <1>3 DEF ServiceInv
<1>5. QED
  BY <1>1, <1>2, <1>3, <1>4 DEF OwnsItsJob

\* A loop that drops its work.
LEMMA OwnersDrop ==
    ASSUME LoopIInv, NEW w \in Workers, NEW x,
           service' = [service EXCEPT ![w] = x], ~raced' => ~raced,
           worker' = [worker EXCEPT ![w] = Idle], UNCHANGED file
    PROVE  \A v \in Workers : OwnsItsJob(v)'
<1>1. SUFFICES ASSUME NEW v \in Workers, worker'[v] # Idle
               PROVE  /\ service'[v] = "working"
                      /\ ~raced' => file'[worker'[v].job].status =
                             (IF worker'[v].at = "picked" THEN "queued" ELSE "running")
  BY DEF OwnsItsJob
<1>2. v # w /\ worker'[v] = worker[v] /\ OwnsItsJob(v)
  BY <1>1 DEF LoopIInv, ContextIInv
<1>3. service'[v] = service[v]
  BY <1>2 DEF LoopIInv, ServiceInv
<1>4. QED
  BY <1>1, <1>2, <1>3 DEF OwnsItsJob

\* A loop takes a job.
LEMMA OwnersPick ==
    ASSUME LoopIInv, NEW w \in Workers, Pick(w),
           service' = [service EXCEPT ![w] = "working"], UNCHANGED raced
    PROVE  \A v \in Workers : OwnsItsJob(v)'
<1>1. Queued # {} /\ UNCHANGED file
  BY DEF Pick, root
<1>2. PICK j \in Jobs : j = First /\ file[j].status = "queued"
  BY <1>1, FirstQueued DEF LoopIInv
<1>3. PICK u : u = [at |-> "picked", job |-> j, copy |-> file[j]]
  OBVIOUS
<1>4. u.at = "picked" /\ u.job = j
  BY <1>3
<1>5. worker' = [worker EXCEPT ![w] = u]
  BY <1>2, <1>3 DEF Pick
<1>6. \A v \in Workers : worker'[v] = IF v = w THEN u ELSE worker[v]
  BY <1>5 DEF LoopIInv, ContextIInv
<1>7. \A v \in Workers : service'[v] = IF v = w THEN "working" ELSE service[v]
  BY DEF LoopIInv, ServiceInv
<1>8. ASSUME NEW v \in Workers, worker'[v] # Idle
      PROVE  /\ service'[v] = "working"
             /\ ~raced' => file'[worker'[v].job].status =
                    (IF worker'[v].at = "picked" THEN "queued" ELSE "running")
  <2>1. CASE v = w
    BY <2>1, <1>1, <1>2, <1>4, <1>6, <1>7
  <2>2. CASE v # w
    <3>1. worker'[v] = worker[v] /\ service'[v] = service[v] /\ OwnsItsJob(v)
      BY <2>2, <1>6, <1>7 DEF LoopIInv
    <3>2. QED
      BY <3>1, <1>1, <1>8 DEF OwnsItsJob
  <2>3. QED
    BY <2>1, <2>2
<1>9. QED
  BY <1>8 DEF OwnsItsJob

\* A loop works on its job.
LEMMA OwnersWork ==
    ASSUME LoopIInv, NEW w \in Workers, Advances(w), service[w] = "working", NEW x,
           service' = [service EXCEPT ![w] = x],
           worker'[w] # Idle => x = "working", UNCHANGED raced
    PROVE  \A v \in Workers : OwnsItsJob(v)'
<1>1. \A v \in Workers : service'[v] = IF v = w THEN x ELSE service[v]
  BY DEF LoopIInv, ServiceInv
<1>2. ASSUME NEW v \in Workers, worker'[v] # Idle
      PROVE  /\ service'[v] = "working"
             /\ ~raced' => file'[worker'[v].job].status =
                    (IF worker'[v].at = "picked" THEN "queued" ELSE "running")
  <2>1. CASE v = w
    <3>1. OwnsItsJob(w)
      BY DEF LoopIInv
    <3>2. QED
      BY <2>1, <3>1, <1>1, <1>2 DEF Advances, OwnsItsJob
  <2>2. CASE v # w
    <3>1. worker'[v] = worker[v] /\ service'[v] = service[v] /\ OwnsItsJob(v)
      BY <2>2, <1>1 DEF LoopIInv, Advances
    <3>2. service[v] = "working"
      BY <3>1, <1>2 DEF OwnsItsJob
    <3>3. ~raced => v = w
      BY <3>2 DEF LoopIInv, ServiceInv, InLoop
    <3>4. QED
      BY <2>2, <3>1, <3>2, <3>3
  <2>3. QED
    BY <2>1, <2>2
<1>3. QED
  BY <1>2 DEF OwnsItsJob

\* Submissions and compile commands leave a job that somebody works on alone.
LEMMA OwnersApart ==
    ASSUME LoopIInv, \/ \E j \in Jobs : Submission(j)
                     \/ \E s \in Shells : Command(s),
           UNCHANGED <<service, raced>>
    PROVE  /\ \A v \in Workers : OwnsItsJob(v)'
           /\ \A k \in Jobs : file[k].status # None => file'[k] = file[k]
<1>1. UNCHANGED worker
  BY DEF Submission, PutObject, BindSnapshot, Enqueue, SubmitDies, Command, ShellWritesIR, ShellWritesManifest
<1>2. \A k \in Jobs : file[k].status # None => file'[k] = file[k]
  <2>1. ASSUME NEW j \in Jobs, Submission(j)
        PROVE  \A k \in Jobs : file[k].status # None => file'[k] = file[k]
    <3>1. CASE Enqueue(j)
      <4>1. PICK f : file' = [file EXCEPT ![j] = f]
        BY <3>1 DEF Enqueue
      <4>2. file[j].status = None
        BY <3>1 DEF Enqueue, LoopIInv, ContextIInv, SoundJob
      <4>3. \A k \in Jobs : k # j => file'[k] = file[k]
        BY <4>1 DEF LoopIInv, ContextIInv
      <4>4. QED
        BY <4>2, <4>3
    <3>2. CASE ~Enqueue(j)
      BY <2>1, <3>2 DEF Submission, PutObject, BindSnapshot, SubmitDies, root
    <3>3. QED
      BY <3>1, <3>2
  <2>2. ASSUME NEW s \in Shells, Command(s)
        PROVE  UNCHANGED file
    BY <2>2 DEF Command, ShellWritesIR, ShellWritesManifest
  <2>3. QED
    BY <2>1, <2>2
<1>3. ASSUME NEW v \in Workers, worker'[v] # Idle
      PROVE  /\ service'[v] = "working"
             /\ ~raced' => file'[worker'[v].job].status =
                    (IF worker'[v].at = "picked" THEN "queued" ELSE "running")
  <2>1. worker'[v] = worker[v] /\ SoundRun(worker[v]) /\ OwnsItsJob(v)
    BY <1>1 DEF LoopIInv, ContextIInv
  <2>2. worker[v].job \in Jobs /\ file[worker[v].job].status # None
    BY <2>1, <1>3, IdleApart DEF SoundRun
  <2>3. file'[worker'[v].job] = file[worker[v].job]
    BY <1>2, <2>1, <2>2
  <2>4. QED
    BY <2>1, <2>3, <1>3 DEF OwnsItsJob
<1>4. QED
  BY <1>2, <1>3 DEF OwnsItsJob

\* What no step does to a settled job, as long as no two loops have raced.
KeepsSettled == ~raced' => \A j \in Jobs : file[j].status \in Settled => file'[j] = file[j]

\* The pidfile and the other steps around the cycle.
LEMMA AroundTheCycle ==
    ASSUME LoopIInv, NEW w \in Workers,
           \/ CheckPid(w) \/ Register(w) \/ Stop(w) \/ Unlink(w)
           \/ Killed(w) \/ BackoffEnds(w) \/ LoopRaises(w)
    PROVE  LoopIInv' /\ KeepsSettled
<1> USE DEF At, Going
<1>1. {"ended", "unlink"} \subseteq Places /\ "ended" \notin InLoop
      /\ "unlink" \notin {"off", "checked"} /\ "ended" \notin {"off", "checked"}
      /\ {"prime", "starting", "jobs", "context", "working"} \subseteq InLoop
  BY DEF Places, InLoop
<1>2. CASE CheckPid(w) \/ Register(w) \/ Unlink(w)
  <2>1. UNCHANGED contextVars
    BY <1>2 DEF CheckPid, Register, Unlink, contextVars, root, users
  <2>2. ContextIInv' /\ UNCHANGED <<file, worker>>
    BY <2>1, ContextKeepsIt DEF LoopIInv, contextVars, root, users
  <2>3. ServiceInv'
    BY <1>2, CheckKeepsIt, RegisterKeepsIt, UnlinkKeepsIt DEF LoopIInv
  <2>4. PICK x : service' = [service EXCEPT ![w] = x]
    <3>1. \/ service' = [service EXCEPT ![w] = "ended"]
          \/ service' = [service EXCEPT ![w] = "checked"]
          \/ service' = [service EXCEPT ![w] = "prime"]
      BY <1>2 DEF CheckPid, Register, Unlink
    <3>2. QED
      BY <3>1
  <2>5. service[w] # "working" /\ (~raced' => ~raced)
    <3>1. service[w] \in {"off", "checked", "unlink"}
      BY <1>2 DEF CheckPid, Register, Unlink
    <3>2. CheckPid(w) => (~raced' => ~raced)
      BY DEF CheckPid
    <3>3. Register(w) => (~raced' => ~raced)
      BY DEF Register
    <3>4. Unlink(w) => (~raced' => ~raced)
      BY DEF Unlink
    <3>5. QED
      BY <1>2, <3>1, <3>2, <3>3, <3>4
  <2>6. \A v \in Workers : OwnsItsJob(v)'
    BY <2>2, <2>4, <2>5, OwnersStay DEF LoopIInv
  <2>7. QED
    BY <2>2, <2>3, <2>6 DEF LoopIInv, KeepsSettled
<1>3. CASE Stop(w)
  <2>1. UNCHANGED contextVars
    BY <1>3 DEF Stop, contextVars, root, users
  <2>2. ContextIInv' /\ UNCHANGED <<file, worker>>
    BY <2>1, ContextKeepsIt DEF LoopIInv, contextVars, root, users
  <2>3. PICK x \in {"unlink", "ended"} : service' = [service EXCEPT ![w] = x]
    BY <1>3 DEF Stop
  <2>4. service[w] = "prime" /\ UNCHANGED <<pidfile, saw, raced>>
    BY <1>3 DEF Stop
  <2>5. ServiceInv'
    BY <1>1, <2>3, <2>4, ServiceMoves DEF LoopIInv
  <2>6. \A v \in Workers : OwnsItsJob(v)'
    BY <2>2, <2>3, <2>4, OwnersStay DEF LoopIInv
  <2>7. QED
    BY <2>2, <2>5, <2>6 DEF LoopIInv, KeepsSettled
<1>4. CASE Killed(w) \/ LoopRaises(w)
  <2>1. worker' = [worker EXCEPT ![w] = Idle] /\ UNCHANGED <<root, submitter, shell>>
    BY <1>4 DEF Killed, LoopRaises, root
  <2>2. ContextIInv' /\ UNCHANGED file
    BY <2>1, WorkerAlone, IdleIsSound DEF LoopIInv, root
  <2>3. PICK x \in {"unlink", "ended"} : service' = [service EXCEPT ![w] = x]
                                        /\ (x = "unlink" => LoopRaises(w))
    BY <1>4 DEF Killed, LoopRaises
  <2>4. UNCHANGED <<pidfile, saw, raced>> /\ service[w] # "ended"
        /\ (LoopRaises(w) => service[w] \in InLoop)
    BY <1>1, <1>4 DEF Killed, LoopRaises, Live
  <2>5. ServiceInv'
    BY <1>1, <2>3, <2>4, ServiceMoves DEF LoopIInv
  <2>6. \A v \in Workers : OwnsItsJob(v)'
    BY <2>1, <2>2, <2>3, <2>4, OwnersDrop
  <2>7. QED
    BY <2>2, <2>5, <2>6 DEF LoopIInv, KeepsSettled
<1>5. CASE BackoffEnds(w)
  <2>1. UNCHANGED contextVars
    BY <1>5 DEF BackoffEnds, contextVars, root, users
  <2>2. ContextIInv' /\ UNCHANGED <<file, worker, service, pidfile, saw, raced>>
    BY <1>5, <2>1, ContextKeepsIt DEF LoopIInv, contextVars, root, users, BackoffEnds
  <2>3. QED
    BY <2>2 DEF LoopIInv, ServiceInv, OwnsItsJob, KeepsSettled
<1>6. QED
  BY <1>2, <1>3, <1>4, <1>5

\* The cycle.
LEMMA TheCycle ==
    ASSUME LoopIInv, NEW w \in Workers, Cycle(w)
    PROVE  LoopIInv' /\ KeepsSettled
<1> USE DEF At, Going, Degraded
<1>1. /\ {"prime", "starting", "jobs", "context", "beat", "working"} \subseteq InLoop
      /\ InLoop \subseteq Places /\ "ended" \notin InLoop
      /\ "off" \notin InLoop /\ "checked" \notin InLoop
  BY DEF Places, InLoop
<1>2. CASE \/ CheckPrime(w) \/ StartPrime(w) \/ PrimeRaises(w)
           \/ JobCycle(w) \/ JobCycleRaises(w) \/ Beat(w)
           \/ (ContextCycle(w) /\ Queued = {})
           \/ (ContextRaises(w) /\ At(w, "context"))
  <2>1. UNCHANGED contextVars
    BY <1>2 DEF CheckPrime, StartPrime, PrimeRaises, JobCycle, JobCycleRaises, Beat, ContextCycle,
       ContextRaises, contextVars, root, users
  <2>2. ContextIInv' /\ UNCHANGED <<file, worker>>
    BY <2>1, ContextKeepsIt DEF LoopIInv, contextVars, root, users
  <2>3. PICK x \in {"prime", "starting", "jobs", "context", "beat"} : service' = [service EXCEPT ![w] = x]
    BY <1>2 DEF CheckPrime, StartPrime, PrimeRaises, JobCycle, JobCycleRaises, Beat, ContextCycle,
       ContextRaises
  <2>4. service[w] \in {"prime", "starting", "jobs", "context", "beat"} /\ UNCHANGED <<pidfile, saw, raced>>
    BY <1>2 DEF CheckPrime, StartPrime, PrimeRaises, JobCycle, JobCycleRaises, Beat, ContextCycle,
       ContextRaises
  <2>5. ServiceInv'
    BY <1>1, <2>3, <2>4, ServiceMoves DEF LoopIInv
  <2>6. \A v \in Workers : OwnsItsJob(v)'
    BY <2>2, <2>3, <2>4, OwnersStay DEF LoopIInv
  <2>7. QED
    BY <2>2, <2>5, <2>6 DEF LoopIInv, KeepsSettled
<1>3. CASE ContextCycle(w) /\ Queued # {}
  <2>1. Pick(w) /\ service[w] = "context" /\ service' = [service EXCEPT ![w] = "working"]
        /\ UNCHANGED <<pidfile, saw, raced>>
    BY <1>3 DEF ContextCycle
  <2>2. ContextIInv' /\ UNCHANGED file
    BY <2>1, PickKeepsIt DEF LoopIInv, Pick, root
  <2>3. ServiceInv'
    BY <1>1, <2>1, ServiceMoves DEF LoopIInv
  <2>4. \A v \in Workers : OwnsItsJob(v)'
    BY <2>1, OwnersPick
  <2>5. QED
    BY <2>2, <2>3, <2>4 DEF LoopIInv, KeepsSettled
<1>4. CASE ContextWork(w)
  <2>1. WorkStep(w) /\ service[w] = "working" /\ UNCHANGED <<pidfile, saw, raced>>
    BY <1>4 DEF ContextWork
  <2>2. PICK x \in {"beat", "working"} : service' = [service EXCEPT ![w] = x]
                                        /\ (worker'[w] # Idle => x = "working")
    BY <1>4 DEF ContextWork
  <2>3. ContextIInv'
    BY <2>1, ContextKeepsIt DEF LoopIInv, ContextStep
  <2>4. ServiceInv'
    BY <1>1, <2>1, <2>2, ServiceMoves DEF LoopIInv
  <2>5. Advances(w)
    BY <2>1, WorkAdvances DEF LoopIInv
  <2>6. \A v \in Workers : OwnsItsJob(v)'
    BY <2>1, <2>2, <2>5, OwnersWork
  <2>7. KeepsSettled
    <3>1. OwnsItsJob(w)
      BY DEF LoopIInv
    <3>2. ~raced' => file[worker[w].job].status \notin Settled
      BY <2>1, <2>5, <3>1 DEF OwnsItsJob, Advances, Settled
    <3>3. QED
      BY <2>5, <3>2 DEF KeepsSettled, Advances
  <2>8. QED
    BY <2>3, <2>4, <2>6, <2>7 DEF LoopIInv
<1>5. CASE ContextRaises(w) /\ ~At(w, "context")
  <2>1. WorkerDies(w) /\ service[w] = "working" /\ service' = [service EXCEPT ![w] = "beat"]
        /\ UNCHANGED <<pidfile, saw, raced>>
    BY <1>5 DEF ContextRaises
  <2>2. worker' = [worker EXCEPT ![w] = Idle] /\ UNCHANGED file
    BY <2>1 DEF WorkerDies, root
  <2>3. ContextIInv'
    BY <2>1, DiesKeepsIt DEF LoopIInv
  <2>4. ServiceInv'
    BY <1>1, <2>1, ServiceMoves DEF LoopIInv
  <2>5. \A v \in Workers : OwnsItsJob(v)'
    BY <2>1, <2>2, OwnersDrop
  <2>6. QED
    BY <2>2, <2>3, <2>4, <2>5 DEF LoopIInv, KeepsSettled
<1>6. QED
  BY <1>2, <1>3, <1>4, <1>5 DEF Cycle

LEMMA LoopKeepsIt ==
    ASSUME LoopIInv, [LoopNext]_loopVars
    PROVE  LoopIInv' /\ KeepsSettled
<1>1. CASE UNCHANGED loopVars
  <2>1. UNCHANGED <<file, worker, service, pidfile, saw, raced>> /\ UNCHANGED contextVars
    BY <1>1 DEF loopVars, contextVars, root, users, loop
  <2>2. ContextIInv'
    BY <2>1, ContextKeepsIt DEF LoopIInv
  <2>3. QED
    BY <2>1, <2>2 DEF LoopIInv, ServiceInv, OwnsItsJob, KeepsSettled
<1>2. ASSUME NEW w \in Workers,
             \/ CheckPid(w) \/ Register(w) \/ Stop(w) \/ Unlink(w)
             \/ Killed(w) \/ BackoffEnds(w) \/ LoopRaises(w) \/ Cycle(w)
      PROVE  LoopIInv' /\ KeepsSettled
  BY <1>2, AroundTheCycle, TheCycle
<1>3. CASE /\ (\E j \in Jobs : Submission(j)) \/ (\E s \in Shells : Command(s))
           /\ UNCHANGED loop
  <2>1. (\E j \in Jobs : Submission(j)) \/ (\E s \in Shells : Command(s))
    BY <1>3
  <2>2. UNCHANGED <<service, pidfile, saw, raced>>
    BY <1>3 DEF loop
  <2>3. ContextIInv'
    BY <2>1, ContextKeepsIt DEF LoopIInv, ContextStep
  <2>4. /\ \A v \in Workers : OwnsItsJob(v)'
        /\ \A k \in Jobs : file[k].status # None => file'[k] = file[k]
    BY <2>1, <2>2, OwnersApart
  <2>5. None \notin Settled
    BY DEF None, Settled
  <2>6. QED
    BY <2>2, <2>3, <2>4, <2>5 DEF LoopIInv, ServiceInv, KeepsSettled
<1>4. QED
  BY <1>1, <1>2, <1>3 DEF LoopNext

LEMMA LoopStarts == LoopInit => LoopIInv
<1> SUFFICES ASSUME LoopInit PROVE LoopIInv
  OBVIOUS
<1>1. ContextInit
  BY DEF LoopInit
<1>2. ServiceInv
  BY DEF LoopInit, ServiceInv, Places, InLoop
<1>3. \A w \in Workers : worker[w] = Idle
  BY <1>1 DEF ContextInit
<1>4. QED
  BY <1>1, <1>2, <1>3, ContextStarts DEF LoopIInv, OwnsItsJob

\* Under the service loops the queue stays sound, the pidfile names the one loop
\* there is, and a loop works on a job nobody else has, unless two have raced.
THEOREM LoopInvariance == LoopSpec => []LoopIInv
<1>1. LoopIInv /\ [LoopNext]_loopVars => LoopIInv'
  BY LoopKeepsIt
<1>2. QED
  BY <1>1, LoopStarts, PTL DEF LoopSpec

\* Under the loops too, a job in the queue has the row of its snapshot and a row its
\* object (ContextJobManager.submit).
THEOREM LoopsBackSnapshots == LoopSpec => []SnapshotsAreBacked
<1>1. LoopIInv => SnapshotsAreBacked
  BY ContextIsSafe DEF LoopIInv
<1>2. QED
  BY <1>1, LoopInvariance, PTL

\* Under the loops too, no job takes a mixture of two editions for its success: its
\* package loads in the version of its result, unless another edition has been
\* written there since it has found that (ContextPackage.load, work_once).
THEOREM LoopsLoad == LoopSpec => []SucceededLoads
<1>1. LoopIInv => SucceededLoads
  BY ContextIsSafe DEF LoopIInv
<1>2. QED
  BY <1>1, LoopInvariance, PTL

\* Unless two starts, or a start and an end, have come between each other's read
\* and write of the pidfile, no settled context job is taken up again
\* (cmd_supervise, ContextJobManager.work_once).
THEOREM SettledStays == LoopSpec => SettledUnlessRaced
<1>1. LoopIInv /\ [LoopNext]_loopVars
      => [~raced' => \A j \in Jobs : file[j].status \in Settled => file'[j] = file[j]]_loopVars
  BY LoopKeepsIt DEF KeepsSettled
<1>2. QED
  BY <1>1, LoopInvariance, PTL DEF LoopSpec, SettledUnlessRaced

-----------------------------------------------------------------------------
(***************************************************************************)
(* The migration builds.                                                   *)
(***************************************************************************)
\* What a builder keeps.
Shaped(u) ==
    u = [at |-> u.at, existed |-> u.existed, key |-> u.key, read |-> u.read,
         touched |-> u.touched, moment |-> u.moment, staged |-> u.staged, created |-> u.created]

Guarding == {"first", "copy", "check", "second"}

\* The builders and what each may hold.
Shapes ==
    /\ builder = [b \in Builders |-> builder[b]]
    /\ output = [b \in Builders |-> output[b]]
    /\ keyfile \in Builders \cup {None, "empty"}
    /\ lock \in Builders \cup {None}
    /\ \A b \in Builders :
          /\ Shaped(builder[b])
          /\ builder[b].read \in Nat
          /\ lock = b <=> builder[b].at \in Guarding

Keyed == {"guard", "first", "copy", "check", "second", "pack", "publish", "write", "done"}

\* A build past its key has one, and a package its own or it has been robbed of it.
SoundKey(b, u) ==
    /\ u.at \in Keyed => u.key \in Builders
    /\ u.at \in {"publish", "write", "done"} => keyfile = u.key \/ b \in robbed

\* The first k artifacts.
Prefix(k) == {Artifacts[i] : i \in 1..k}

Unpublished == {"key", "write key", "read key", "guard", "first", "copy", "check", "second", "pack"}

\* What is in the output is what the build has put there.
SoundOutput(b, u) ==
    /\ u.at \in Unpublished => output[b] = {} /\ u.created = {}
    /\ u.at = "publish" => \E k \in 0..5 : u.created = Prefix(k) /\ output[b] = Prefix(k)
    /\ u.at = "write" => \E k \in 3..5 : u.created = Prefix(k) /\ output[b] = Prefix(k + 1)
    /\ u.at \in {"idle", "failed"} =>
          output[b] = {} \/ \E k \in 3..5 : output[b] = {Artifacts[k + 1]}

Fresh == {"key", "write key", "read key", "guard", "first"}

Taken == {"copy", "check", "second"}

Database == <<"database">>

\* What is copied is what was there at the moment, unless it has been touched since.
SoundSnap(u) ==
    /\ u.at \in Fresh => u.staged = NoTree
    /\ u.at \in Taken =>
          /\ u.moment = [i \in Range(Copied) |-> u.moment[i]]
          /\ Content(Database) = u.moment[Database]
          /\ \A i \in Range(Copied) \cap DOMAIN u.staged :
                i = Database \/ i \notin u.touched => u.staged[i] = u.moment[i]
    /\ u.at \in {"copy", "check"} =>
          \A i \in Range(Fingerprinted) : i \notin u.touched => Content(i) = u.moment[i]
    /\ u.at = "copy" => DOMAIN u.staged = {Copied[k] : k \in 1..u.read}
    /\ u.at \in {"check", "second"} => u.staged = [i \in Range(Copied) |-> u.staged[i]]
    /\ u.at = "check" => u.read = 0
    /\ u.at = "second" =>
          \A k \in 1..u.read : k \in 1..Len(Fingerprinted)
                               => u.staged[Fingerprinted[k]] = u.moment[Fingerprinted[k]]
    /\ u.at \in {"pack", "publish", "write", "done"} => u.staged = u.moment

BuilderIInv ==
    /\ Shapes
    /\ \A b \in Builders :
          SoundKey(b, builder[b]) /\ SoundOutput(b, builder[b]) /\ SoundSnap(builder[b])

-----------------------------------------------------------------------------
(***************************************************************************)
(* The files, one after the other.                                         *)
(***************************************************************************)
LEMMA Listing ==
    ASSUME NEW S, IsFiniteSet(S)
    PROVE  SetToSeq(S) \in Seq(S)
<1>1. Cardinality(S) \in Nat /\ ExistsBijection(1..Cardinality(S), S)
  BY FS_CardinalityType
<1>2. PICK f : f \in Bijection(1..Cardinality(S), S)
  BY <1>1 DEF ExistsBijection
<1>3. f \in [1..Cardinality(S) -> S] /\ IsInjective(f)
  BY <1>2 DEF Bijection, Injection, IsInjective
<1>4. SetToSeq(S) \in [1..Cardinality(S) -> S]
  BY <1>3 DEF SetToSeq
<1>5. QED
  BY <1>1, <1>4, SeqDef

LEMMA EachIsASequence ==
    ASSUME NEW kind, NEW S, IsFiniteSet(S)
    PROVE  Each(kind, S) \in Seq({<<kind, x>> : x \in S})
<1>1. PICK seq : seq = SetToSeq(S)
  OBVIOUS
<1>2. seq \in Seq(S)
  BY <1>1, Listing
<1>3. Len(seq) \in Nat /\ \A i \in 1..Len(seq) : seq[i] \in S
  BY <1>2, LenProperties, ElementOfSeq
<1>4. Each(kind, S) = [i \in 1..Len(seq) |-> <<kind, seq[i]>>]
  BY <1>1 DEF Each
<1>5. Each(kind, S) \in [1..Len(seq) -> {<<kind, x>> : x \in S}]
  BY <1>3, <1>4
<1>6. QED
  BY <1>3, <1>5, SeqDef

\* What is one after the other holds what both hold.
LEMMA Joined ==
    ASSUME NEW S, NEW s \in Seq(S), NEW t \in Seq(S)
    PROVE  s \o t \in Seq(S) /\ Range(s \o t) = Range(s) \cup Range(t)
<1>1. s \o t \in Seq(S) /\ Len(s \o t) = Len(s) + Len(t)
      /\ \A i \in 1..(Len(s) + Len(t)) :
            (s \o t)[i] = IF i <= Len(s) THEN s[i] ELSE t[i - Len(s)]
  BY ConcatProperties
<1>2. /\ DOMAIN s = 1..Len(s) /\ DOMAIN t = 1..Len(t)
      /\ DOMAIN (s \o t) = 1..(Len(s) + Len(t))
      /\ Len(s) \in Nat /\ Len(t) \in Nat
  BY <1>1, LenProperties
<1>3. Range(s \o t) \subseteq Range(s) \cup Range(t)
  <2>1. SUFFICES ASSUME NEW i \in 1..(Len(s) + Len(t))
                 PROVE  (s \o t)[i] \in Range(s) \cup Range(t)
    BY <1>2 DEF Range
  <2>2. CASE i <= Len(s)
    BY <2>2, <1>1, <1>2 DEF Range
  <2>3. CASE ~(i <= Len(s))
    <3>1. i - Len(s) \in 1..Len(t)
      BY <2>3, <1>2
    <3>2. QED
      BY <2>3, <3>1, <1>1, <1>2 DEF Range
  <2>4. QED
    BY <2>2, <2>3
<1>4. \A x \in Range(s) : x \in Range(s \o t)
  <2>1. SUFFICES ASSUME NEW i \in 1..Len(s)
                 PROVE  s[i] \in Range(s \o t)
    BY <1>2 DEF Range
  <2>2. i \in 1..(Len(s) + Len(t)) /\ (s \o t)[i] = s[i]
    BY <1>1, <1>2
  <2>3. QED
    BY <2>2, <1>2 DEF Range
<1>5. \A x \in Range(t) : x \in Range(s \o t)
  <2>1. SUFFICES ASSUME NEW i \in 1..Len(t)
                 PROVE  t[i] \in Range(s \o t)
    BY <1>2 DEF Range
  <2>2. PICK k : k = Len(s) + i
    OBVIOUS
  <2>3. k \in 1..(Len(s) + Len(t)) /\ ~(k <= Len(s)) /\ k - Len(s) = i
    BY <2>2, <1>2
  <2>4. (s \o t)[k] = t[i]
    BY <2>3, <1>1
  <2>5. QED
    BY <2>3, <2>4, <1>2 DEF Range
<1>6. QED
  BY <1>1, <1>3, <1>4, <1>5

\* The fingerprint and the copy visit the same files, and the copy the database too.
LEMMA Visited ==
    /\ Len(Fingerprinted) \in Nat /\ DOMAIN Fingerprinted = 1..Len(Fingerprinted)
    /\ Len(Copied) \in Nat /\ DOMAIN Copied = 1..Len(Copied)
    /\ Range(Copied) = Range(Fingerprinted) \cup {Database}
<1> DEFINE E(kind, S) == {<<kind, x>> : x \in S}
           P == E("job", Jobs) \cup E("ir", Contexts) \cup E("manifest", Contexts)
                \cup E("object", Jobs) \cup {Database}
           db == <<Database>>
           objs == Each("object", Jobs)
<1>1. /\ Each("job", Jobs) \in Seq(P) /\ Each("ir", Contexts) \in Seq(P)
      /\ Each("manifest", Contexts) \in Seq(P) /\ objs \in Seq(P)
  <2>1. /\ Each("job", Jobs) \in Seq(E("job", Jobs)) /\ objs \in Seq(E("object", Jobs))
        /\ Each("ir", Contexts) \in Seq(E("ir", Contexts))
        /\ Each("manifest", Contexts) \in Seq(E("manifest", Contexts))
    BY EachIsASequence, ContextConstantsOK
  <2>2. /\ E("job", Jobs) \subseteq P /\ E("object", Jobs) \subseteq P
        /\ E("ir", Contexts) \subseteq P /\ E("manifest", Contexts) \subseteq P
    OBVIOUS
  <2> HIDE DEF E, P, objs
  <2>3. \A A, B, s : A \subseteq B /\ s \in Seq(A) => s \in Seq(B)
    <3>1. SUFFICES ASSUME NEW A, NEW B, NEW s, A \subseteq B, s \in Seq(A)
                   PROVE  s \in Seq(B)
      OBVIOUS
    <3>2. Len(s) \in Nat /\ s \in [1..Len(s) -> A]
      BY <3>1, LenProperties
    <3>3. s \in [1..Len(s) -> B]
      BY <3>1, <3>2
    <3>4. QED
      BY <3>2, <3>3, SeqDef
  <2>4. QED
    BY <2>1, <2>2, <2>3
<1>2. db \in Seq(P) /\ Range(db) = {Database}
  <2>1. Database \in P
    OBVIOUS
  <2> HIDE DEF P, E
  <2>2. QED
    BY <2>1 DEF Range
<1> HIDE DEF E, P, objs
<1>3. BeforeDatabase \in Seq(P)
  BY <1>1, Joined DEF BeforeDatabase
<1>4. Fingerprinted \in Seq(P) /\ Range(Fingerprinted) = Range(BeforeDatabase) \cup Range(objs)
  BY <1>1, <1>3, Joined DEF Fingerprinted, objs
<1>5. BeforeDatabase \o db \in Seq(P) /\ Range(BeforeDatabase \o db) = Range(BeforeDatabase) \cup {Database}
  <2> HIDE DEF db
  <2>1. QED
    BY <1>2, <1>3, Joined
<1>6. Copied = (BeforeDatabase \o db) \o objs
  BY DEF Copied, objs, Database
<1>7. Copied \in Seq(P) /\ Range(Copied) = Range(BeforeDatabase \o db) \cup Range(objs)
  <2>1. PICK s, t : s = BeforeDatabase \o db /\ t = objs
    OBVIOUS
  <2> HIDE DEF db
  <2>2. s \in Seq(P) /\ t \in Seq(P)
    BY <1>1, <1>5, <2>1
  <2>3. s \o t \in Seq(P) /\ Range(s \o t) = Range(s) \cup Range(t)
    BY <2>2, Joined
  <2>4. QED
    BY <1>6, <2>1, <2>3
<1>8. QED
  BY <1>4, <1>5, <1>7, LenProperties

-----------------------------------------------------------------------------
(***************************************************************************)
(* What each step does to its builder.                                     *)
(***************************************************************************)
\* One field of a builder, or several, and what that leaves.
Placed(u, x) == [u EXCEPT !.at = x]
Existing(u, x) == [u EXCEPT !.existed = x]
Keying(u, x) == [u EXCEPT !.key = x]
Reading(u, x) == [u EXCEPT !.read = x]
Touching(u, x) == [u EXCEPT !.touched = x]
Timed(u, x) == [u EXCEPT !.moment = x]
Staging(u, x) == [u EXCEPT !.staged = x]
Creating(u, x) == [u EXCEPT !.created = x]

LEMMA PlaceSet ==
    \A u, x, v : Shaped(u) /\ v = Placed(u, x)
                 => /\ Shaped(v) /\ v.at = x
                    /\ v.existed = u.existed /\ v.key = u.key /\ v.read = u.read /\ v.touched = u.touched
                    /\ v.moment = u.moment /\ v.staged = u.staged /\ v.created = u.created
BY DEF Shaped, Placed

LEMMA ExistedSet ==
    \A u, x, v : Shaped(u) /\ v = Existing(u, x)
                 => /\ Shaped(v) /\ v.existed = x
                    /\ v.at = u.at /\ v.key = u.key /\ v.read = u.read /\ v.touched = u.touched
                    /\ v.moment = u.moment /\ v.staged = u.staged /\ v.created = u.created
BY DEF Shaped, Existing

LEMMA KeySet ==
    \A u, x, v : Shaped(u) /\ v = Keying(u, x)
                 => /\ Shaped(v) /\ v.key = x
                    /\ v.at = u.at /\ v.existed = u.existed /\ v.read = u.read /\ v.touched = u.touched
                    /\ v.moment = u.moment /\ v.staged = u.staged /\ v.created = u.created
BY DEF Shaped, Keying

LEMMA ReadSet ==
    \A u, x, v : Shaped(u) /\ v = Reading(u, x)
                 => /\ Shaped(v) /\ v.read = x
                    /\ v.at = u.at /\ v.existed = u.existed /\ v.key = u.key /\ v.touched = u.touched
                    /\ v.moment = u.moment /\ v.staged = u.staged /\ v.created = u.created
BY DEF Shaped, Reading

LEMMA TouchedSet ==
    \A u, x, v : Shaped(u) /\ v = Touching(u, x)
                 => /\ Shaped(v) /\ v.touched = x
                    /\ v.at = u.at /\ v.existed = u.existed /\ v.key = u.key /\ v.read = u.read
                    /\ v.moment = u.moment /\ v.staged = u.staged /\ v.created = u.created
BY DEF Shaped, Touching

LEMMA MomentSet ==
    \A u, x, v : Shaped(u) /\ v = Timed(u, x)
                 => /\ Shaped(v) /\ v.moment = x
                    /\ v.at = u.at /\ v.existed = u.existed /\ v.key = u.key /\ v.read = u.read
                    /\ v.touched = u.touched /\ v.staged = u.staged /\ v.created = u.created
BY DEF Shaped, Timed

LEMMA StagedSet ==
    \A u, x, v : Shaped(u) /\ v = Staging(u, x)
                 => /\ Shaped(v) /\ v.staged = x
                    /\ v.at = u.at /\ v.existed = u.existed /\ v.key = u.key /\ v.read = u.read
                    /\ v.touched = u.touched /\ v.moment = u.moment /\ v.created = u.created
BY DEF Shaped, Staging

LEMMA CreatedSet ==
    \A u, x, v : Shaped(u) /\ v = Creating(u, x)
                 => /\ Shaped(v) /\ v.created = x
                    /\ v.at = u.at /\ v.existed = u.existed /\ v.key = u.key /\ v.read = u.read
                    /\ v.touched = u.touched /\ v.moment = u.moment /\ v.staged = u.staged
BY DEF Shaped, Creating

LEMMA NewBuilder ==
    \A x : /\ Shaped(Builder(x)) /\ Builder(x).at = x /\ Builder(x).key = None
           /\ Builder(x).read = 0 /\ Builder(x).staged = NoTree /\ Builder(x).created = {}
BY DEF Shaped, Builder

WithKey(u, p, k) == [u EXCEPT !.at = p, !.key = k]

WithMoment(u, p, n, m) == [u EXCEPT !.at = p, !.read = n, !.moment = m]

WithStaged(u, p, n, m) == [u EXCEPT !.at = p, !.read = n, !.staged = m]

WithTouched(u, p, n, m) == [u EXCEPT !.at = p, !.read = n, !.touched = m]

WithCreated(u, p, k) == [u EXCEPT !.at = p, !.created = k]

LEMMA WithKeySet ==
    \A u, p, k, v : Shaped(u) /\ v = WithKey(u, p, k)
                  => /\ Shaped(v) /\ v.at = p
                     /\ v.existed = u.existed /\ v.key = k /\ v.read = u.read
                     /\ v.touched = u.touched /\ v.moment = u.moment /\ v.staged = u.staged /\ v.created = u.created
<1> SUFFICES ASSUME NEW u, NEW p, NEW k, NEW v, Shaped(u), v = WithKey(u, p, k)
             PROVE  /\ Shaped(v) /\ v.at = p
                    /\ v.existed = u.existed /\ v.key = k /\ v.read = u.read
                    /\ v.touched = u.touched /\ v.moment = u.moment /\ v.staged = u.staged /\ v.created = u.created
  OBVIOUS
<1>1. PICK v1, v2 : v1 = Placed(u, p) /\ v2 = Keying(v1, k)
  OBVIOUS
<1>2. v = v2
  BY <1>1 DEF WithKey, Placed, Keying
<1>3. /\ Shaped(v1) /\ v1.at = p
      /\ v1.existed = u.existed /\ v1.key = u.key /\ v1.read = u.read /\ v1.touched = u.touched
      /\ v1.moment = u.moment /\ v1.staged = u.staged /\ v1.created = u.created
  BY <1>1, PlaceSet
<1>4. /\ Shaped(v2) /\ v2.key = k
      /\ v2.at = v1.at /\ v2.existed = v1.existed /\ v2.read = v1.read /\ v2.touched = v1.touched
      /\ v2.moment = v1.moment /\ v2.staged = v1.staged /\ v2.created = v1.created
  BY <1>1, <1>3, KeySet
<1>5. QED
  BY <1>2, <1>3, <1>4

LEMMA WithMomentSet ==
    \A u, p, n, m, v : Shaped(u) /\ v = WithMoment(u, p, n, m)
                  => /\ Shaped(v) /\ v.at = p
                     /\ v.existed = u.existed /\ v.key = u.key /\ v.read = n
                     /\ v.touched = u.touched /\ v.moment = m /\ v.staged = u.staged /\ v.created = u.created
<1> SUFFICES ASSUME NEW u, NEW p, NEW n, NEW m, NEW v, Shaped(u), v = WithMoment(u, p, n, m)
             PROVE  /\ Shaped(v) /\ v.at = p
                    /\ v.existed = u.existed /\ v.key = u.key /\ v.read = n
                    /\ v.touched = u.touched /\ v.moment = m /\ v.staged = u.staged /\ v.created = u.created
  OBVIOUS
<1>1. PICK v1, v2 : v1 = Placed(u, p) /\ v2 = Reading(v1, n)
  OBVIOUS
<1>2. v = Timed(v2, m)
  BY <1>1 DEF WithMoment, Placed, Reading, Timed
<1>3. /\ Shaped(v1) /\ v1.at = p
      /\ v1.existed = u.existed /\ v1.key = u.key /\ v1.read = u.read /\ v1.touched = u.touched
      /\ v1.moment = u.moment /\ v1.staged = u.staged /\ v1.created = u.created
  BY <1>1, PlaceSet
<1>4. /\ Shaped(v2) /\ v2.read = n
      /\ v2.at = v1.at /\ v2.existed = v1.existed /\ v2.key = v1.key /\ v2.touched = v1.touched
      /\ v2.moment = v1.moment /\ v2.staged = v1.staged /\ v2.created = v1.created
  BY <1>1, <1>3, ReadSet
<1>5. /\ Shaped(v) /\ v.moment = m
      /\ v.at = v2.at /\ v.existed = v2.existed /\ v.key = v2.key /\ v.read = v2.read
      /\ v.touched = v2.touched /\ v.staged = v2.staged /\ v.created = v2.created
  BY <1>2, <1>4, MomentSet
<1>6. QED
  BY <1>3, <1>4, <1>5

LEMMA WithStagedSet ==
    \A u, p, n, m, v : Shaped(u) /\ v = WithStaged(u, p, n, m)
                  => /\ Shaped(v) /\ v.at = p
                     /\ v.existed = u.existed /\ v.key = u.key /\ v.read = n
                     /\ v.touched = u.touched /\ v.moment = u.moment /\ v.staged = m /\ v.created = u.created
<1> SUFFICES ASSUME NEW u, NEW p, NEW n, NEW m, NEW v, Shaped(u), v = WithStaged(u, p, n, m)
             PROVE  /\ Shaped(v) /\ v.at = p
                    /\ v.existed = u.existed /\ v.key = u.key /\ v.read = n
                    /\ v.touched = u.touched /\ v.moment = u.moment /\ v.staged = m /\ v.created = u.created
  OBVIOUS
<1>1. PICK v1, v2 : v1 = Placed(u, p) /\ v2 = Reading(v1, n)
  OBVIOUS
<1>2. v = Staging(v2, m)
  BY <1>1 DEF WithStaged, Placed, Reading, Staging
<1>3. /\ Shaped(v1) /\ v1.at = p
      /\ v1.existed = u.existed /\ v1.key = u.key /\ v1.read = u.read /\ v1.touched = u.touched
      /\ v1.moment = u.moment /\ v1.staged = u.staged /\ v1.created = u.created
  BY <1>1, PlaceSet
<1>4. /\ Shaped(v2) /\ v2.read = n
      /\ v2.at = v1.at /\ v2.existed = v1.existed /\ v2.key = v1.key /\ v2.touched = v1.touched
      /\ v2.moment = v1.moment /\ v2.staged = v1.staged /\ v2.created = v1.created
  BY <1>1, <1>3, ReadSet
<1>5. /\ Shaped(v) /\ v.staged = m
      /\ v.at = v2.at /\ v.existed = v2.existed /\ v.key = v2.key /\ v.read = v2.read
      /\ v.touched = v2.touched /\ v.moment = v2.moment /\ v.created = v2.created
  BY <1>2, <1>4, StagedSet
<1>6. QED
  BY <1>3, <1>4, <1>5

LEMMA WithTouchedSet ==
    \A u, p, n, m, v : Shaped(u) /\ v = WithTouched(u, p, n, m)
                  => /\ Shaped(v) /\ v.at = p
                     /\ v.existed = u.existed /\ v.key = u.key /\ v.read = n
                     /\ v.touched = m /\ v.moment = u.moment /\ v.staged = u.staged /\ v.created = u.created
<1> SUFFICES ASSUME NEW u, NEW p, NEW n, NEW m, NEW v, Shaped(u), v = WithTouched(u, p, n, m)
             PROVE  /\ Shaped(v) /\ v.at = p
                    /\ v.existed = u.existed /\ v.key = u.key /\ v.read = n
                    /\ v.touched = m /\ v.moment = u.moment /\ v.staged = u.staged /\ v.created = u.created
  OBVIOUS
<1>1. PICK v1, v2 : v1 = Placed(u, p) /\ v2 = Reading(v1, n)
  OBVIOUS
<1>2. v = Touching(v2, m)
  BY <1>1 DEF WithTouched, Placed, Reading, Touching
<1>3. /\ Shaped(v1) /\ v1.at = p
      /\ v1.existed = u.existed /\ v1.key = u.key /\ v1.read = u.read /\ v1.touched = u.touched
      /\ v1.moment = u.moment /\ v1.staged = u.staged /\ v1.created = u.created
  BY <1>1, PlaceSet
<1>4. /\ Shaped(v2) /\ v2.read = n
      /\ v2.at = v1.at /\ v2.existed = v1.existed /\ v2.key = v1.key /\ v2.touched = v1.touched
      /\ v2.moment = v1.moment /\ v2.staged = v1.staged /\ v2.created = v1.created
  BY <1>1, <1>3, ReadSet
<1>5. /\ Shaped(v) /\ v.touched = m
      /\ v.at = v2.at /\ v.existed = v2.existed /\ v.key = v2.key /\ v.read = v2.read
      /\ v.moment = v2.moment /\ v.staged = v2.staged /\ v.created = v2.created
  BY <1>2, <1>4, TouchedSet
<1>6. QED
  BY <1>3, <1>4, <1>5

LEMMA WithCreatedSet ==
    \A u, p, k, v : Shaped(u) /\ v = WithCreated(u, p, k)
                  => /\ Shaped(v) /\ v.at = p
                     /\ v.existed = u.existed /\ v.key = u.key /\ v.read = u.read
                     /\ v.touched = u.touched /\ v.moment = u.moment /\ v.staged = u.staged /\ v.created = k
<1> SUFFICES ASSUME NEW u, NEW p, NEW k, NEW v, Shaped(u), v = WithCreated(u, p, k)
             PROVE  /\ Shaped(v) /\ v.at = p
                    /\ v.existed = u.existed /\ v.key = u.key /\ v.read = u.read
                    /\ v.touched = u.touched /\ v.moment = u.moment /\ v.staged = u.staged /\ v.created = k
  OBVIOUS
<1>1. PICK v1, v2 : v1 = Placed(u, p) /\ v2 = Creating(v1, k)
  OBVIOUS
<1>2. v = v2
  BY <1>1 DEF WithCreated, Placed, Creating
<1>3. /\ Shaped(v1) /\ v1.at = p
      /\ v1.existed = u.existed /\ v1.key = u.key /\ v1.read = u.read /\ v1.touched = u.touched
      /\ v1.moment = u.moment /\ v1.staged = u.staged /\ v1.created = u.created
  BY <1>1, PlaceSet
<1>4. /\ Shaped(v2) /\ v2.created = k
      /\ v2.at = v1.at /\ v2.existed = v1.existed /\ v2.key = v1.key /\ v2.read = v1.read
      /\ v2.touched = v1.touched /\ v2.moment = v1.moment /\ v2.staged = v1.staged
  BY <1>1, <1>3, CreatedSet
<1>5. QED
  BY <1>2, <1>3, <1>4

-----------------------------------------------------------------------------
(***************************************************************************)
(* A step of one build.                                                    *)
(***************************************************************************)
\* The others keep the key they have, or are robbed of it.
OthersKeep(b) ==
    \A c \in Builders :
        /\ c # b
        /\ builder[c].key \in Builders
        /\ keyfile = builder[c].key \/ c \in robbed
        => keyfile' = builder[c].key \/ c \in robbed'

LEMMA Turn ==
    ASSUME BuilderIInv, NEW b \in Builders, NEW v, Becomes(b, v), Shaped(v), v.read \in Nat,
           UNCHANGED <<contextVars, busy>>,
           keyfile' \in Builders \cup {None, "empty"},
           v.at \in Guarding => lock \in {None, b},
           lock' = IF v.at \in Guarding THEN b ELSE IF lock = b THEN None ELSE lock,
           output' = [c \in Builders |-> output'[c]],
           \A c \in Builders : c # b => output'[c] = output[c],
           OthersKeep(b), SoundKey(b, v)', SoundOutput(b, v)', SoundSnap(v)
    PROVE  BuilderIInv'
<1>1. /\ builder' = [c \in Builders |-> builder'[c]]
      /\ builder'[b] = v
      /\ \A c \in Builders : c # b => builder'[c] = builder[c]
  BY DEF Becomes, BuilderIInv, Shapes
<1>2. None \notin Builders
  BY MigrationConstantsOK
<1>3. Shapes'
  <2>1. ASSUME NEW c \in Builders
        PROVE  /\ Shaped(builder'[c]) /\ builder'[c].read \in Nat
               /\ lock' = c <=> builder'[c].at \in Guarding
    <3>1. CASE c = b
      BY <3>1, <1>1, <1>2 DEF BuilderIInv, Shapes
    <3>2. CASE c # b
      BY <3>2, <1>1, <1>2 DEF BuilderIInv, Shapes
    <3>3. QED
      BY <3>1, <3>2
  <2>2. lock' \in Builders \cup {None}
    BY DEF BuilderIInv, Shapes
  <2>3. \A c \in Builders : Shaped(builder[c])'
    BY <2>1 DEF Shaped
  <2>4. QED
    BY <1>1, <2>1, <2>2, <2>3 DEF Shapes
<1>4. \A i : Content(i)' = Content(i)
  BY DEF Content, contextVars, root
<1>5. \A u : SoundSnap(u) => SoundSnap(u)'
  BY <1>4 DEF SoundSnap
<1>6. ASSUME NEW c \in Builders
      PROVE  (SoundKey(c, builder[c]) /\ SoundOutput(c, builder[c]) /\ SoundSnap(builder[c]))'
  <2>1. PICK u : u = builder'[c]
    OBVIOUS
  <2>2. CASE c = b
    <3>1. SoundKey(c, u)' /\ SoundOutput(c, u)' /\ SoundSnap(u)'
      BY <1>1, <1>5, <2>1, <2>2
    <3>2. QED
      BY <2>1, <3>1 DEF SoundKey, SoundOutput, SoundSnap
  <2>3. CASE c # b
    <3>1. u = builder[c] /\ SoundKey(c, u) /\ SoundOutput(c, u) /\ SoundSnap(u)
      BY <1>1, <2>1, <2>3 DEF BuilderIInv
    <3>2. SoundKey(c, u)'
      BY <2>3, <3>1 DEF SoundKey, OthersKeep, Keyed
    <3>3. SoundOutput(c, u)'
      BY <2>3, <3>1 DEF SoundOutput
    <3>4. SoundSnap(u)'
      BY <3>1, <1>5
    <3>5. QED
      BY <2>1, <3>2, <3>3, <3>4 DEF SoundKey, SoundOutput, SoundSnap
  <2>4. QED
    BY <2>2, <2>3
<1>7. QED
  BY <1>3, <1>6 DEF BuilderIInv

\* A step that leaves lock, key and output alone.
LEMMA QuietTurn ==
    ASSUME BuilderIInv, NEW b \in Builders, NEW v, Becomes(b, v), Shaped(v), v.read \in Nat,
           UNCHANGED <<contextVars, busy, lock, keyfile, output, robbed>>,
           v.at \in Guarding <=> builder[b].at \in Guarding,
           SoundKey(b, v), SoundOutput(b, v), SoundSnap(v)
    PROVE  BuilderIInv'
<1>1. keyfile \in Builders \cup {None, "empty"} /\ output = [c \in Builders |-> output[c]]
  BY DEF BuilderIInv, Shapes
<1>2. lock = b <=> v.at \in Guarding
  BY DEF BuilderIInv, Shapes
<1>3. SoundKey(b, v)' /\ SoundOutput(b, v)' /\ OthersKeep(b)
  BY DEF SoundKey, SoundOutput, OthersKeep
<1>4. lock' = IF v.at \in Guarding THEN b ELSE IF lock = b THEN None ELSE lock
  BY <1>2
<1>5. v.at \in Guarding => lock \in {None, b}
  BY <1>2
<1>6. /\ keyfile' \in Builders \cup {None, "empty"}
      /\ output' = [c \in Builders |-> output'[c]]
      /\ \A c \in Builders : c # b => output'[c] = output[c]
  BY <1>1
<1>7. QED
  BY <1>3, <1>4, <1>5, <1>6, Turn

LEMMA BuilderIs ==
    ASSUME BuilderIInv, NEW b \in Builders
    PROVE  /\ Shaped(builder[b]) /\ builder[b].read \in Nat
           /\ lock = b <=> builder[b].at \in Guarding
           /\ SoundKey(b, builder[b]) /\ SoundOutput(b, builder[b]) /\ SoundSnap(builder[b])
BY DEF BuilderIInv, Shapes

LEMMA ValidateKeepsIt ==
    ASSUME BuilderIInv, NEW b \in Builders, Validate(b)
    PROVE  BuilderIInv'
<1>1. PICK x, u, v : u = Builder("key") /\ v = Existing(u, x) /\ Becomes(b, v)
  BY DEF Validate, Existing
<1>2. /\ Shaped(v) /\ v.at = "key" /\ v.read = 0 /\ v.staged = NoTree /\ v.created = {}
  BY <1>1, NewBuilder, ExistedSet
<1>3. /\ builder[b].at = "idle" /\ output[b] = {}
      /\ UNCHANGED <<contextVars, busy, lock, keyfile, output, robbed>>
  BY DEF Validate, Is
<1>4. SoundKey(b, v) /\ SoundOutput(b, v) /\ SoundSnap(v)
  BY <1>2, <1>3 DEF SoundKey, SoundOutput, SoundSnap, Keyed, Unpublished, Fresh, Taken
<1>5. v.at \in Guarding <=> builder[b].at \in Guarding
  BY <1>2, <1>3 DEF Guarding
<1>6. QED
  BY <1>1, <1>2, <1>3, <1>4, <1>5, QuietTurn

\* A build that has no key yet goes on, or gives up.
LEMMA BeforeTheKey ==
    ASSUME BuilderIInv, NEW b \in Builders, builder[b].at \in {"key", "write key", "read key"},
           NEW v, Becomes(b, v), UNCHANGED <<contextVars, busy, lock, output, robbed>>,
           \/ v = Builder("idle")
           \/ \E x \in {"write key", "read key"} : v = Placed(builder[b], x)
           \/ v = WithKey(builder[b], "guard", keyfile) /\ keyfile \in Builders,
           \/ UNCHANGED keyfile
           \/ keyfile \in {None, "empty"} /\ keyfile' \in Builders \cup {None, "empty"}
    PROVE  BuilderIInv'
<1>1. PICK u : u = builder[b]
  OBVIOUS
<1>2. /\ Shaped(u) /\ u.read \in Nat /\ output[b] = {} /\ u.created = {} /\ u.staged = NoTree
      /\ lock # b
  BY <1>1, BuilderIs DEF SoundOutput, Unpublished, SoundSnap, Fresh, Guarding
<1>3. /\ Shaped(v) /\ v.read \in Nat
      /\ v.at \in {"idle", "write key", "read key", "guard"}
      /\ v.at = "guard" => v.key \in Builders
      /\ v.staged = NoTree /\ v.created = {}
  <2>1. ASSUME NEW x, v = Placed(u, x)
        PROVE  Shaped(v) /\ v.at = x /\ v.read = u.read /\ v.staged = u.staged
               /\ v.created = u.created
    BY ONLY <1>2, <2>1, PlaceSet
  <2>2. ASSUME NEW k, v = WithKey(u, "guard", k)
        PROVE  Shaped(v) /\ v.at = "guard" /\ v.read = u.read /\ v.staged = u.staged
               /\ v.created = u.created /\ v.key = k
    BY ONLY <1>2, <2>2, WithKeySet
  <2>3. CASE v = Builder("idle")
    <3>1. /\ Shaped(v) /\ v.read = 0 /\ v.at = "idle" /\ v.staged = NoTree
          /\ v.created = {}
      BY ONLY <2>3, NewBuilder
    <3>2. v.read \in Nat
      BY ONLY <3>1
    <3>3. v.at # "guard"
      BY ONLY <3>1
    <3>4. QED
      BY ONLY <3>1, <3>2, <3>3
  <2>4. CASE \E x \in {"write key", "read key"} : v = Placed(builder[b], x)
    BY <1>1, <1>2, <2>1, <2>4
  <2>5. CASE v = WithKey(builder[b], "guard", keyfile) /\ keyfile \in Builders
    BY <1>1, <1>2, <2>2, <2>5
  <2>6. QED
    BY <2>3, <2>4, <2>5
<1>4. v.at \notin Guarding /\ v.at \notin {"publish", "write", "done", "failed"}
      /\ (v.at \in Keyed => v.at = "guard")
  BY <1>3 DEF Guarding, Keyed
<1>5. SoundKey(b, v)'
  BY <1>3, <1>4 DEF SoundKey
<1>6. SoundOutput(b, v)'
  BY <1>2, <1>3 DEF SoundOutput, Unpublished
<1>7. SoundSnap(v)
  BY <1>3 DEF SoundSnap, Taken
<1>8. OthersKeep(b)
  BY MigrationConstantsOK DEF OthersKeep
<1>9. /\ keyfile' \in Builders \cup {None, "empty"}
      /\ output' = [c \in Builders |-> output'[c]]
      /\ \A c \in Builders : c # b => output'[c] = output[c]
  BY DEF BuilderIInv, Shapes
<1>10. /\ lock' = IF v.at \in Guarding THEN b ELSE IF lock = b THEN None ELSE lock
       /\ v.at \in Guarding => lock \in {None, b}
  BY <1>2, <1>4
<1>11. QED
  BY <1>3, <1>5, <1>6, <1>7, <1>8, <1>9, <1>10, Turn

LEMMA KeyStepsKeepIt ==
    ASSUME BuilderIInv, NEW b \in Builders, EnsureKey(b) \/ WriteKey(b) \/ ReadKey(b)
    PROVE  BuilderIInv'
<1>1. UNCHANGED <<contextVars, busy, lock, output, robbed>>
      /\ builder[b].at \in {"key", "write key", "read key"}
  BY DEF EnsureKey, WriteKey, ReadKey, Is
<1>2. keyfile \in Builders \cup {None, "empty"}
  BY DEF BuilderIInv, Shapes
<1>3. CASE EnsureKey(b)
  <2>1. CASE keyfile = None
    <3>1. Becomes(b, Placed(builder[b], "write key")) /\ keyfile' = "empty"
      BY <1>3, <2>1 DEF EnsureKey, Goes, Placed, None
    <3>2. PICK v : v = Placed(builder[b], "write key")
      OBVIOUS
    <3>3. QED
      BY <1>1, <2>1, <3>1, <3>2, BeforeTheKey
  <2>2. CASE keyfile = "empty"
    <3>1. Becomes(b, Builder("idle")) /\ UNCHANGED keyfile
      BY <1>3, <2>2 DEF EnsureKey, None
    <3>2. QED
      BY <1>1, <3>1, BeforeTheKey
  <2>3. CASE keyfile \notin {None, "empty"}
    <3>1. Becomes(b, Placed(builder[b], "read key")) /\ UNCHANGED keyfile
      BY <1>3, <2>3 DEF EnsureKey, Goes, Placed
    <3>2. PICK v : v = Placed(builder[b], "read key")
      OBVIOUS
    <3>3. QED
      BY <1>1, <3>1, <3>2, BeforeTheKey
  <2>4. QED
    BY <2>1, <2>2, <2>3
<1>4. CASE WriteKey(b)
  <2>1. Becomes(b, Placed(builder[b], "read key"))
    BY <1>4 DEF WriteKey, Goes, Placed
  <2>2. \/ UNCHANGED keyfile
        \/ keyfile \in {None, "empty"} /\ keyfile' \in Builders \cup {None, "empty"}
    BY <1>4 DEF WriteKey
  <2>3. PICK v : v = Placed(builder[b], "read key")
    OBVIOUS
  <2>4. QED
    BY <1>1, <2>1, <2>2, <2>3, BeforeTheKey
<1>5. CASE ReadKey(b)
  <2>1. CASE keyfile \in {None, "empty"}
    <3>1. Becomes(b, Builder("idle")) /\ UNCHANGED keyfile
      BY <1>5, <2>1 DEF ReadKey
    <3>2. QED
      BY <1>1, <3>1, BeforeTheKey
  <2>2. CASE keyfile \notin {None, "empty"}
    <3>1. Becomes(b, WithKey(builder[b], "guard", keyfile)) /\ UNCHANGED keyfile
      BY <1>5, <2>2 DEF ReadKey, WithKey
    <3>2. PICK v : v = WithKey(builder[b], "guard", keyfile)
      OBVIOUS
    <3>3. keyfile \in Builders
      BY <1>2, <2>2
    <3>4. QED
      BY <1>1, <3>1, <3>2, <3>3, BeforeTheKey
  <2>3. QED
    BY <2>1, <2>2
<1>6. QED
  BY <1>3, <1>4, <1>5

-----------------------------------------------------------------------------
(***************************************************************************)
(* The snapshot.                                                           *)
(***************************************************************************)
LEMMA GuardKeepsIt ==
    ASSUME BuilderIInv, NEW b \in Builders, Guard(b)
    PROVE  BuilderIInv'
<1>1. PICK u, v : u = builder[b] /\ v = Placed(u, "first") /\ Becomes(b, v)
  BY DEF Guard, Goes, Placed
<1>2. /\ Shaped(u) /\ u.read \in Nat /\ u.at = "guard"
      /\ SoundKey(b, u) /\ SoundOutput(b, u) /\ SoundSnap(u)
  BY <1>1, BuilderIs DEF Guard, Is
<1>3. /\ Shaped(v) /\ v.at = "first" /\ v.key = u.key /\ v.read = u.read
      /\ v.staged = u.staged /\ v.created = u.created
  BY <1>1, <1>2, PlaceSet
<1>4. lock = None /\ lock' = b /\ UNCHANGED <<contextVars, busy, keyfile, output, robbed>>
  BY DEF Guard
<1>5. SoundKey(b, v)' /\ OthersKeep(b)
  BY <1>2, <1>3, <1>4 DEF SoundKey, Keyed, OthersKeep
<1>6. SoundOutput(b, v)'
  BY <1>2, <1>3, <1>4 DEF SoundOutput, Unpublished
<1>7. SoundSnap(v)
  BY <1>2, <1>3 DEF SoundSnap, Fresh, Taken
<1>8. "first" \in Guarding
  BY DEF Guarding
<1>9. /\ keyfile' \in Builders \cup {None, "empty"}
      /\ output' = [c \in Builders |-> output'[c]]
      /\ \A c \in Builders : c # b => output'[c] = output[c]
  BY <1>4 DEF BuilderIInv, Shapes
<1>10. QED
  BY <1>1, <1>2, <1>3, <1>4, <1>5, <1>6, <1>7, <1>8, <1>9, Turn

\* The moment is taken.
LEMMA MomentIsSound ==
    ASSUME BuilderIInv, NEW u, NEW v, SoundSnap(u), u.at = "first",
           v.at = "copy", v.read = 0, v.moment = Root, v.staged = u.staged
    PROVE  SoundSnap(v)
<1>1. v.staged = NoTree /\ DOMAIN v.staged = {}
  BY DEF SoundSnap, Fresh, NoTree
<1>2. {Copied[k] : k \in 1..v.read} = {}
  OBVIOUS
<1>3. v.moment = [i \in Range(Copied) |-> Content(i)]
  BY DEF Root
<1>4. \A i \in Range(Copied) : v.moment[i] = Content(i)
  BY <1>3
<1>5. v.moment = [i \in Range(Copied) |-> v.moment[i]]
  BY <1>3
<1>6. Range(Fingerprinted) \subseteq Range(Copied) /\ Database \in Range(Copied)
  BY Visited
<1>7. QED
  BY <1>1, <1>2, <1>4, <1>5, <1>6 DEF SoundSnap, Fresh, Taken

LEMMA FirstPassKeepsIt ==
    ASSUME BuilderIInv, NEW b \in Builders, FirstPass(b)
    PROVE  BuilderIInv'
<1>1. PICK u : u = builder[b]
  OBVIOUS
<1>2. /\ Shaped(u) /\ u.read \in Nat /\ u.at = "first"
      /\ SoundKey(b, u) /\ SoundOutput(b, u) /\ SoundSnap(u)
      /\ UNCHANGED <<contextVars, busy, lock, keyfile, output, robbed>>
  BY <1>1, BuilderIs DEF FirstPass, Is
<1>3. "first" \in Guarding /\ "copy" \in Guarding
  BY DEF Guarding
<1>4. CASE u.read + 1 < Len(Fingerprinted)
  <2>1. PICK v : v = Reading(u, u.read + 1) /\ Becomes(b, v)
    BY <1>1, <1>4 DEF FirstPass, Reading
  <2>2. /\ Shaped(v) /\ v.at = "first" /\ v.key = u.key /\ v.read = u.read + 1
        /\ v.staged = u.staged /\ v.created = u.created
    BY <1>2, <2>1, ReadSet
  <2>3. SoundKey(b, v) /\ SoundOutput(b, v) /\ SoundSnap(v)
    BY <1>2, <2>2 DEF SoundKey, SoundOutput, SoundSnap, Taken
  <2>4. v.read \in Nat
    BY <1>2, <2>2
  <2>5. QED
    BY <1>1, <1>2, <2>1, <2>2, <2>3, <2>4, QuietTurn
<1>5. CASE ~(u.read + 1 < Len(Fingerprinted))
  <2>1. PICK v : v = WithMoment(u, "copy", 0, Root) /\ Becomes(b, v)
    BY <1>1, <1>5 DEF FirstPass, WithMoment
  <2>2. PICK m : m = Root
    OBVIOUS
  <2>3. v = WithMoment(u, "copy", 0, m)
    BY <2>1, <2>2
  <2>4. /\ Shaped(v) /\ v.at = "copy" /\ v.key = u.key /\ v.read = 0
        /\ v.moment = m /\ v.staged = u.staged /\ v.created = u.created
    BY <1>2, <2>3, WithMomentSet
  <2>5. SoundSnap(v)
    BY <1>2, <2>2, <2>4, MomentIsSound
  <2>6. SoundKey(b, v) /\ SoundOutput(b, v)
    BY <1>2, <2>4 DEF SoundKey, Keyed, SoundOutput, Unpublished
  <2>7. QED
    BY <1>1, <1>2, <1>3, <2>1, <2>4, <2>5, <2>6, QuietTurn
<1>6. QED
  BY <1>4, <1>5

\* One more file is copied.
LEMMA CopyIsSound ==
    ASSUME BuilderIInv, NEW u, NEW v, SoundSnap(u), u.at = "copy", u.read \in Nat,
           NEW n, n = u.read + 1, NEW i, i = Copied[n],
           v.at = IF n = Len(Copied) THEN "check" ELSE "copy",
           v.read = IF n = Len(Copied) THEN 0 ELSE n,
           v.touched = u.touched, v.moment = u.moment,
           v.staged = [k \in DOMAIN u.staged \cup {i} |-> IF k = i THEN Content(i) ELSE u.staged[k]]
    PROVE  SoundSnap(v)
<1>1. /\ u.moment = [k \in Range(Copied) |-> u.moment[k]]
      /\ Content(Database) = u.moment[Database]
      /\ \A k \in Range(Copied) \cap DOMAIN u.staged :
            k = Database \/ k \notin u.touched => u.staged[k] = u.moment[k]
      /\ \A k \in Range(Fingerprinted) : k \notin u.touched => Content(k) = u.moment[k]
      /\ DOMAIN u.staged = {Copied[k] : k \in 1..u.read}
  BY DEF SoundSnap, Taken
<1>2. DOMAIN v.staged = DOMAIN u.staged \cup {i}
  OBVIOUS
<1>3. DOMAIN v.staged = {Copied[k] : k \in 1..n}
  <2>1. 1..n = 1..u.read \cup {n}
    OBVIOUS
  <2>2. QED
    BY <1>1, <1>2, <2>1
<1>4. ASSUME NEW k \in Range(Copied), k \in DOMAIN v.staged, k = Database \/ k \notin v.touched
      PROVE  v.staged[k] = v.moment[k]
  <2>1. k = Database \/ k \in Range(Fingerprinted)
    BY Visited
  <2>2. Content(k) = u.moment[k]
    BY <1>1, <1>4, <2>1
  <2>3. CASE k = i
    BY <1>2, <2>2, <2>3
  <2>4. CASE k # i
    <3>1. k \in DOMAIN u.staged
      BY <1>2, <1>4, <2>4
    <3>2. v.staged[k] = u.staged[k]
      BY <2>4, <3>1
    <3>3. QED
      BY <1>1, <1>4, <3>1, <3>2
  <2>5. QED
    BY <2>3, <2>4
<1>5. v.moment = [k \in Range(Copied) |-> v.moment[k]]
  BY <1>1
<1>6. v.staged = [k \in DOMAIN v.staged |-> v.staged[k]]
  OBVIOUS
<1>7. CASE n = Len(Copied)
  <2>1. v.at = "check" /\ v.read = 0
    BY <1>7
  <2>2. DOMAIN v.staged = Range(Copied)
    BY <1>3, <1>7, Visited DEF Range
  <2>3. v.staged = [k \in Range(Copied) |-> v.staged[k]]
    BY <1>6, <2>2
  <2>4. /\ v.at \notin Fresh /\ v.at \notin {"copy", "second", "pack", "publish", "write", "done"}
    BY <2>1 DEF Fresh
  <2>5. \A k \in Range(Fingerprinted) : k \notin v.touched => Content(k) = v.moment[k]
    BY <1>1
  <2>6. Content(Database) = v.moment[Database]
    BY <1>1
  <2>7. \A k \in Range(Copied) \cap DOMAIN v.staged :
            k = Database \/ k \notin v.touched => v.staged[k] = v.moment[k]
    BY <1>4
  <2> HIDE DEF Database
  <2>8. QED
    BY ONLY <1>5, <2>1, <2>3, <2>4, <2>5, <2>6, <2>7 DEF SoundSnap
<1>8. CASE n # Len(Copied)
  <2>1. v.at = "copy" /\ v.read = n
    BY <1>8
  <2>2. QED
    BY <1>1, <1>3, <1>4, <1>5, <2>1 DEF SoundSnap, Fresh, Taken
<1>9. QED
  BY <1>7, <1>8

LEMMA CopyKeepsIt ==
    ASSUME BuilderIInv, NEW b \in Builders, Copy(b)
    PROVE  BuilderIInv'
<1>1. PICK u : u = builder[b]
  OBVIOUS
<1>2. /\ Shaped(u) /\ u.read \in Nat /\ u.at = "copy"
      /\ SoundKey(b, u) /\ SoundOutput(b, u) /\ SoundSnap(u)
      /\ UNCHANGED <<contextVars, busy, lock, keyfile, output, robbed>>
  BY <1>1, BuilderIs DEF Copy, Is
<1>3. PICK n \in Nat : n = u.read + 1
  BY <1>2
<1>4. PICK i : i = Copied[n]
  OBVIOUS
<1>5. PICK m : m = [k \in DOMAIN u.staged \cup {i} |-> IF k = i THEN Content(i) ELSE u.staged[k]]
  OBVIOUS
<1>6. PICK x, r : /\ x = (IF n = Len(Copied) THEN "check" ELSE "copy")
                  /\ r = (IF n = Len(Copied) THEN 0 ELSE n)
  OBVIOUS
<1>7. PICK v : v = WithStaged(u, x, r, m)
  OBVIOUS
<1>8. Becomes(b, v)
  BY <1>1, <1>3, <1>4, <1>5, <1>6, <1>7 DEF Copy, WithStaged
<1>9. /\ Shaped(v) /\ v.at = x /\ v.key = u.key /\ v.read = r /\ v.touched = u.touched
      /\ v.moment = u.moment /\ v.staged = m /\ v.created = u.created
  BY ONLY <1>2, <1>7, WithStagedSet
<1>10. SoundSnap(v)
  BY <1>2, <1>3, <1>4, <1>5, <1>6, <1>9, CopyIsSound
<1>11. x \in {"check", "copy"} /\ r \in Nat
  BY <1>6
<1>12. v.at \in Guarding /\ u.at \in Guarding /\ v.read \in Nat
  BY <1>2, <1>9, <1>11 DEF Guarding
<1>13. SoundKey(b, v) /\ SoundOutput(b, v)
  BY <1>2, <1>9, <1>11 DEF SoundKey, Keyed, SoundOutput, Unpublished
<1>14. QED
  BY <1>1, <1>2, <1>8, <1>9, <1>10, <1>12, <1>13, QuietTurn

LEMMA CheckStageKeepsIt ==
    ASSUME BuilderIInv, NEW b \in Builders, Check(b)
    PROVE  BuilderIInv'
<1>1. PICK u, v : u = builder[b] /\ v = Placed(u, "second") /\ Becomes(b, v)
  BY DEF Check, Goes, Placed
<1>2. /\ Shaped(u) /\ u.read \in Nat /\ u.at = "check"
      /\ SoundKey(b, u) /\ SoundOutput(b, u) /\ SoundSnap(u)
      /\ UNCHANGED <<contextVars, busy, lock, keyfile, output, robbed>>
  BY <1>1, BuilderIs DEF Check, Is
<1>3. /\ Shaped(v) /\ v.at = "second" /\ v.key = u.key /\ v.read = u.read /\ v.touched = u.touched
      /\ v.moment = u.moment /\ v.staged = u.staged /\ v.created = u.created
  BY <1>1, <1>2, PlaceSet
<1>4. v.read = 0
  BY <1>2, <1>3 DEF SoundSnap
<1>5. SoundSnap(v)
  <2>1. /\ u.moment = [i \in Range(Copied) |-> u.moment[i]]
        /\ Content(Database) = u.moment[Database]
        /\ \A i \in Range(Copied) \cap DOMAIN u.staged :
              i = Database \/ i \notin u.touched => u.staged[i] = u.moment[i]
        /\ u.staged = [i \in Range(Copied) |-> u.staged[i]]
    BY <1>2 DEF SoundSnap, Taken
  <2>2. \A k \in 1..v.read : FALSE
    BY <1>4
  <2>3. v.at \notin Fresh /\ v.at \notin {"copy", "check", "pack", "publish", "write", "done"}
    BY <1>3 DEF Fresh
  <2>4. QED
    BY <1>3, <2>1, <2>2, <2>3 DEF SoundSnap
<1>6. SoundKey(b, v) /\ SoundOutput(b, v)
  BY <1>2, <1>3 DEF SoundKey, Keyed, SoundOutput, Unpublished
<1>7. v.at \in Guarding /\ u.at \in Guarding
  BY <1>2, <1>3 DEF Guarding
<1>8. v.read \in Nat
  BY <1>4
<1>9. QED
  BY <1>1, <1>2, <1>3, <1>5, <1>6, <1>7, <1>8, QuietTurn

\* The second pass compares what the copy has against what the first has seen.
LEMMA SecondPassKeepsIt ==
    ASSUME BuilderIInv, NEW b \in Builders, SecondPass(b)
    PROVE  BuilderIInv'
<1>1. PICK u : u = builder[b]
  OBVIOUS
<1>2. /\ Shaped(u) /\ u.read \in Nat /\ u.at = "second" /\ lock = b
      /\ SoundKey(b, u) /\ SoundOutput(b, u) /\ SoundSnap(u)
      /\ UNCHANGED <<contextVars, busy, keyfile, output, robbed>>
  BY <1>1, BuilderIs DEF SecondPass, Is, Guarding
<1>3. PICK n \in Nat : n = u.read + 1
  BY <1>2
<1>4. /\ u.moment = [i \in Range(Copied) |-> u.moment[i]]
      /\ Content(Database) = u.moment[Database]
      /\ \A i \in Range(Copied) \cap DOMAIN u.staged :
            i = Database \/ i \notin u.touched => u.staged[i] = u.moment[i]
      /\ u.staged = [i \in Range(Copied) |-> u.staged[i]]
      /\ \A k \in 1..u.read : k \in 1..Len(Fingerprinted)
                              => u.staged[Fingerprinted[k]] = u.moment[Fingerprinted[k]]
  BY <1>2 DEF SoundSnap, Taken
<1>5. DOMAIN u.staged = Range(Copied)
  BY <1>4
<1>6. Fingerprinted[n] \notin u.touched
  BY <1>1, <1>3 DEF SecondPass, Untouched
<1>7. ASSUME NEW k \in 1..n, k \in 1..Len(Fingerprinted)
      PROVE  u.staged[Fingerprinted[k]] = u.moment[Fingerprinted[k]]
  <2>1. CASE k = n
    <3>1. Fingerprinted[k] \in Range(Copied)
      BY <1>7, Visited DEF Range
    <3>2. QED
      BY <2>1, <3>1, <1>4, <1>5, <1>6
  <2>2. CASE k # n
    <3>1. k \in 1..u.read
      BY <1>2, <1>3, <2>2
    <3>2. QED
      BY <3>1, <1>4, <1>7
  <2>3. QED
    BY <2>1, <2>2
<1>8. CASE n < Len(Fingerprinted)
  <2>1. PICK v : v = Reading(u, n) /\ Becomes(b, v)
    BY <1>1, <1>3, <1>8 DEF SecondPass, Reading
  <2>2. UNCHANGED lock
    BY <1>1, <1>3, <1>8 DEF SecondPass
  <2>3. /\ Shaped(v) /\ v.at = "second" /\ v.key = u.key /\ v.read = n /\ v.touched = u.touched
        /\ v.moment = u.moment /\ v.staged = u.staged /\ v.created = u.created
    BY <1>2, <2>1, ReadSet
  <2>4. SoundSnap(v)
    <3>1. v.at \notin Fresh /\ v.at \notin {"copy", "check", "pack", "publish", "write", "done"}
      BY <2>3 DEF Fresh
    <3>2. QED
      BY <1>4, <1>7, <2>3, <3>1 DEF SoundSnap
  <2>5. SoundKey(b, v) /\ SoundOutput(b, v)
    BY <1>2, <2>3 DEF SoundKey, SoundOutput
  <2>6. v.read \in Nat
    BY <2>3
  <2>7. QED
    BY <1>1, <1>2, <2>1, <2>2, <2>3, <2>4, <2>5, <2>6, QuietTurn
<1>9. CASE ~(n < Len(Fingerprinted))
  <2>1. PICK v : v = WithTouched(u, "pack", 0, {}) /\ Becomes(b, v)
    BY <1>1, <1>3, <1>9 DEF SecondPass, WithTouched
  <2>2. lock' = None
    BY <1>1, <1>3, <1>9 DEF SecondPass
  <2>3. v = WithTouched(u, "pack", 0, {})
    BY <2>1
  <2>4. /\ Shaped(v) /\ v.at = "pack" /\ v.key = u.key /\ v.read = 0
        /\ v.moment = u.moment /\ v.staged = u.staged /\ v.created = u.created
    BY ONLY <1>2, <2>3, WithTouchedSet
  <2>5. ASSUME NEW i \in Range(Copied)
        PROVE  u.staged[i] = u.moment[i]
    <3>1. CASE i = Database
      BY <1>4, <1>5, <3>1
    <3>2. CASE i \in Range(Fingerprinted)
      <4>1. PICK k \in 1..Len(Fingerprinted) : i = Fingerprinted[k]
        BY <3>2, Visited DEF Range
      <4>2. k \in 1..n
        BY <1>9, Visited
      <4>3. QED
        BY <4>1, <4>2, <1>7
    <3>3. QED
      BY <3>1, <3>2, Visited
  <2>6. u.staged = u.moment
    BY <1>4, <2>5
  <2>7. SoundSnap(v)
    BY <2>4, <2>6 DEF SoundSnap, Fresh, Taken
  <2>8. SoundKey(b, v)' /\ OthersKeep(b)
    BY <1>2, <2>4 DEF SoundKey, Keyed, OthersKeep
  <2>9. SoundOutput(b, v)'
    BY <1>2, <2>4 DEF SoundOutput, Unpublished
  <2>10. v.at \notin Guarding
    BY <2>4 DEF Guarding
  <2>11. /\ keyfile' \in Builders \cup {None, "empty"}
         /\ output' = [c \in Builders |-> output'[c]]
         /\ \A c \in Builders : c # b => output'[c] = output[c]
    BY <1>2 DEF BuilderIInv, Shapes
  <2>12. v.read \in Nat
    BY <2>4
  <2>13. QED
    BY <1>2, <2>1, <2>2, <2>4, <2>7, <2>8, <2>9, <2>10, <2>11, <2>12, Turn
<1>10. QED
  BY <1>8, <1>9

-----------------------------------------------------------------------------
(***************************************************************************)
(* Publication.                                                            *)
(***************************************************************************)
LEMMA PrefixesGrow ==
    /\ Prefix(0) = {}
    /\ \A k \in 0..5 : /\ Prefix(k + 1) = Prefix(k) \cup {Artifacts[k + 1]}
                       /\ Artifacts[k + 1] \notin Prefix(k)
                       /\ Artifacts[k + 1] \in Moved <=> k \in 0..2
    /\ Len(Artifacts) = 6
<1>1. /\ Artifacts[1] = "package" /\ Artifacts[2] = "secret transfer" /\ Artifacts[3] = "emergency"
      /\ Artifacts[4] = "tar" /\ Artifacts[5] = "sidecars" /\ Artifacts[6] = "attestation"
      /\ Len(Artifacts) = 6
  BY DEF Artifacts
<1>2. Prefix(0) = {}
  BY DEF Prefix
<1>3. ASSUME NEW k \in 0..5
      PROVE  Prefix(k + 1) = Prefix(k) \cup {Artifacts[k + 1]}
  <2>1. 1..(k + 1) = 1..k \cup {k + 1}
    OBVIOUS
  <2>2. QED
    BY <2>1 DEF Prefix
<1>4. \A i, j \in 1..6 : i # j => Artifacts[i] # Artifacts[j]
  <2>1. \A i \in 1..6 : i = 1 \/ i = 2 \/ i = 3 \/ i = 4 \/ i = 5 \/ i = 6
    OBVIOUS
  <2>2. QED
    BY <1>1, <2>1
<1>5. ASSUME NEW k \in 0..5
      PROVE  Artifacts[k + 1] \notin Prefix(k)
  BY <1>4 DEF Prefix
<1>6. ASSUME NEW k \in 0..5
      PROVE  Artifacts[k + 1] \in Moved <=> k \in 0..2
  <2>1. k = 0 \/ k = 1 \/ k = 2 \/ k = 3 \/ k = 4 \/ k = 5
    OBVIOUS
  <2>2. /\ Artifacts[1] \in Moved /\ Artifacts[2] \in Moved /\ Artifacts[3] \in Moved
        /\ Artifacts[4] \notin Moved /\ Artifacts[5] \notin Moved /\ Artifacts[6] \notin Moved
    BY <1>1 DEF Moved
  <2>3. CASE k \in 0..2
    <3>1. k = 0 \/ k = 1 \/ k = 2
      BY <2>3
    <3>2. QED
      BY <2>2, <3>1
  <2>4. CASE k \notin 0..2
    <3>1. k = 3 \/ k = 4 \/ k = 5
      BY <2>1, <2>4
    <3>2. QED
      BY <2>2, <2>4, <3>1
  <2>5. QED
    BY <2>3, <2>4
<1>7. QED
  BY <1>1, <1>2, <1>3, <1>5, <1>6

LEMMA PrefixesCount ==
    \A k \in 0..6 : IsFiniteSet(Prefix(k)) /\ Cardinality(Prefix(k)) = k
<1> DEFINE P(k) == IsFiniteSet(Prefix(k)) /\ Cardinality(Prefix(k)) = k
<1>1. P(0)
  BY PrefixesGrow, FS_EmptySet
<1>2. ASSUME NEW k \in 0..5, P(k)
      PROVE  P(k + 1)
  <2>1. Prefix(k + 1) = Prefix(k) \cup {Artifacts[k + 1]} /\ Artifacts[k + 1] \notin Prefix(k)
    BY PrefixesGrow
  <2>2. QED
    BY <1>2, <2>1, FS_AddElement
<1>3. P(1)
  BY <1>1, <1>2
<1>4. P(2)
  BY <1>2, <1>3
<1>5. P(3)
  BY <1>2, <1>4
<1>6. P(4)
  BY <1>2, <1>5
<1>7. P(5)
  BY <1>2, <1>6
<1>8. P(6)
  BY <1>2, <1>7
<1>9. ASSUME NEW k \in 0..6
      PROVE  P(k)
  <2>1. k = 0 \/ k = 1 \/ k = 2 \/ k = 3 \/ k = 4 \/ k = 5 \/ k = 6
    OBVIOUS
  <2> HIDE DEF P
  <2>2. QED
    BY <2>1, <1>1, <1>3, <1>4, <1>5, <1>6, <1>7, <1>8
<1>10. QED
  BY <1>9

LEMMA PackKeepsIt ==
    ASSUME BuilderIInv, NEW b \in Builders, Pack(b)
    PROVE  BuilderIInv'
<1>1. PICK u, v : u = builder[b] /\ v = Placed(u, "publish") /\ Becomes(b, v)
  BY DEF Pack, Goes, Placed
<1>2. /\ Shaped(u) /\ u.read \in Nat /\ u.at = "pack"
      /\ SoundKey(b, u) /\ SoundOutput(b, u) /\ SoundSnap(u)
      /\ UNCHANGED <<contextVars, busy, lock, keyfile, output, robbed>>
  BY <1>1, BuilderIs DEF Pack, Is
<1>3. /\ Shaped(v) /\ v.at = "publish" /\ v.key = u.key /\ v.read = u.read
      /\ v.moment = u.moment /\ v.staged = u.staged /\ v.created = u.created
  BY <1>1, <1>2, PlaceSet
<1>4. SoundKey(b, v)
  BY <1>1, <1>2, <1>3 DEF Pack, HasKey, SoundKey, Keyed
<1>5. SoundOutput(b, v)
  <2>1. output[b] = Prefix(0) /\ v.created = Prefix(0)
    BY <1>2, <1>3, PrefixesGrow DEF SoundOutput, Unpublished
  <2>2. QED
    BY <1>3, <2>1 DEF SoundOutput, Unpublished
<1>6. SoundSnap(v)
  BY <1>2, <1>3 DEF SoundSnap, Fresh, Taken
<1>7. v.at \in Guarding <=> u.at \in Guarding
  BY <1>2, <1>3 DEF Guarding
<1>8. QED
  BY <1>1, <1>2, <1>3, <1>4, <1>5, <1>6, <1>7, QuietTurn

\* The next artifact is counted as created.
LEMMA CreatedIs ==
    ASSUME NEW b \in Builders, NEW u, u = builder[b], NEW k \in 0..5, u.created = Prefix(k),
           NEW a, a = Artifacts[k + 1], Created(b, a)
    PROVE  \E v : /\ v = WithCreated(u, IF k = 5 THEN "done" ELSE "publish", Prefix(k + 1))
                  /\ Becomes(b, v)
<1>1. u.created \cup {a} = Prefix(k + 1)
  BY PrefixesGrow
<1>2. Cardinality(Prefix(k + 1)) = k + 1 /\ Len(Artifacts) = 6
  BY PrefixesCount, PrefixesGrow
<1>3. (Cardinality(u.created \cup {a}) = Len(Artifacts)) <=> k = 5
  BY <1>1, <1>2
<1>4. CASE k = 5
  <2>1. Becomes(b, [u EXCEPT !.at = "done", !.created = Prefix(k + 1)])
    BY <1>1, <1>3, <1>4 DEF Created
  <2>2. QED
    BY <1>4, <2>1 DEF WithCreated
<1>5. CASE k # 5
  <2>1. Becomes(b, [u EXCEPT !.at = "publish", !.created = Prefix(k + 1)])
    BY <1>1, <1>3, <1>5 DEF Created
  <2>2. QED
    BY <1>5, <2>1 DEF WithCreated
<1>6. QED
  BY <1>4, <1>5

LEMMA NextIs ==
    ASSUME NEW b \in Builders, NEW k \in 0..5, builder[b].created = Prefix(k)
    PROVE  NextArtifact(b) = Artifacts[k + 1]
BY PrefixesCount DEF NextArtifact

\* One more artifact is there.
LEMMA PublishedKeepsIt ==
    ASSUME BuilderIInv, NEW b \in Builders, builder[b].at \in {"publish", "write"},
           NEW k \in 0..5, builder[b].created = Prefix(k),
           Created(b, Artifacts[k + 1]),
           UNCHANGED <<contextVars, busy, lock, keyfile, robbed>>,
           output' = [output EXCEPT ![b] = Prefix(k + 1)]
    PROVE  BuilderIInv'
<1>1. PICK u : u = builder[b]
  OBVIOUS
<1>2. /\ Shaped(u) /\ u.read \in Nat /\ lock # b
      /\ SoundKey(b, u) /\ SoundOutput(b, u) /\ SoundSnap(u)
  BY <1>1, BuilderIs DEF Guarding
<1>3. PICK x, s, v :
          /\ x = (IF k = 5 THEN "done" ELSE "publish") /\ s = Prefix(k + 1)
          /\ v = WithCreated(u, x, s) /\ Becomes(b, v)
  <2>1. PICK x, s : x = (IF k = 5 THEN "done" ELSE "publish") /\ s = Prefix(k + 1)
    OBVIOUS
  <2>2. PICK v : v = WithCreated(u, x, s) /\ Becomes(b, v)
    BY <1>1, <2>1, CreatedIs
  <2>3. QED
    BY <2>1, <2>2
<1>4. v = WithCreated(u, x, s)
  BY <1>3
<1>5. /\ Shaped(v) /\ v.at = x /\ v.key = u.key /\ v.read = u.read
      /\ v.moment = u.moment /\ v.staged = u.staged /\ v.created = s
  BY ONLY <1>2, <1>4, WithCreatedSet
<1>6. output'[b] = Prefix(k + 1) /\ output' = [c \in Builders |-> output'[c]]
      /\ \A c \in Builders : c # b => output'[c] = output[c]
  BY DEF BuilderIInv, Shapes
<1>7. SoundKey(b, v)' /\ OthersKeep(b)
  BY <1>1, <1>2, <1>3, <1>5 DEF SoundKey, Keyed, OthersKeep
<1>8. SoundOutput(b, v)'
  <2>1. CASE x = "publish"
    <3>1. k + 1 \in 0..5
      BY <1>3, <2>1
    <3>2. v.created = Prefix(k + 1) /\ output'[b] = Prefix(k + 1) /\ v.at = "publish"
      BY <1>3, <1>5, <1>6, <2>1
    <3>3. QED
      BY <3>1, <3>2 DEF SoundOutput, Unpublished
  <2>2. CASE x = "done"
    BY <2>2, <1>5 DEF SoundOutput, Unpublished
  <2>3. QED
    BY <2>1, <2>2, <1>3
<1>9. SoundSnap(v)
  BY <1>1, <1>2, <1>3, <1>5 DEF SoundSnap, Fresh, Taken
<1>10. v.at \notin Guarding
  BY <1>3, <1>5 DEF Guarding
<1>11. v.read \in Nat /\ keyfile' \in Builders \cup {None, "empty"}
  BY <1>2, <1>5 DEF BuilderIInv, Shapes
<1>12. lock' = IF v.at \in Guarding THEN b ELSE IF lock = b THEN None ELSE lock
  BY <1>2, <1>10
<1>13. QED
  BY <1>3, <1>5, <1>6, <1>7, <1>8, <1>9, <1>10, <1>11, <1>12, Turn

LEMMA PublishKeepsIt ==
    ASSUME BuilderIInv, NEW b \in Builders, Publish(b)
    PROVE  BuilderIInv'
<1>1. PICK u : u = builder[b]
  OBVIOUS
<1>2. /\ Shaped(u) /\ u.read \in Nat /\ u.at = "publish" /\ lock # b
      /\ SoundKey(b, u) /\ SoundOutput(b, u) /\ SoundSnap(u)
      /\ UNCHANGED <<contextVars, busy, lock, keyfile, robbed>>
  BY <1>1, BuilderIs DEF Publish, Is, Guarding
<1>3. PICK k \in 0..5 : u.created = Prefix(k) /\ output[b] = Prefix(k)
  BY <1>2 DEF SoundOutput
<1>4. PICK a : a = Artifacts[k + 1]
  OBVIOUS
<1>5. NextArtifact(b) = a
  BY <1>1, <1>3, <1>4, NextIs
<1>6. output' = [output EXCEPT ![b] = Prefix(k + 1)]
  <2>1. output' = [output EXCEPT ![b] = output[b] \cup {a}]
    BY <1>5 DEF Publish
  <2>2. QED
    BY <1>3, <1>4, <2>1, PrefixesGrow
<1>7. CASE a \in Moved
  <2>1. Created(b, a)
    BY <1>5, <1>7 DEF Publish
  <2>2. QED
    BY <1>1, <1>2, <1>3, <1>4, <1>6, <2>1, PublishedKeepsIt
<1>8. CASE a \notin Moved
  <2>1. PICK v : v = Placed(u, "write") /\ Becomes(b, v)
    BY <1>1, <1>5, <1>8 DEF Publish, Goes, Placed
  <2>2. /\ Shaped(v) /\ v.at = "write" /\ v.key = u.key /\ v.read = u.read
        /\ v.moment = u.moment /\ v.staged = u.staged /\ v.created = u.created
    BY <1>2, <2>1, PlaceSet
  <2>3. k \in 3..5
    BY <1>4, <1>8, PrefixesGrow
  <2>4. output'[b] = Prefix(k + 1) /\ output' = [c \in Builders |-> output'[c]]
        /\ \A c \in Builders : c # b => output'[c] = output[c]
    BY <1>6 DEF BuilderIInv, Shapes
  <2>5. SoundOutput(b, v)'
    BY <1>3, <2>2, <2>3, <2>4 DEF SoundOutput, Unpublished
  <2>6. SoundKey(b, v)' /\ OthersKeep(b)
    BY <1>2, <2>2 DEF SoundKey, Keyed, OthersKeep
  <2>7. SoundSnap(v)
    BY <1>2, <2>2 DEF SoundSnap, Fresh, Taken
  <2>8. v.at \notin Guarding /\ v.read \in Nat /\ keyfile' \in Builders \cup {None, "empty"}
    BY <1>2, <2>2 DEF Guarding, BuilderIInv, Shapes
  <2>9. lock' = IF v.at \in Guarding THEN b ELSE IF lock = b THEN None ELSE lock
    BY <1>2, <2>8
  <2>10. QED
    BY <1>2, <2>1, <2>2, <2>4, <2>5, <2>6, <2>7, <2>8, <2>9, Turn
<1>9. QED
  BY <1>7, <1>8

LEMMA WrittenKeepsIt ==
    ASSUME BuilderIInv, NEW b \in Builders, Written(b)
    PROVE  BuilderIInv'
<1>1. /\ builder[b].at = "write" /\ SoundOutput(b, builder[b])
      /\ UNCHANGED <<contextVars, busy, lock, keyfile, output, robbed>>
  BY BuilderIs DEF Written, Is
<1>2. PICK k \in 3..5 : builder[b].created = Prefix(k) /\ output[b] = Prefix(k + 1)
  BY <1>1 DEF SoundOutput
<1>3. k \in 0..5
  OBVIOUS
<1>4. Created(b, Artifacts[k + 1])
  BY <1>2, <1>3, NextIs DEF Written
<1>5. output' = [output EXCEPT ![b] = Prefix(k + 1)]
  BY <1>1, <1>2 DEF BuilderIInv, Shapes
<1>6. QED
  BY <1>1, <1>2, <1>3, <1>4, <1>5, PublishedKeepsIt

-----------------------------------------------------------------------------
(***************************************************************************)
(* Failures.                                                               *)
(***************************************************************************)
LEMMA LeftoverIs ==
    ASSUME NEW b \in Builders, NEW u, u = builder[b], SoundOutput(b, u), u.at \in InTry
    PROVE  Leftover(b) = {} \/ \E k \in 3..5 : Leftover(b) = {Artifacts[k + 1]}
<1>1. CASE u.at \in Unpublished
  BY <1>1 DEF SoundOutput, Leftover
<1>2. CASE u.at = "publish"
  BY <1>2 DEF SoundOutput, Leftover
<1>3. CASE u.at = "write"
  <2>1. PICK k \in 3..5 : u.created = Prefix(k) /\ output[b] = Prefix(k + 1)
    BY <1>3 DEF SoundOutput
  <2>2. k \in 0..5
    OBVIOUS
  <2>3. Prefix(k + 1) \ Prefix(k) = {Artifacts[k + 1]}
    BY <2>2, PrefixesGrow
  <2>4. QED
    BY <2>1, <2>3 DEF Leftover
<1>4. QED
  BY <1>1, <1>2, <1>3 DEF InTry, Unpublished

LEMMA FailKeepsIt ==
    ASSUME BuilderIInv, NEW b \in Builders, Fail(b)
    PROVE  BuilderIInv'
<1>1. PICK u, v : u = builder[b] /\ v = Existing(Builder("failed"), u.existed) /\ Becomes(b, v)
  BY DEF Fail, Existing
<1>2. u.at \in InTry /\ SoundOutput(b, u) /\ UNCHANGED <<contextVars, busy>>
  BY <1>1, BuilderIs DEF Fail
<1>3. PICK r : r = Builder("failed")
  OBVIOUS
<1>4. Shaped(r) /\ r.at = "failed" /\ r.read = 0
  BY ONLY <1>3, NewBuilder
<1>5. v = Existing(r, u.existed)
  BY <1>1, <1>3
<1>6. Shaped(v) /\ v.at = "failed" /\ v.read = 0
  BY ONLY <1>4, <1>5, ExistedSet
<1>7. output' = [output EXCEPT ![b] = Leftover(b)]
      /\ lock' = (IF lock = b THEN None ELSE lock)
      /\ keyfile' = KeyAfter(b) /\ robbed' = (robbed \cup Robbed(b)) \ {b}
  BY DEF Fail
<1>8. keyfile \in Builders \cup {None, "empty"} /\ output = [c \in Builders |-> output[c]]
  BY DEF BuilderIInv, Shapes
<1>9. keyfile' \in Builders \cup {None, "empty"}
  BY <1>7, <1>8 DEF KeyAfter
<1>10. output' = [c \in Builders |-> output'[c]] /\ output'[b] = Leftover(b)
       /\ \A c \in Builders : c # b => output'[c] = output[c]
  BY <1>7, <1>8
<1>11. OthersKeep(b)
  <2>1. SUFFICES ASSUME NEW c \in Builders, c # b, builder[c].key \in Builders,
                        keyfile = builder[c].key \/ c \in robbed
                 PROVE  keyfile' = builder[c].key \/ c \in robbed'
    BY DEF OthersKeep
  <2>2. CASE c \in robbed
    BY <1>7, <2>1, <2>2
  <2>3. CASE keyfile = builder[c].key
    <3>1. CASE builder[b].existed
      BY <1>7, <2>3, <3>1 DEF KeyAfter
    <3>2. CASE ~builder[b].existed
      <4>1. builder[c].key # None
        BY <2>1, MigrationConstantsOK
      <4>2. c \in Robbed(b)
        BY <2>3, <3>2, <4>1 DEF Robbed
      <4>3. QED
        BY <1>7, <2>1, <4>2
    <3>3. QED
      BY <3>1, <3>2
  <2>4. QED
    BY <2>1, <2>2, <2>3
<1>12. SoundKey(b, v)'
  BY <1>6 DEF SoundKey, Keyed
<1>13. SoundOutput(b, v)'
  <2>1. Leftover(b) = {} \/ \E k \in 3..5 : Leftover(b) = {Artifacts[k + 1]}
    BY <1>1, <1>2, LeftoverIs
  <2>2. output'[b] = {} \/ \E k \in 3..5 : output'[b] = {Artifacts[k + 1]}
    BY ONLY <1>10, <2>1
  <2>3. QED
    BY ONLY <1>6, <2>2 DEF SoundOutput, Unpublished
<1>14. SoundSnap(v)
  BY <1>6 DEF SoundSnap, Fresh, Taken
<1>15. v.at \notin Guarding /\ v.read \in Nat
  BY <1>6 DEF Guarding
<1>16. QED
  BY <1>1, <1>2, <1>6, <1>7, <1>9, <1>10, <1>11, <1>12, <1>13, <1>14, <1>15, Turn

\* A builder that is dead, or about to be run again, has nothing more to keep.
LEMMA EndKeepsIt ==
    ASSUME BuilderIInv, NEW b \in Builders, NEW v, Becomes(b, v), Shaped(v), v.read \in Nat,
           \/ v.at = "dead"
           \/ v.at = "idle" /\ builder[b].at = "failed",
           lock' = (IF lock = b THEN None ELSE lock),
           UNCHANGED <<contextVars, busy, keyfile, output, robbed>>
    PROVE  BuilderIInv'
<1>1. v.at \notin Guarding
  BY DEF Guarding
<1>2. SoundKey(b, v)' /\ OthersKeep(b)
  BY DEF SoundKey, Keyed, OthersKeep
<1>3. SoundOutput(b, v)'
  <2>1. SoundOutput(b, builder[b])
    BY BuilderIs
  <2>2. QED
    BY <2>1 DEF SoundOutput, Unpublished
<1>4. SoundSnap(v)
  BY DEF SoundSnap, Fresh, Taken
<1>5. /\ keyfile' \in Builders \cup {None, "empty"}
      /\ output' = [c \in Builders |-> output'[c]]
      /\ \A c \in Builders : c # b => output'[c] = output[c]
  BY DEF BuilderIInv, Shapes
<1>6. QED
  BY <1>1, <1>2, <1>3, <1>4, <1>5, Turn

LEMMA DiesOrAgainKeepsIt ==
    ASSUME BuilderIInv, NEW b \in Builders, Dies(b) \/ Again(b)
    PROVE  BuilderIInv'
<1>1. PICK u : u = builder[b]
  OBVIOUS
<1>2. Shaped(u) /\ u.read \in Nat /\ (lock = b <=> u.at \in Guarding)
  BY <1>1, BuilderIs
<1>3. UNCHANGED <<contextVars, busy, keyfile, output, robbed>>
  BY DEF Dies, Again
<1>4. ASSUME NEW x, NEW v, v = Placed(u, x)
      PROVE  Shaped(v) /\ v.at = x /\ v.read = u.read
  BY ONLY <1>2, <1>4, PlaceSet
<1>5. ASSUME NEW v, v = Builder("dead")
      PROVE  Shaped(v) /\ v.at = "dead" /\ v.read = 0
  BY ONLY <1>5, NewBuilder
<1>6. CASE Dies(b)
  <2>1. lock' = (IF lock = b THEN None ELSE lock)
    BY <1>6 DEF Dies
  <2>2. CASE output[b] = {}
    <3>1. PICK v : v = Builder("dead") /\ Becomes(b, v)
      BY <1>6, <2>2 DEF Dies
    <3>2. Shaped(v) /\ v.at = "dead" /\ v.read \in Nat
      BY <1>5, <3>1
    <3>3. QED
      BY <1>3, <2>1, <3>1, <3>2, EndKeepsIt
  <2>3. CASE output[b] # {}
    <3>1. PICK v : v = Placed(u, "dead") /\ Becomes(b, v)
      BY <1>1, <1>6, <2>3 DEF Dies, Placed
    <3>2. Shaped(v) /\ v.at = "dead" /\ v.read \in Nat
      BY <1>2, <1>4, <3>1
    <3>3. QED
      BY <1>3, <2>1, <3>1, <3>2, EndKeepsIt
  <2>4. QED
    BY <2>2, <2>3
<1>7. CASE Again(b)
  <2>1. u.at = "failed" /\ UNCHANGED lock
    BY <1>1, <1>7 DEF Again, Is
  <2>2. lock' = (IF lock = b THEN None ELSE lock)
    BY <1>2, <2>1 DEF Guarding
  <2>3. PICK v : v = Placed(u, "idle") /\ Becomes(b, v)
    BY <1>1, <1>7 DEF Again, Goes, Placed
  <2>4. Shaped(v) /\ v.at = "idle" /\ v.read \in Nat
    BY <1>2, <1>4, <2>3
  <2>5. QED
    BY <1>1, <1>3, <2>1, <2>2, <2>3, <2>4, EndKeepsIt
<1>8. QED
  BY <1>6, <1>7

LEMMA BuildKeepsIt ==
    ASSUME BuilderIInv, NEW b \in Builders, Build(b)
    PROVE  BuilderIInv'
BY ValidateKeepsIt, KeyStepsKeepIt, GuardKeepsIt, FirstPassKeepsIt, CopyKeepsIt,
   CheckStageKeepsIt, SecondPassKeepsIt, PackKeepsIt, PublishKeepsIt, WrittenKeepsIt,
   FailKeepsIt, DiesOrAgainKeepsIt DEF Build

-----------------------------------------------------------------------------
(***************************************************************************)
(* The root is used meanwhile.                                             *)
(***************************************************************************)
\* A write touches what the fingerprints hold.
LEMMA TouchIsSound ==
    ASSUME BuilderIInv, NEW b \in Builders, Touch, UNCHANGED busy, lock # None => UNCHANGED snapshots,
           NEW u, u = builder[b], NEW v, v = builder'[b]
    PROVE  /\ Shaped(v) /\ v.at = u.at /\ v.key = u.key /\ v.read = u.read
           /\ v.created = u.created
           /\ SoundSnap(v)'
<1>1. Shaped(u) /\ SoundSnap(u) /\ (lock = b <=> u.at \in Guarding)
  BY BuilderIs
<1>2. PICK t : t = u.touched \cup {i \in Held(b) : Content(i)' # Content(i)}
  OBVIOUS
<1>3. v = Touching(u, t)
  BY <1>2 DEF Touch, Touching
<1>4. /\ Shaped(v) /\ v.at = u.at /\ v.key = u.key /\ v.read = u.read /\ v.touched = t
      /\ v.moment = u.moment /\ v.staged = u.staged /\ v.created = u.created
  BY ONLY <1>1, <1>3, TouchedSet
<1>5. u.at \in Taken => Content(Database)' = Content(Database)
  <2>1. u.at \in Taken => lock # None
    BY <1>1, MigrationConstantsOK DEF Taken, Guarding
  <2>2. Content(Database) = [rows |-> snapshots, busy |-> busy]
    BY DEF Content, Database
  <2>3. Content(Database)' = [rows |-> snapshots', busy |-> busy']
    BY DEF Content, Database
  <2>4. QED
    BY <2>1, <2>2, <2>3
<1>6. ASSUME u.at \in {"copy", "check"}, NEW i \in Range(Fingerprinted), i \notin t
      PROVE  Content(i)' = Content(i) /\ i \notin u.touched
  <2>1. Held(b) = Range(Fingerprinted)
    BY <1>6 DEF Held, Is
  <2>2. QED
    BY <1>2, <1>6, <2>1
<1>7. u.touched \subseteq t
  BY <1>2
<1>8. SoundSnap(v)'
  <2>1. v.at \in Taken =>
            /\ v.moment = [i \in Range(Copied) |-> v.moment[i]]
            /\ Content(Database)' = v.moment[Database]
            /\ \A i \in Range(Copied) \cap DOMAIN v.staged :
                  i = Database \/ i \notin v.touched => v.staged[i] = v.moment[i]
    BY <1>1, <1>4, <1>5, <1>7 DEF SoundSnap
  <2>2. v.at \in {"copy", "check"} =>
            \A i \in Range(Fingerprinted) : i \notin v.touched => Content(i)' = v.moment[i]
    BY <1>1, <1>4, <1>6 DEF SoundSnap
  <2>3. QED
    BY <1>1, <1>4, <2>1, <2>2 DEF SoundSnap
<1>9. QED
  BY <1>4, <1>8

LEMMA UseKeepsIt ==
    ASSUME BuilderIInv, Use
    PROVE  BuilderIInv'
<1>1. Touch /\ UNCHANGED <<busy, lock, keyfile, output, robbed>>
  BY DEF Use
<1>2. lock # None => UNCHANGED snapshots
  <2>1. ASSUME NEW j \in Jobs, Submission(j), BindSnapshot(j) => lock = None, lock # None
        PROVE  UNCHANGED snapshots
    BY <2>1 DEF Submission, PutObject, Enqueue, SubmitDies, root
  <2>2. ASSUME NEW w \in Workers, Pick(w) \/ WorkStep(w) \/ WorkerDies(w)
        PROVE  UNCHANGED snapshots
    BY <2>2 DEF Pick, WorkStep, WorkerDies, MarkRunning, Compile, WriteIR, WriteManifest,
       LoadManifest, LoadIR, Settle, root
  <2>3. ASSUME NEW s \in Shells, Command(s)
        PROVE  UNCHANGED snapshots
    BY <2>3 DEF Command, ShellWritesIR, ShellWritesManifest
  <2>4. QED
    BY <2>1, <2>2, <2>3 DEF Use
<1>3. builder' = [b \in Builders |-> builder'[b]]
  BY <1>1 DEF Touch
<1>4. ASSUME NEW b \in Builders
      PROVE  /\ (Shaped(builder[b]) /\ builder[b].read \in Nat)'
             /\ lock' = b <=> builder'[b].at \in Guarding
             /\ (SoundKey(b, builder[b]) /\ SoundOutput(b, builder[b]) /\ SoundSnap(builder[b]))'
  <2>1. PICK u, v : u = builder[b] /\ v = builder'[b]
    OBVIOUS
  <2>2. /\ Shaped(v) /\ v.at = u.at /\ v.key = u.key /\ v.read = u.read
        /\ v.created = u.created
        /\ SoundSnap(v)'
    BY <1>1, <1>2, <2>1, TouchIsSound
  <2>3. /\ u.read \in Nat /\ (lock = b <=> u.at \in Guarding)
        /\ SoundKey(b, u) /\ SoundOutput(b, u)
    BY <2>1, BuilderIs
  <2>4. SoundKey(b, v)' /\ SoundOutput(b, v)'
    BY <1>1, <2>2, <2>3 DEF SoundKey, SoundOutput
  <2>5. QED
    BY <1>1, <2>1, <2>2, <2>3, <2>4 DEF Shaped, SoundKey, SoundOutput, SoundSnap
<1>5. QED
  BY <1>1, <1>3, <1>4 DEF BuilderIInv, Shapes

\* The database's other rows change while nobody holds the lock.
LEMMA WorkKeepsIt ==
    ASSUME BuilderIInv, Work
    PROVE  BuilderIInv'
<1>1. lock = None /\ UNCHANGED <<contextVars, lock, keyfile, builder, output, robbed>>
  BY DEF Work
<1>2. ASSUME NEW b \in Builders
      PROVE  SoundSnap(builder[b])'
  <2>1. SoundSnap(builder[b]) /\ builder[b].at \notin Taken
        /\ builder[b].at \notin {"copy", "check", "second"}
    BY <1>1, BuilderIs, MigrationConstantsOK DEF Guarding, Taken
  <2>2. QED
    BY <1>1, <2>1 DEF SoundSnap
<1>3. QED
  BY <1>1, <1>2 DEF BuilderIInv, Shapes, Shaped, SoundKey, SoundOutput

\* A restorer takes a package and leaves what the builders have alone.
LEMMA RestoreKeepsBuilders ==
    ASSUME BuilderIInv, UNCHANGED <<contextVars, busy, lock, keyfile, builder, output, robbed>>
    PROVE  BuilderIInv'
<1>1. ASSUME NEW i
      PROVE  Content(i)' = Content(i)
  BY DEF Content, contextVars, root
<1>2. ASSUME NEW b \in Builders
      PROVE  /\ SoundKey(b, builder[b])' /\ SoundOutput(b, builder[b])'
             /\ SoundSnap(builder[b])'
  <2>1. SoundKey(b, builder[b]) /\ SoundOutput(b, builder[b]) /\ SoundSnap(builder[b])
    BY BuilderIs
  <2>2. SoundKey(b, builder[b])' /\ SoundOutput(b, builder[b])'
    BY <2>1 DEF SoundKey, SoundOutput
  <2>3. SoundSnap(builder[b])'
    BY <1>1, <2>1 DEF SoundSnap
  <2>4. QED
    BY <2>2, <2>3
<1>3. Shapes'
  BY DEF BuilderIInv, Shapes, Shaped
<1>4. QED
  BY <1>2, <1>3 DEF BuilderIInv

LEMMA BuilderKeepsIt == BuilderIInv /\ [Next]_vars => BuilderIInv'
<1>1. SUFFICES ASSUME BuilderIInv, [Next]_vars
               PROVE  BuilderIInv'
  OBVIOUS
<1>2. CASE \E b \in Builders : Build(b)
  BY <1>1, <1>2, BuildKeepsIt
<1>3. CASE \E r \in Restorers : Restore(r)
  <2>1. UNCHANGED <<contextVars, busy, lock, keyfile, builder, output, robbed>>
    BY <1>3 DEF Restore, Unpack, RelocateDatabase, RelocateJobs, Rename, RestoreEnds
  <2>2. QED
    BY <1>1, <2>1, RestoreKeepsBuilders
<1>4. CASE Use
  BY <1>1, <1>4, UseKeepsIt
<1>5. CASE Work
  BY <1>1, <1>5, WorkKeepsIt
<1>6. CASE UNCHANGED vars
  <2>1. UNCHANGED <<contextVars, busy, lock, keyfile, builder, output, robbed>>
    BY <1>6 DEF vars, migration
  <2>2. QED
    BY <1>1, <2>1, RestoreKeepsBuilders
<1>7. QED
  BY <1>1, <1>2, <1>3, <1>4, <1>5, <1>6 DEF Next

LEMMA BuilderStarts == Init => BuilderIInv
<1>1. SUFFICES ASSUME Init
               PROVE  BuilderIInv
  OBVIOUS
<1>2. PICK u : u = Builder("idle")
  OBVIOUS
<1>3. Shaped(u) /\ u.at = "idle" /\ u.read = 0
  BY ONLY <1>2, NewBuilder
<1>4. \A b \in Builders : builder[b] = u /\ output[b] = {}
  BY <1>1, <1>2 DEF Init
<1>5. Shapes
  <2>1. lock = None /\ keyfile = None
    BY <1>1 DEF Init
  <2>2. builder = [b \in Builders |-> builder[b]] /\ output = [b \in Builders |-> output[b]]
    BY <1>1 DEF Init
  <2>3. ASSUME NEW b \in Builders
        PROVE  Shaped(builder[b]) /\ builder[b].read \in Nat
               /\ (lock = b <=> builder[b].at \in Guarding)
    BY <1>3, <1>4, <2>1, MigrationConstantsOK DEF Guarding
  <2>4. QED
    BY <2>1, <2>2, <2>3 DEF Shapes
<1>6. ASSUME NEW b \in Builders
      PROVE  SoundKey(b, builder[b]) /\ SoundOutput(b, builder[b]) /\ SoundSnap(builder[b])
  <2>1. builder[b].at = "idle" /\ output[b] = {}
    BY <1>3, <1>4
  <2>2. SoundKey(b, builder[b]) /\ SoundOutput(b, builder[b])
    BY <2>1 DEF SoundKey, SoundOutput, Keyed, Unpublished
  <2>3. SoundSnap(builder[b])
    BY <2>1 DEF SoundSnap, Fresh, Taken
  <2>4. QED
    BY <2>2, <2>3
<1>7. QED
  BY <1>5, <1>6 DEF BuilderIInv

\* The inductive invariant of the builds: a builder in the guarded part, and no
\* other, has the database's lock; a build past its key has one; what is in an
\* output is what the build has put there, in order; and what has been copied is
\* what was there at the moment, unless it has been touched since (build).
THEOREM BuilderInvariance == Spec => []BuilderIInv
<1>1. QED
  BY BuilderStarts, BuilderKeepsIt, PTL DEF Spec

\* What is packed is the root as it was at one moment, however the processes that
\* still use it write between the reads (state_snapshot_guard, state_fingerprint).
THEOREM OneMoment == Spec => []SnapshotIsOneMoment
<1>1. BuilderIInv => SnapshotIsOneMoment
  BY BuilderIs DEF SnapshotIsOneMoment, Snapped, SoundSnap
<1>2. QED
  BY <1>1, BuilderInvariance, PTL

\* A finished package's key is there, or a failed build that found none when it
\* began has taken it (ensure_key, the except clause of build).
THEOREM KeyOutlives == Spec => []KeyOutlivesPackage
<1>1. BuilderIInv => KeyOutlivesPackage
  BY BuilderIs DEF KeyOutlivesPackage, Is, SoundKey
<1>2. QED
  BY <1>1, BuilderInvariance, PTL

\* A failed build leaves at most the file it was writing, and nothing that is
\* moved there whole (the except clause of build).
THEOREM LeavesOneFile == Spec => []FailureLeavesOneFile
<1>1. ASSUME BuilderIInv, NEW b \in Builders, builder[b].at \in {"idle", "failed"}
      PROVE  Cardinality(output[b]) <= 1 /\ output[b] \cap Moved = {}
  <2>1. output[b] = {} \/ \E k \in 3..5 : output[b] = {Artifacts[k + 1]}
    BY <1>1, BuilderIs DEF SoundOutput
  <2>2. CASE output[b] = {}
    <3>1. Cardinality(output[b]) = 0
      BY <2>2, FS_EmptySet
    <3>2. QED
      BY <2>2, <3>1
  <2>3. CASE \E k \in 3..5 : output[b] = {Artifacts[k + 1]}
    <3>1. PICK a : a \in {"tar", "sidecars", "attestation"} /\ output[b] = {a}
      <4>1. PICK k \in 3..5 : output[b] = {Artifacts[k + 1]}
        BY <2>3
      <4>2. k = 3 \/ k = 4 \/ k = 5
        OBVIOUS
      <4>3. Artifacts[3 + 1] = "tar" /\ Artifacts[4 + 1] = "sidecars" /\ Artifacts[5 + 1] = "attestation"
        BY DEF Artifacts
      <4>4. QED
        BY <4>1, <4>2, <4>3
    <3>2. Cardinality(output[b]) = 1
      BY <3>1, FS_Singleton
    <3>3. QED
      BY <3>1, <3>2 DEF Moved
  <2>4. QED
    BY <2>1, <2>2, <2>3
<1>2. BuilderIInv => FailureLeavesOneFile
  BY <1>1 DEF FailureLeavesOneFile
<1>3. QED
  BY <1>2, BuilderInvariance, PTL

==============================================================================
