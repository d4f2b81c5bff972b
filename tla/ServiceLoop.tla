---------------------------- MODULE ServiceLoop ----------------------------
(***************************************************************************)
(* "harness supervise": cmd_supervise() of harness2/cli.py around          *)
(* ServiceLoop.run() of harness2/service.py, in several processes, with the*)
(* context queue behind the job cycle.  Recovery and the job cycle work on *)
(* other state (LegacyJobs); here they succeed or raise.  The heartbeat is *)
(* left out: only the status commands read it.  A process lives once.      *)
(***************************************************************************)
EXTENDS ContextJobs

VARIABLES
    service,    \* where each process is in cmd_supervise() and run()
    waiting,    \* processes that hold back from starting Prime
    pidfile,    \* run/service.pid
    saw,        \* what a process that is about to register has read there
    raced       \* (history) two starts or a start and an end have raced

loop == <<service, waiting, pidfile, saw, raced>>
loopVars == <<contextVars, loop>>

-----------------------------------------------------------------------------
At(w, place) == service[w] = place

Going(w, place) == service' = [service EXCEPT ![w] = place]

\* service_process_matches()
Live(w) == w # None /\ ~At(w, "off") /\ ~At(w, "ended")

LoopInit ==
    /\ ContextInit
    /\ service = [w \in Workers |-> "off"]
    /\ waiting = {}
    /\ pidfile = None
    /\ saw = [w \in Workers |-> None]
    /\ raced = FALSE

-----------------------------------------------------------------------------
(***************************************************************************)
(* cmd_supervise(): the pidfile is read, written, and removed by the one   *)
(* it names, in steps that nothing holds together.                         *)
(***************************************************************************)
\* Mutant: the pidfile is written over whatever it says.
CheckPidNothing(w) ==
    /\ At(w, "off")
    /\ Going(w, "checked")
    /\ saw' = [saw EXCEPT ![w] = pidfile]
    /\ UNCHANGED <<contextVars, waiting, pidfile, raced>>

CheckPid(w) ==
    /\ At(w, "off")
    /\ IF Live(pidfile)
       THEN Going(w, "ended") /\ UNCHANGED saw
       ELSE Going(w, "checked") /\ saw' = [saw EXCEPT ![w] = pidfile]
    /\ UNCHANGED <<contextVars, waiting, pidfile, raced>>

Register(w) ==
    /\ At(w, "checked")
    /\ pidfile' = w
    /\ raced' = (raced \/ pidfile # saw[w])
    /\ saw' = [saw EXCEPT ![w] = None]
    /\ Going(w, "prime")
    /\ UNCHANGED <<contextVars, waiting>>

\* SIGTERM is seen at the head of the loop.
Stop(w) ==
    /\ At(w, "prime")
    /\ Going(w, IF pidfile = w THEN "unlink" ELSE "ended")
    /\ UNCHANGED <<contextVars, waiting, pidfile, saw, raced>>

Unlink(w) ==
    /\ At(w, "unlink")
    /\ pidfile' = None
    /\ raced' = (raced \/ pidfile # w)
    /\ Going(w, "ended")
    /\ UNCHANGED <<contextVars, waiting, saw>>

Killed(w) ==
    /\ Live(w)
    /\ Going(w, "ended")
    /\ worker' = [worker EXCEPT ![w] = Idle]
    /\ UNCHANGED <<root, submitter, shell, waiting, pidfile, saw, raced>>

-----------------------------------------------------------------------------
(***************************************************************************)
(* One cycle of run().                                                     *)
(***************************************************************************)
\* The except clause: the cycle ends, and what it had not reached waits.
Degraded(w) == Going(w, "beat")

\* Prime is healthy or left alone, or it is to be started.
CheckPrime(w) ==
    /\ At(w, "prime")
    /\ Going(w, "jobs") \/ (w \notin waiting /\ Going(w, "starting"))
    /\ UNCHANGED <<contextVars, waiting, pidfile, saw, raced>>

\* Mutant: a start that fails ends the cycle.
StartUncaught(w) ==
    /\ At(w, "starting")
    /\ Going(w, "jobs") \/ Degraded(w)
    /\ UNCHANGED <<contextVars, waiting, pidfile, saw, raced>>

\* It starts, or fails to and is left alone for a while.
StartPrime(w) ==
    /\ At(w, "starting")
    /\ Going(w, "jobs")
    /\ waiting' \in {waiting, waiting \cup {w}}
    /\ UNCHANGED <<contextVars, pidfile, saw, raced>>

\* What raises is not the start: the check of the daemon, or the audit of a start
\* that has failed.
PrimeRaises(w) ==
    /\ \/ At(w, "prime") /\ UNCHANGED waiting
       \/ At(w, "starting") /\ waiting' = waiting \cup {w}
    /\ Degraded(w)
    /\ UNCHANGED <<contextVars, pidfile, saw, raced>>

BackoffEnds(w) ==
    /\ w \in waiting
    /\ waiting' = waiting \ {w}
    /\ UNCHANGED <<contextVars, service, pidfile, saw, raced>>

JobCycle(w) ==
    /\ At(w, "jobs")
    /\ Going(w, "context")
    /\ UNCHANGED <<contextVars, waiting, pidfile, saw, raced>>

JobCycleRaises(w) ==
    /\ At(w, "jobs")
    /\ Degraded(w)
    /\ UNCHANGED <<contextVars, waiting, pidfile, saw, raced>>

ContextCycle(w) ==
    /\ At(w, "context")
    /\ IF Queued = {} THEN Going(w, "beat") /\ UNCHANGED contextVars
       ELSE Going(w, "working") /\ Pick(w)
    /\ UNCHANGED <<waiting, pidfile, saw, raced>>

ContextWork(w) ==
    /\ At(w, "working")
    /\ WorkStep(w)
    /\ Going(w, IF worker'[w] = Idle THEN "beat" ELSE "working")
    /\ UNCHANGED <<waiting, pidfile, saw, raced>>

\* A read or a write of work_once() raises: the job stays as it is.  With nothing
\* queued that ends the cycle like the cycle itself.
ContextRaises(w) ==
    /\ \/ At(w, "context") /\ Queued # {} /\ UNCHANGED contextVars
       \/ At(w, "working") /\ WorkerDies(w)
    /\ Degraded(w)
    /\ UNCHANGED <<waiting, pidfile, saw, raced>>

\* The heartbeat and the sleep.
Beat(w) ==
    /\ At(w, "beat")
    /\ Going(w, "prime")
    /\ UNCHANGED <<contextVars, waiting, pidfile, saw, raced>>

\* So does the audit of an error: run() ends, and cmd_supervise() cleans up.
LoopRaises(w) ==
    /\ service[w] \in {"prime", "starting", "jobs", "context", "working"}
    /\ Going(w, IF pidfile = w THEN "unlink" ELSE "ended")
    /\ worker' = [worker EXCEPT ![w] = Idle]
    /\ UNCHANGED <<root, submitter, shell, waiting, pidfile, saw, raced>>

Cycle(w) ==
    \/ CheckPrime(w) \/ StartPrime(w) \/ PrimeRaises(w)
    \/ JobCycle(w) \/ JobCycleRaises(w)
    \/ ContextCycle(w) \/ ContextWork(w) \/ ContextRaises(w) \/ Beat(w)

LoopNext ==
    \/ \E w \in Workers :
          CheckPid(w) \/ Register(w) \/ Stop(w) \/ Unlink(w) \/ Killed(w)
          \/ BackoffEnds(w) \/ LoopRaises(w) \/ Cycle(w)
    \/ /\ (\E j \in Jobs : Submission(j)) \/ (\E s \in Shells : Command(s))
       /\ UNCHANGED loop

LoopSpec == LoopInit /\ [][LoopNext]_loopVars

\* The loop of a process goes on while it runs.
FairSpec == LoopSpec /\ \A w \in Workers : WF_loopVars(Cycle(w))

-----------------------------------------------------------------------------
(***************************************************************************)
(* Properties.                                                             *)
(***************************************************************************)
\* The check of the pidfile is all that keeps two loops from the queue.  Unless
\* two starts, or a start and an end, have come between each other's read and
\* write of it, no settled context job is taken up again, by a loop that has read
\* it before (cmd_supervise, ContextJobManager.work_once).
SettledUnlessRaced ==
    [][~raced' => \A j \in Jobs : file[j].status \in Settled => file'[j] = file[j]]_loopVars

OnForGood(w) ==
    <>[](service[w] \in {"prime", "starting", "jobs", "context", "working", "beat"})

\* However often the start of Prime fails, and whatever else raises for a while, a
\* queued context job is taken up, as long as a loop runs in whose cycles from some
\* time on neither the check of Prime, nor an audit, nor the job cycle, nor the
\* reads and writes of the context cycle raise: each of these ends its cycle
\* before the jobs it has not reached (ServiceLoop.run).
QueueDrains ==
    \A w \in Workers :
        (/\ OnForGood(w)
         /\ <>[][~PrimeRaises(w) /\ ~JobCycleRaises(w) /\ ~ContextRaises(w)]_loopVars)
        => \A j \in Jobs : []<>(file[j].status # "queued")

=============================================================================
