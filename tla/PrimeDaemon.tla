---------------------------- MODULE PrimeDaemon ----------------------------
(***************************************************************************)
(* The supervision of the Prime daemon by harness2/supervisor.py:          *)
(* start_daemon(), under the start mutex (StartLock), and stop_daemon(),   *)
(* which takes no mutex, over the pidfile, the socket path and the process *)
(* table.  The service loop, every "harness run --engine prime" and        *)
(* "harness prime start" are starters; "harness prime stop" is a stopper   *)
(* (with force, as PrimeAdapter.stop() passes it).                         *)
(*                                                                         *)
(* A status() snapshot is one step, and so is a decision of cleanup_stale()*)
(* or the act that follows it; between any two steps of a process the      *)
(* others run, and a starter may die.                                      *)
(***************************************************************************)
EXTENDS StartLock

CONSTANTS
    Stoppers,  \* the processes that stop the daemon
    MaxPid     \* bound: daemons that are ever spawned

\* A process starts the daemon or stops it, one command each.
ASSUME DaemonConstantsOK ==
    /\ Starters \cap Stoppers = {}
    /\ MaxPid \in Nat \ {0}

VARIABLES
    daemon,    \* the process table: what became of each pid
    pidfile,   \* the pid in the pidfile, 0 if there is none
    socket,    \* the daemon that bound the socket path, 0 if it is free
    doing,     \* what each starter or stopper is about to do
    slips      \* history: what went wrong around the mutex

daemonVars == <<daemon, pidfile, socket, doing, slips>>
vars == <<lockVars, daemonVars>>

-----------------------------------------------------------------------------
Pids == 1..MaxPid
Actors == Starters \cup Stoppers

\* A daemon that is starting up, has its socket open, or has exited.
DaemonState == {"none", "booting", "serving", "dead"}

\* Processes whose argv names the bundle and the socket (find_matching_pids).
Live == {p \in Pids : daemon[p] \in {"booting", "serving"}}

Registered == pidfile \in Live                       \* DaemonStatus.running
Reachable == socket # 0 /\ daemon[socket] = "serving"  \* socket_reachable

\* The position of a process in start_daemon() or stop_daemon(), with the pid
\* it carries: the spawned child, the target of a stop, the pid to heal with.
At(place, p) == [at |-> place, pid |-> p]

Nowhere == At("nowhere", 0)

Place == {"nowhere", "clean", "heal", "sweep", "spawn", "record", "wait",
          "clean up", "heal up", "sweep up", "leave", "kill"}

Init ==
    /\ LockInit
    /\ daemon = [p \in Pids |-> "none"]
    /\ pidfile = 0
    /\ socket = 0
    /\ doing = [a \in Actors |-> Nowhere]
    /\ slips = {}

Proceed(a, place, p) == doing' = [doing EXCEPT ![a] = At(place, p)]

\* What a starter does with the mutex in its hands.
Inside(s, place) == Holding(s) /\ doing[s].at = place

-----------------------------------------------------------------------------
(***************************************************************************)
(* cleanup_stale(): the pidfile is left, healed or removed together with   *)
(* the socket.  The decision and the act are separate steps, and the same  *)
(* for a starter before its spawn (first three places), for a starter whose*)
(* daemon failed and for a stopper (last three).                           *)
(***************************************************************************)
Lowest(S) == CHOOSE p \in S : \A q \in S : p <= q

Decide(a, heal, sweep, next) ==
    /\ IF Registered THEN Proceed(a, next, doing[a].pid)
       ELSE IF Live # {} THEN Proceed(a, heal, Lowest(Live))
       ELSE Proceed(a, sweep, doing[a].pid)
    /\ UNCHANGED <<lockVars, daemon, pidfile, socket, slips>>

Heal(a, next) ==
    /\ pidfile' = doing[a].pid
    /\ slips' = slips \cup (IF Registered THEN {"outdated cleanup"} ELSE {})
    /\ Proceed(a, next, 0)
    /\ UNCHANGED <<lockVars, daemon, socket>>

Sweep(a, next) ==
    /\ pidfile' = 0
    /\ socket' = 0
    /\ slips' = slips \cup (IF Live # {} THEN {"outdated cleanup"} ELSE {})
    /\ Proceed(a, next, 0)
    /\ UNCHANGED <<lockVars, daemon>>

-----------------------------------------------------------------------------
(***************************************************************************)
(* start_daemon().                                                         *)
(***************************************************************************)
Contend(s) ==
    /\ Attempt(s)
    /\ UNCHANGED daemonVars

\* Mutant: the status is not read again under the mutex.
CheckSkipped(s) ==
    /\ Inside(s, "nowhere")
    /\ Proceed(s, "spawn", 0)
    /\ UNCHANGED <<lockVars, daemon, pidfile, socket, slips>>

\* A daemon that runs is returned or, if its socket is not reachable, reported.
Check(s) ==
    /\ Inside(s, "nowhere")
    /\ Proceed(s, IF Registered THEN "leave" ELSE "clean", 0)
    /\ UNCHANGED <<lockVars, daemon, pidfile, socket, slips>>

Clean(s) ==
    \/ Inside(s, "clean") /\ Decide(s, "heal", "sweep", "spawn")
    \/ Inside(s, "heal") /\ Heal(s, "spawn")
    \/ Inside(s, "sweep") /\ Sweep(s, "spawn")

\* subprocess.Popen: a new pid.
Spawn(s) ==
    /\ Inside(s, "spawn")
    /\ \E p \in Pids :
        /\ daemon[p] = "none"
        /\ \A q \in 1..(p - 1) : daemon[q] # "none"
        /\ daemon' = [daemon EXCEPT ![p] = "booting"]
        /\ Proceed(s, "record", p)
    /\ UNCHANGED <<lockVars, pidfile, socket, slips>>

\* Mutant: the pidfile is left to be written later.
RecordNothing(s) ==
    /\ Inside(s, "record")
    /\ Proceed(s, "wait", doing[s].pid)
    /\ UNCHANGED <<lockVars, daemon, pidfile, socket, slips>>

Record(s) ==
    /\ Inside(s, "record")
    /\ pidfile' = doing[s].pid
    /\ Proceed(s, "wait", doing[s].pid)
    /\ UNCHANGED <<lockVars, daemon, socket, slips>>

Ready(s) ==
    /\ Inside(s, "wait")
    /\ Reachable
    /\ Proceed(s, "leave", 0)
    /\ UNCHANGED <<lockVars, daemon, pidfile, socket, slips>>

\* The child died, or the wait ran out and the child is stopped.
NotReady(s) ==
    /\ Inside(s, "wait")
    /\ daemon' = [daemon EXCEPT ![doing[s].pid] = "dead"]
    /\ Proceed(s, "clean up", 0)
    /\ UNCHANGED <<lockVars, pidfile, socket, slips>>

CleanUp(a) ==
    \/ doing[a].at = "clean up" /\ Decide(a, "heal up", "sweep up", "leave")
    \/ doing[a].at = "heal up" /\ Heal(a, "leave")
    \/ doing[a].at = "sweep up" /\ Sweep(a, "leave")

Leave(s) ==
    /\ Inside(s, "leave")
    /\ Release(s)
    /\ doing' = [doing EXCEPT ![s] = Nowhere]
    /\ UNCHANGED <<daemon, pidfile, socket, slips>>

\* The starter dies; a daemon it spawned and has not recorded stays unknown.
StarterDies(s) ==
    /\ Die(s)
    /\ slips' = slips \cup (IF doing[s].at = "record" THEN {"unrecorded daemon"} ELSE {})
    /\ doing' = [doing EXCEPT ![s] = Nowhere]
    /\ UNCHANGED <<daemon, pidfile, socket>>

StarterStep(s) ==
    \/ Contend(s)
    \/ Check(s)
    \/ Clean(s)
    \/ Spawn(s)
    \/ Record(s)
    \/ Ready(s)
    \/ NotReady(s)
    \/ CleanUp(s)
    \/ Leave(s)

-----------------------------------------------------------------------------
(***************************************************************************)
(* stop_daemon(), with force.                                              *)
(***************************************************************************)
Target ==
    IF Registered THEN pidfile ELSE IF Live # {} THEN Lowest(Live) ELSE 0

Stop(a) ==
    /\ doing[a] = Nowhere
    /\ Proceed(a, IF Target = 0 THEN "clean up" ELSE "kill", Target)
    /\ UNCHANGED <<lockVars, daemon, pidfile, socket, slips>>

\* stop_verified_pid() raises when the target is no longer a daemon, and the
\* stop ends there.
Kill(a) ==
    /\ doing[a].at = "kill"
    /\ \/ /\ doing[a].pid \in Live
          /\ daemon' = [daemon EXCEPT ![doing[a].pid] = "dead"]
          /\ Proceed(a, "clean up", 0)
       \/ /\ doing[a].pid \notin Live
          /\ doing' = [doing EXCEPT ![a] = Nowhere]
          /\ UNCHANGED daemon
    /\ UNCHANGED <<lockVars, pidfile, socket, slips>>

StopEnds(a) ==
    /\ doing[a].at = "leave"
    /\ doing' = [doing EXCEPT ![a] = Nowhere]
    /\ UNCHANGED <<lockVars, daemon, pidfile, socket, slips>>

StopperStep(a) == Stop(a) \/ Kill(a) \/ CleanUp(a) \/ StopEnds(a)

-----------------------------------------------------------------------------
(***************************************************************************)
(* The daemon itself, known from what the supervisor expects of it: it     *)
(* opens its socket at a free path, and it may exit.                       *)
(***************************************************************************)
Serve(p) ==
    /\ daemon[p] = "booting"
    /\ socket = 0
    /\ daemon' = [daemon EXCEPT ![p] = "serving"]
    /\ socket' = p
    /\ UNCHANGED <<lockVars, pidfile, doing, slips>>

Exit(p) ==
    /\ p \in Live
    /\ daemon' = [daemon EXCEPT ![p] = "dead"]
    /\ socket' \in {socket, IF socket = p THEN 0 ELSE socket}
    /\ UNCHANGED <<lockVars, pidfile, doing, slips>>

LockAges == Age /\ UNCHANGED daemonVars

Next ==
    \/ LockAges
    \/ \E s \in Starters : StarterStep(s) \/ StarterDies(s)
    \/ \E a \in Stoppers : StopperStep(a)
    \/ \E p \in Pids : Serve(p) \/ Exit(p)

Spec == Init /\ [][Next]_vars

-----------------------------------------------------------------------------
(***************************************************************************)
(* Properties.                                                             *)
(***************************************************************************)
\* The files name pids, and whoever has a process to record, to wait for, to stop
\* or to heal with knows which.
TypeOK ==
    /\ daemon \in [Pids -> DaemonState]
    /\ pidfile \in Pids \cup {0}
    /\ socket \in Pids \cup {0}
    /\ doing \in [Actors -> [at : Place, pid : Pids \cup {0}]]
    /\ \A a \in Actors :
         doing[a].at \in {"record", "wait", "kill", "heal", "heal up"} => doing[a].pid # 0
    /\ stage \in [Starters -> Stage]
    /\ flocked = {s \in Starters : stage[s] = "flocked"}

Undisturbed == slips = {} /\ ~stolen

\* The pidfile names every live daemon but the one that is being spawned, so
\* that status() finds it and nobody spawns another, unless the mutex was
\* stolen, a starter died before it wrote the pidfile, or a cleanup removed or
\* overwrote the files of a daemon that had come up since it looked.
RegisteredUnlessDisturbed ==
    Undisturbed =>
        \A p \in Live :
            p = pidfile \/ \E s \in Starters : doing[s] = At("record", p)

\* Never two daemons, with the same exceptions.
SingleUnlessDisturbed == Undisturbed => Cardinality(Live) <= 1

\* A start does not go on to spawn once its cleanup has a live daemon in the
\* pidfile whose socket is reachable ("if a live daemon with an exactly-matching
\* argv is already running and its socket is reachable, the existing daemon is
\* returned instead of spawning a second", start_daemon).
SingleInstance ==
    [][\A s \in Starters :
         doing[s].at # "spawn" /\ doing'[s].at = "spawn" =>
             ~(Registered' /\ Reachable' /\ socket' = pidfile')]_vars

=============================================================================
