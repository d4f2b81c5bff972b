----------------------------- MODULE StartLock -----------------------------
(***************************************************************************)
(* The start mutex of harness2/supervisor.py: acquire_start_lock(), class  *)
(* FlockLock and class MkdirLock, two strategies on one path.              *)
(*                                                                         *)
(* A step is one system call on the path.  Time is reduced to two facts: a *)
(* waiter may run out of its timeout after any attempt, and a lock         *)
(* directory becomes older than stale_after (600 s) only when no starter   *)
(* holds it, since a start takes at most 75 s.                             *)
(***************************************************************************)
EXTENDS Integers, FiniteSets

CONSTANTS
    Starters,   \* the processes that start a daemon
    Methods,    \* the lock methods they ask for
    Platforms   \* what flock may do: "posix", "rejects" (the filesystem
                \* refuses it) or "missing" (there is no fcntl module)

ASSUME LockConstantsOK ==
    /\ Methods \subseteq {"auto", "flock", "mkdir"}
    /\ Platforms \subseteq {"posix", "rejects", "missing"}

VARIABLES
    platform,   \* the platform of this run directory
    entry,      \* what is at the lock path
    flocked,    \* the starters with LOCK_EX on the lock file
    stage,      \* where each starter is
    stolen      \* history: a steal removed a directory that was not stale

lockVars == <<platform, entry, flocked, stage, stolen>>

-----------------------------------------------------------------------------
Entry == {"none", "file", "dir", "old dir"}

\* "flock" and "auto flock" stand for FlockLock.acquire() without and with the
\* fallback of acquire_start_lock(); "mkdir", "lstat" and "rmdir" are the calls
\* of MkdirLock.acquire(); "flocked" and "made" hold the lock.
Stage == {"idle", "flock", "auto flock", "mkdir", "lstat", "rmdir", "flocked", "made"}

Holding(s) == stage[s] \in {"flocked", "made"}

Waiting(s) == stage[s] \in {"flock", "auto flock", "mkdir", "lstat", "rmdir"}

LockInit ==
    /\ platform \in Platforms
    /\ entry \in {"none", "old dir"}
    /\ flocked = {}
    /\ stage = [s \in Starters |-> "idle"]
    /\ stolen = FALSE

Go(s, to) == stage' = [stage EXCEPT ![s] = to]

\* acquire_start_lock() looks at the path (_lock_kind) and picks a strategy.
Strategy(method) ==
    IF platform = "missing" THEN "mkdir"
    ELSE CASE entry \in {"dir", "old dir"} -> "mkdir"
           [] entry = "file"               -> "flock"
           [] method = "mkdir"             -> "mkdir"
           [] method = "flock"             -> "flock"
           [] OTHER                        -> "auto flock"

Look(s) ==
    /\ stage[s] = "idle"
    /\ \E method \in Methods :
        /\ platform = "missing" => method # "flock"
        /\ Go(s, Strategy(method))
    /\ UNCHANGED <<platform, entry, flocked, stolen>>

-----------------------------------------------------------------------------
(***************************************************************************)
(* FlockLock.                                                              *)
(***************************************************************************)
\* Mutant: a lock file somebody else has locked is taken as well.
FreeAlways(s) == TRUE

Free(s) == flocked \subseteq {s}

\* os.open(O_CREAT) and flock(LOCK_EX | LOCK_NB).
FlockAcquire(s) ==
    /\ stage[s] \in {"flock", "auto flock"}
    /\ platform = "posix"
    /\ entry \in {"none", "file"}
    /\ Free(s)
    /\ entry' = "file"
    /\ flocked' = flocked \cup {s}
    /\ Go(s, "flocked")
    /\ UNCHANGED <<platform, stolen>>

\* The lock file is created; another starter holds it, and this one polls or
\* times out.
FlockBusy(s) ==
    /\ stage[s] \in {"flock", "auto flock"}
    /\ platform = "posix"
    /\ entry \in {"none", "file"}
    /\ ~Free(s)
    /\ entry' = "file"
    /\ Go(s, "idle") \/ UNCHANGED stage
    /\ UNCHANGED <<platform, flocked, stolen>>

\* A directory came in between: opening it fails with EISDIR.
FlockOnDirectory(s) ==
    /\ stage[s] \in {"flock", "auto flock"}
    /\ entry \in {"dir", "old dir"}
    /\ Go(s, "idle")
    /\ UNCHANGED <<platform, entry, flocked, stolen>>

\* flock() fails with EOPNOTSUPP, after os.open() created the file: with "auto"
\* the starter goes on to a MkdirLock at the same path.
FlockRejected(s) ==
    /\ stage[s] \in {"flock", "auto flock"}
    /\ platform = "rejects"
    /\ entry \in {"none", "file"}
    /\ entry' = "file"
    /\ Go(s, IF stage[s] = "auto flock" THEN "mkdir" ELSE "idle")
    /\ UNCHANGED <<platform, flocked, stolen>>

-----------------------------------------------------------------------------
(***************************************************************************)
(* MkdirLock.                                                              *)
(***************************************************************************)
Mkdir(s) ==
    /\ stage[s] = "mkdir"
    /\ \/ /\ entry = "none"
          /\ entry' = "dir"
          /\ Go(s, "made")
       \/ /\ entry # "none"
          /\ Go(s, "lstat")
          /\ UNCHANGED entry
    /\ UNCHANGED <<platform, flocked, stolen>>

\* After an attempt the starter tries again or raises LockTimeoutError.
Again(s) == Go(s, "mkdir") \/ Go(s, "idle")

Stale == entry = "old dir"

Lstat(s) ==
    /\ stage[s] = "lstat"
    /\ IF Stale THEN Go(s, "rmdir") ELSE Again(s)
    /\ UNCHANGED <<platform, entry, flocked, stolen>>

\* The rest of _steal_stale(): it removes the directory that is there now.
Rmdir(s) ==
    /\ stage[s] = "rmdir"
    /\ entry' = IF entry = "file" THEN "file" ELSE "none"
    /\ stolen' = (stolen \/ entry = "dir")
    /\ Again(s)
    /\ UNCHANGED <<platform, flocked>>

-----------------------------------------------------------------------------
\* release().
Release(s) ==
    /\ Holding(s)
    /\ flocked' = flocked \ {s}
    /\ entry' = IF stage[s] = "made" /\ entry # "file" THEN "none" ELSE entry
    /\ Go(s, "idle")
    /\ UNCHANGED <<platform, stolen>>

\* The process dies: the kernel drops its flock, a directory stays.
Die(s) ==
    /\ stage[s] # "idle"
    /\ flocked' = flocked \ {s}
    /\ Go(s, "idle")
    /\ UNCHANGED <<platform, entry, stolen>>

Age ==
    /\ entry = "dir"
    /\ \A s \in Starters : stage[s] # "made"
    /\ entry' = "old dir"
    /\ UNCHANGED <<platform, flocked, stage, stolen>>

Attempt(s) ==
    \/ Look(s)
    \/ FlockAcquire(s)
    \/ FlockBusy(s)
    \/ FlockOnDirectory(s)
    \/ FlockRejected(s)
    \/ Mkdir(s)
    \/ Lstat(s)
    \/ Rmdir(s)

LockNext ==
    \/ Age
    \/ \E s \in Starters : Attempt(s) \/ Release(s) \/ Die(s)

LockSpec == LockInit /\ [][LockNext]_lockVars

-----------------------------------------------------------------------------
(***************************************************************************)
(* Properties.                                                             *)
(***************************************************************************)
\* Only one starter at a time holds the mutex, whichever strategy each of them
\* took, as long as no steal met a directory that had been replaced since it
\* was looked at (_steal_stale looks and removes in two calls).
ExclusiveUnlessStolen ==
    stolen \/ Cardinality({s \in Starters : Holding(s)}) <= 1

\* A starter that fell back to mkdir gives up for a lock somebody holds or has
\* left behind, never for a mere file that nobody has locked ("fall back to
\* MkdirLock when the filesystem rejects flock", acquire_start_lock).
FallbackIsUsable ==
    [][\A s \in Starters :
         stage[s] = "lstat" /\ stage'[s] = "idle" /\ entry = "file" =>
             flocked # {}]_lockVars

=============================================================================
