---------------------------- MODULE Orchestration ----------------------------
(***************************************************************************)
(* Orchestrator.run() of harness2/orchestrator.py in several processes that*)
(* share the breakers of harness2/circuit.py, and the explicit runs of     *)
(* application.py, which go through GovernedLegacyRuntimeDriver instead.   *)
(* Every read and every save of a breaker row is a transaction of its own  *)
(* (Store.circuit, Store.save_circuit).                                    *)
(*                                                                         *)
(* Requests share provider and model, so that a breaker key is its engine. *)
(* A count of failures stops at the threshold, beyond which the code does  *)
(* not tell counts apart, and a cooldown is in units of the base.          *)
(***************************************************************************)
EXTENDS RoutingPolicy

CONSTANTS
    Procs,        \* processes that run requests
    Asking,       \* what each of them may be asked
    Threshold,    \* failures that open a breaker
    MaxCooldown,  \* the longest cooldown
    Retries       \* retries of one engine

\* What a request is held to, when it is not an engine that it names.
Classes == {"sensitive", "untrusted", "messaging", "no fallback", "open"}

ASSUME OrchestrationConstantsOK ==
    /\ Asking \in [Procs -> SUBSET Requests]
    /\ Threshold \in Nat \ {0}
    /\ MaxCooldown \in Nat \ {0}
    /\ Retries \in Nat
    /\ Classes \cap Registered = {}

VARIABLES
    breaker,  \* circuits, by key
    proc      \* what each process is doing

vars == <<breaker, proc>>

-----------------------------------------------------------------------------
(***************************************************************************)
(* Breakers.  opened is the age of opened_at: less than the cooldown, or   *)
(* not.                                                                    *)
(***************************************************************************)
Row(state, failures, opened, cooldown) ==
    [state |-> state, failures |-> failures, opened |-> opened, cooldown |-> cooldown]

\* Store.circuit() of a key without a row, and what success() saves.
Closed == Row("closed", 0, "never", 1)

HalfOpened(row) == [row EXCEPT !.state = "half_open"]

Least(a, b) == IF a < b THEN a ELSE b

\* Mutant: opened_at is left out when a breaker opens again.
FailedKeepingDate(row) ==
    LET n == Least(row.failures + 1, Threshold)
    IN IF n = Threshold \/ row.state = "half_open"
       THEN Row("open", n, row.opened, Least(MaxCooldown, 2 * row.cooldown))
       ELSE [row EXCEPT !.failures = n]

Failed(row) ==
    LET n == Least(row.failures + 1, Threshold)
    IN IF n = Threshold \/ row.state = "half_open"
       THEN Row("open", n, "recently", Least(MaxCooldown, 2 * row.cooldown))
       ELSE [row EXCEPT !.failures = n]

\* Mutant: before() lets an open breaker be.
NeverDue(row) == row.state = "open" /\ row.opened = "never"

Due(row) == row.state = "open" /\ row.opened = "long ago"

-----------------------------------------------------------------------------
(***************************************************************************)
(* A run: the class of its request, the engines still to be tried, whether *)
(* they get the sandbox agent, the retries of the first of them, the copy  *)
(* of a row between a read and its save, and (history) how often each      *)
(* engine was run.                                                         *)
(***************************************************************************)
ClassOf(req) ==
    IF req.sensitive THEN "sensitive"
    ELSE IF req.untrusted THEN "untrusted"
    ELSE IF req.engine # "auto" THEN req.engine
    ELSE IF req.topic = "messaging" THEN "messaging"
    ELSE IF req.no_fallback THEN "no fallback"
    ELSE "open"

NotRun == [e \in Registered |-> 0]

Idle == [at |-> "idle"]

Run(class, route, sandboxed) ==
    [at |-> "before", class |-> class, route |-> route, sandboxed |-> sandboxed,
     tries |-> 0, row |-> Closed, ran |-> NotRun]

\* Through the orchestrator.
Routed(req, d) ==
    Run(ClassOf(req), Route(req, d), AgentFor(d, Head(Route(req, d))) = Sandbox)

\* ForegroundExecutionService.run(), which takes explicit requests: one engine,
\* and the agent of the request's constraints before that of the decision.
Foreground(req, d) ==
    Run(ClassOf(req), <<d.engine>>, req.agent = NoAgent /\ d.agent = Sandbox)

\* Every run that prepare() can start a request with, for all statuses.
Starts(req) ==
    UNION {LET d == Decide(req, st)
           IN IF d = Refused THEN {}
              ELSE {Routed(req, d)} \cup
                   (IF req.engine = "auto" THEN {} ELSE {Foreground(req, d)}) :
           st \in Statuses}

Runs == [p \in Procs |-> UNION {Starts(req) : req \in Asking[p]}]

Init ==
    /\ breaker = [e \in Registered |-> Closed]
    /\ proc = [p \in Procs |-> Idle]

-----------------------------------------------------------------------------
Doing(p, place) == proc[p].at = place

Engine(p) == Head(proc[p].route)

Becomes(p, state) == proc' = [proc EXCEPT ![p] = state]

Goes(p, place) == Becomes(p, [proc[p] EXCEPT !.at = place])

Saves(p, row) == breaker' = [breaker EXCEPT ![Engine(p)] = row]

\* continue: the next candidate; after the last record_run() and return.
Skipped(p) ==
    IF Len(proc[p].route) = 1 THEN Idle
    ELSE [proc[p] EXCEPT !.at = "before", !.route = Tail(@), !.tries = 0, !.row = Closed]

Prepare(p) ==
    /\ Doing(p, "idle")
    /\ \E run \in Runs[p] : Becomes(p, run)
    /\ UNCHANGED breaker

\* An engine without an adapter is passed over.  before(): an open row whose
\* cooldown is over is read here and saved later.
Before(p) ==
    /\ Doing(p, "before")
    /\ LET row == breaker[Engine(p)]
       IN IF Engine(p) \notin Registered THEN Becomes(p, Skipped(p))
          ELSE IF Due(row) THEN Becomes(p, [proc[p] EXCEPT !.at = "half open", !.row = row])
          ELSE IF row.state = "open" THEN Becomes(p, Skipped(p))
          ELSE Goes(p, "invoke")
    /\ UNCHANGED breaker

BeforeSave(p) ==
    /\ Doing(p, "half open")
    /\ Saves(p, HalfOpened(proc[p].row))
    /\ Becomes(p, [proc[p] EXCEPT !.at = "invoke", !.row = Closed])

RetriesLeft(tries) == tries < Retries

\* engine.run(): an engine that answers, one that fails in a way worth a retry,
\* one that fails for good.
Invoke(p) ==
    /\ Doing(p, "invoke")
    /\ LET ran == [proc[p].ran EXCEPT ![Engine(p)] = @ + 1]
       IN \E outcome \in {"success", "transient", "permanent"} :
            Becomes(p,
              CASE outcome = "success" ->
                     [proc[p] EXCEPT !.at = "succeeded", !.ran = ran]
                [] outcome = "transient" /\ RetriesLeft(proc[p].tries) ->
                     [proc[p] EXCEPT !.tries = @ + 1, !.ran = ran]
                [] OTHER ->
                     [proc[p] EXCEPT !.at = "failed", !.ran = ran])
    /\ UNCHANGED breaker

\* success(): what is read is overwritten, so that the save is all there is.
Success(p) ==
    /\ Doing(p, "succeeded")
    /\ Saves(p, Closed)
    /\ Becomes(p, Idle)

\* failure(): read, change, save, and before() once more for its view.
FailureRead(p) ==
    /\ Doing(p, "failed")
    /\ Becomes(p, [proc[p] EXCEPT !.at = "failure", !.row = breaker[Engine(p)]])
    /\ UNCHANGED breaker

FailureSave(p) ==
    /\ Doing(p, "failure")
    /\ Saves(p, Failed(proc[p].row))
    /\ Becomes(p, [proc[p] EXCEPT !.at = "view", !.row = Closed])

FailureView(p) ==
    /\ Doing(p, "view")
    /\ LET row == breaker[Engine(p)]
       IN Becomes(p, IF Due(row) THEN [proc[p] EXCEPT !.at = "view save", !.row = row]
                     ELSE Skipped(p))
    /\ UNCHANGED breaker

FailureViewSave(p) ==
    /\ Doing(p, "view save")
    /\ Saves(p, HalfOpened(proc[p].row))
    /\ Becomes(p, Skipped(p))

\* The process is killed, or the adapter raises: no handler saves a breaker.
Dies(p) ==
    /\ ~Doing(p, "idle")
    /\ Becomes(p, Idle)
    /\ UNCHANGED breaker

\* The cooldown of an open breaker ends.
Elapse(e) ==
    /\ breaker[e].opened = "recently"
    /\ breaker' = [breaker EXCEPT ![e].opened = "long ago"]
    /\ UNCHANGED proc

Step(p) ==
    \/ Before(p) \/ BeforeSave(p) \/ Invoke(p) \/ Success(p)
    \/ FailureRead(p) \/ FailureSave(p) \/ FailureView(p) \/ FailureViewSave(p)

Next ==
    \/ \E p \in Procs : Prepare(p) \/ Step(p) \/ Dies(p)
    \/ \E e \in Registered : Elapse(e)

Spec == Init /\ [][Next]_vars

\* A run goes on while its process lives (its engine ends by its timeout), and
\* time passes.
FairSpec ==
    /\ Spec
    /\ \A p \in Procs : WF_vars(Step(p))
    /\ \A e \in Registered : WF_vars(Elapse(e))

-----------------------------------------------------------------------------
(***************************************************************************)
(* Properties.                                                             *)
(***************************************************************************)
RowOK(row) ==
    /\ row.failures \in 0..Threshold
    /\ row.cooldown \in 1..MaxCooldown
    /\ IF row.state = "closed"
       THEN row.failures < Threshold /\ row.opened = "never" /\ row.cooldown = 1
       ELSE row.state \in {"open", "half_open"} /\ row.opened \in {"recently", "long ago"}

\* Processes overwrite each other's rows, but every row in the table and every
\* copy of one is a row a single breaker could have: closed below the threshold,
\* otherwise with the date it opened, without which before() would keep the
\* engine out for ever (CircuitBreaker.before, failure, success).
RowsAreSound ==
    /\ \A e \in Registered : RowOK(breaker[e])
    /\ \A p \in Procs : ~Doing(p, "idle") => RowOK(proc[p].row)

Invoked(p) == {e \in Registered : proc[p].ran[e] > 0}

\* The engines that may be given a request of a class.
Allowed(class) ==
    CASE class = "sensitive"  -> {"local"}
      [] class = "untrusted"  -> {"opencode"}
      [] class = "messaging"  -> {"hermes"}
      [] class \in Registered -> {class}
      [] OTHER -> Registered

\* Whatever fails, is retried, skipped or passed on, no attempt takes a request out
\* of the rule that decided it: a sensitive request is run by the local engine
\* alone, an untrusted one by OpenCode alone, a messaging one by Hermes ("no silent
\* fallback is allowed"), any other that names an engine by that engine and one
\* without fallback by one engine; and no engine is run more than once and Retries
\* times again (PolicyRouter.decide, Orchestrator.run). The order of these rules is
\* the code's: ExplicitOutranks, which docs/ARCHITECTURE.md says, is another one.
\* Which agent an untrusted request gets is not said here: UntrustedIsSandboxed.
FallbacksKeepToRule ==
    \A p \in Procs : ~Doing(p, "idle") =>
        /\ \A e \in Registered : proc[p].ran[e] <= Retries + 1
        /\ Invoked(p) \subseteq Allowed(proc[p].class)
        /\ proc[p].class = "no fallback" => \A e, f \in Invoked(p) : e = f

\* docs/ARCHITECTURE.md:13: "untrusted tasks use the read-only harness-sandbox
\* OpenCode agent". Not so in the foreground, where the agent that a request names
\* comes before that of its decision (legacy_bridge.py:84 and 120).
UntrustedIsSandboxed ==
    \A p \in Procs :
        ~Doing(p, "idle") /\ proc[p].class = "untrusted" => proc[p].sandboxed

At(e, place) == \E p \in Procs : Doing(p, place) /\ Engine(p) = e

\* An engine that no longer fails comes back: while it is asked for again and
\* again and no process dies, its breaker does not stay open, however stale the
\* copies that are still to be saved (CircuitBreaker.before).
EngineComesBack ==
    \A e \in Registered :
        (/\ <>[]~At(e, "failed")
         /\ <>[][\A p \in Procs : Dies(p) => Step(p)]_vars
         /\ []<>At(e, "before"))
        => []<>(breaker[e].state = "closed")

=============================================================================
