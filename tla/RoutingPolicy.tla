---------------------------- MODULE RoutingPolicy ----------------------------
(***************************************************************************)
(* PolicyRouter.decide() of harness2/policy.py, assemble_candidates() of   *)
(* harness2/router.py and the route that Orchestrator.run() makes of a     *)
(* decision.  A prompt is abstracted to its topic: the tokens decide()     *)
(* looks for, and whether it is short enough for the fast path.            *)
(***************************************************************************)
EXTENDS Naturals, Sequences, SequencesExt

CONSTANTS
    Registered,  \* engines with an adapter
    Preference   \* DEFAULT_ENGINE_PREFERENCE, or HARNESS_FALLBACK_ORDER

ASSUME PolicyConstantsOK ==
    /\ "opencode" \in Registered
    /\ "auto" \notin Registered
    /\ Preference \in Seq(ToSet(Preference))

Topics == {"malformed", "messaging", "parallel", "durable", "short", "long"}

NoAgent == "none"
Sandbox == "harness-sandbox"
Named   == "named by the user"
Expert  == "HARNESS_DEFAULT_AGENT"

Requests ==
    [guarded : BOOLEAN, sensitive : BOOLEAN, untrusted : BOOLEAN,
     no_fallback : BOOLEAN, engine : {"auto"} \cup Registered,
     agent : {NoAgent, Named}, topic : Topics]

\* EngineStatus: usable is available and enabled.  DirectAdapter.status() says
\* healthy whether or not it has a key; no other engine is healthy and unusable.
Statuses ==
    {st \in [Registered -> [usable : BOOLEAN, healthy : BOOLEAN]] :
        \A e \in Registered :
            IF e = "direct" THEN st[e].healthy ELSE st[e].healthy => st[e].usable}

Usable(st, e) == e \in Registered /\ st[e].usable

Eligible(st, e) == Usable(st, e) /\ st[e].healthy

-----------------------------------------------------------------------------
(***************************************************************************)
(* assemble_candidates(): the primary, then the others in order of         *)
(* preference.  consider() passes over a name that was seen before and one *)
(* that is unknown, disabled, down or ill.                                 *)
(***************************************************************************)
Assemble(primary, st) ==
    LET names == <<primary>> \o Preference
        route[n \in 0..Len(names)] ==
            IF n = 0 THEN <<>>
            ELSE IF Eligible(st, names[n]) /\ names[n] \notin ToSet(route[n - 1])
                 THEN Append(route[n - 1], names[n])
                 ELSE route[n - 1]
    IN route[Len(names)]

\* A RoutingDecision; PolicyRefusal is Refused.
Decision(engine, agent, candidates) ==
    [engine |-> engine, agent |-> agent, candidates |-> candidates]

Refused == Decision("none", NoAgent, <<>>)

Open(primary, agent, st) == Decision(primary, agent, Assemble(primary, st))

Chosen(req) == IF req.agent = NoAgent THEN Expert ELSE req.agent

\* engine != "auto".
DecideExplicit(req, st) ==
    IF Usable(st, req.engine)
    THEN Decision(req.engine,
                  IF req.engine \in {"opencode", "zen"} THEN Chosen(req) ELSE req.agent,
                  <<req.engine>>)
    ELSE Refused

\* The token rules, and the rule for a control plane that is not there.
DecideAuto(req, st) ==
    IF req.topic = "messaging" THEN
        IF Usable(st, "hermes") THEN Decision("hermes", NoAgent, <<>>) ELSE Refused
    ELSE IF req.topic = "parallel" /\ Usable(st, "hermes") THEN Open("hermes", NoAgent, st)
    ELSE IF req.topic = "durable" /\ Usable(st, "prime") THEN Open("prime", NoAgent, st)
    ELSE IF ~Usable(st, "opencode") /\ Usable(st, "prime") THEN Decision("prime", NoAgent, <<>>)
    ELSE IF /\ "direct" \in Registered
            /\ st["direct"].healthy
            /\ req.topic # "long"
            /\ Assemble("direct", st) # <<>>
        THEN Open("direct", NoAgent, st)
    ELSE IF Assemble("opencode", st) = <<>> THEN Refused
    ELSE Open("opencode", Chosen(req), st)

\* Mutant: the sensitive rule hands over fallbacks as the open rules do.
DecideWithFallbacks(req, st) ==
    IF req.guarded \/ req.topic = "malformed" THEN Refused
    ELSE IF req.sensitive THEN
        IF Eligible(st, "local") THEN Open("local", NoAgent, st) ELSE Refused
    ELSE IF req.untrusted THEN
        IF req.engine \in {"auto", "opencode"}
        THEN Decision("opencode", Sandbox, <<>>) ELSE Refused
    ELSE IF req.engine # "auto" THEN DecideExplicit(req, st)
    ELSE DecideAuto(req, st)

Decide(req, st) ==
    IF req.guarded \/ req.topic = "malformed" THEN Refused
    ELSE IF req.sensitive THEN
        IF Eligible(st, "local") THEN Decision("local", NoAgent, <<>>) ELSE Refused
    ELSE IF req.untrusted THEN
        IF req.engine \in {"auto", "opencode"}
        THEN Decision("opencode", Sandbox, <<>>) ELSE Refused
    ELSE IF req.engine # "auto" THEN DecideExplicit(req, st)
    ELSE DecideAuto(req, st)

-----------------------------------------------------------------------------
(***************************************************************************)
(* Orchestrator.run(): the engines it will try, in order.  The fallbacks   *)
(* of a decision are its candidates without its engine.                    *)
(***************************************************************************)
Candidates(d) == IF d.candidates = <<>> THEN <<d.engine>> ELSE d.candidates

Route(req, d) ==
    IF req.no_fallback THEN <<Head(Candidates(d))>> ELSE Candidates(d)

\* The agent that current = replace(decision, ...) carries to an engine.
AgentFor(d, e) ==
    IF e = d.engine \/ e \in {"opencode", "zen"} THEN d.agent ELSE NoAgent

\* docs/ARCHITECTURE.md:12, "Explicit engine selection outranks policy": not what
\* decide() does with a sensitive request that names another engine than local.
ExplicitOutranks ==
    \A req \in Requests, st \in Statuses :
        req.engine # "auto" /\ Decide(req, st) # Refused =>
            Decide(req, st).engine = req.engine

=============================================================================
