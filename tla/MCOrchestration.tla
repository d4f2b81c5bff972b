--------------------------- MODULE MCOrchestration ---------------------------
EXTENDS Orchestration, TLC

DefaultPreference == <<"opencode", "prime", "zen", "direct", "hermes", "local">>

MCPreference == SelectSeq(DefaultPreference, LAMBDA e : e \in Registered)

CONSTANTS p1, p2

\* One process is asked anything that the rules choose for, or OpenCode by name
\* (the other engines are named in the same way); the other keeps disturbing
\* OpenCode's breaker.
Anything == {req \in Requests : req.engine \in {"auto", "opencode"}}

Rival ==
    {[guarded |-> FALSE, sensitive |-> FALSE, untrusted |-> FALSE, no_fallback |-> FALSE,
      engine |-> "opencode", agent |-> NoAgent, topic |-> "long"]}

MCAsking == (p1 :> Anything) @@ (p2 :> Rival)

=============================================================================
