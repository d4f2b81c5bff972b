----------------------------- MODULE MCEngineRun -----------------------------
EXTENDS EngineRun

Text(m)   == Event("text", m)
Calls     == Event("step_finish", "tool-calls")
Stop      == Event("step_finish", "stop")
Aborted   == Event("step_finish", "aborted")
Error1    == Event("error", "UnknownError")
Error2    == Event("error", "quota")
Message(m)  == Event("message_end", m)
Turn(m)   == Event("turn_end", m)
Over(m)   == Event("agent_end", m)

\* An answer in one step and in two, one that goes on after its end, one that is
\* aborted, errors, and every message once, twice and three times; all of them may
\* stop early.
MCStreams ==
    [opencode |-> {<<Text("m1"), Stop>>,
                   <<Text("m1"), Calls, Text("m2"), Stop>>,
                   <<Text("m1"), Stop, Text("m2")>>,
                   <<Text("m1"), Aborted>>,
                   <<Text("m1"), Error1, Error2>>},
     prime    |-> {<<Message("m1"), Turn("m1"), Over("m1")>>,
                   <<Message("m1"), Message("m2"), Turn("m2"), Over("none")>>,
                   <<Message("m1"), Over("m1"), Turn("m1")>>,
                   <<Message(Failing), Over(Failing)>>},
     hermes   |-> {<<Text("m1"), Text("m2")>>,
                   <<Text("m1"), Text("m1"), Text("m1"), Text("m1"), Text("m1"), Text("m1")>>},
     local    |-> {},
     direct   |-> {}]

\* A helper's line is no event to a parser and text to Hermes.
MCNoisy == Noise

ASSUME StreamsAreWellSpoken == WellSpoken

=============================================================================
