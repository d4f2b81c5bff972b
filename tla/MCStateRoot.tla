----------------------------- MODULE MCStateRoot -----------------------------
EXTENDS StateRoot

CONSTANTS old, new, fork

\* A program, the one after it and a build that went another way.
MCBinary == [p \in Procs |-> CASE p = old -> <<"1">> [] p = new -> <<"1", "2">>
                               [] OTHER -> <<"1", "drift">>]

MCLegacy ==
    <<[file |-> ".harness", line |-> 1], [file |-> ".harness", line |-> 2],
      [file |-> ".prime-cli", line |-> 1]>>

\* What a program records of its own work.
MCEntries == {[file |-> "none", line |-> 1]}

MCEvents ==
    {[id |-> "e1", key |-> "k1"], [id |-> "e2", key |-> "k1"], [id |-> "e3", key |-> "k2"]}

=============================================================================
