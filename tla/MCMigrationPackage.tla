------------------------- MODULE MCMigrationPackage -------------------------
EXTENDS MigrationPackage

\* A job and a command that publish one context in two editions.
MCContext == [x \in Jobs \cup Shells |-> "c1"]

MCEdition == [x \in Jobs \cup Shells |-> IF x \in Jobs THEN "1.0" ELSE "2.0"]

Symmetry == Permutations(Builders)

\* Two builders run over a root without context jobs; one runs while jobs do.
Unused ==
    /\ \A j \in Jobs : submitter[j] = "no"
    /\ \A s \in Shells : shell[s] = "no"

Bounded ==
    \/ \E b \in Builders : builder[b] = Builder("idle") /\ output[b] = {}
    \/ Unused

=============================================================================
