--------------------------- MODULE MCServiceLoop ---------------------------
EXTENDS ServiceLoop, TLC

CONSTANTS j1, j2

\* Two jobs that publish one context in two editions.
MCContext == [j \in Jobs |-> "c1"]

MCEdition == [j \in Jobs |-> IF j = j1 THEN "1.0" ELSE "2.0"]

=============================================================================
