SPECIFICATION FairSpec
CONSTANTS
    j1 = j1
    j2 = j2
    Jobs = {j1, j2}
    Workers = {w1, w2}
    Shells = {}
    Contexts = {"c1"}
    Editions = {"1.0", "2.0"}
    Context <- MCContext
    Edition <- MCEdition
INVARIANTS
    SnapshotsAreBacked
    SucceededLoads
PROPERTIES
    SettledUnlessRaced
    QueueDrains
CHECK_DEADLOCK FALSE
