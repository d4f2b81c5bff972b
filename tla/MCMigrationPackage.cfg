SPECIFICATION Spec
CONSTANTS
    Jobs = {j1}
    Workers = {w1}
    Shells = {s1}
    Contexts = {"c1"}
    Editions = {"1.0", "2.0"}
    Context <- MCContext
    Edition <- MCEdition
    Builders = {b1, b2}
    Restorers = {r1}
SYMMETRY Symmetry
CONSTRAINT Bounded
INVARIANTS
    SnapshotIsOneMoment
    KeyOutlivesPackage
    FailureLeavesOneFile
CHECK_DEADLOCK FALSE
