SPECIFICATION Spec
CONSTANTS
    s1 = s1
    s2 = s2
    k1 = k1
    Starters = {s1, s2}
    Stoppers = {k1}
    Methods = {"auto", "flock", "mkdir"}
    Platforms = {"posix", "rejects", "missing"}
    MaxPid = 2
INVARIANTS
    ExclusiveUnlessStolen
    RegisteredUnlessDisturbed
    SingleUnlessDisturbed
CHECK_DEADLOCK FALSE
