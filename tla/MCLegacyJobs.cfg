SPECIFICATION JobsSpec
CONSTANTS
    t1 = t1
    t2 = t2
    w1 = w1
    w2 = w2
    Tasks = {t1, t2}
    Keys = {}
    NoKey = NoKey
    MaxAttempts = 2
    LeaseSeconds = 1
    Backoffs = {1}
    LockWait = 0
    RecoverLimit = 1
    MaxClock = 3
    Workers = {w1, w2}
    OldJobs = {}
SYMMETRY Symmetry
INVARIANTS
    ProjectionAgrees
    HeadIsClaimable
    ExpiredRunWaitsForOperator
PROPERTY
    JobsImplementContract
CHECK_DEADLOCK FALSE
