SPECIFICATION JobsFairSpec
CONSTANTS
    t1 = t1
    t2 = t2
    w1 = w1
    Tasks = {t1, t2}
    Keys = {}
    NoKey = NoKey
    MaxAttempts = 2
    LeaseSeconds = 1
    Backoffs = {1}
    LockWait = 1
    RecoverLimit = 1
    MaxClock = 4
    Workers = {w1}
    OldJobs = {t2}
PROPERTY
    TaskRunSettles
CHECK_DEADLOCK FALSE
