SPECIFICATION ExecSpec
CONSTANTS
    t1 = t1
    c1 = c1
    c2 = c2
    Tasks = {t1}
    Keys = {}
    NoKey = NoKey
    MaxAttempts = 2
    LeaseSeconds = 1
    Backoffs = {0}
    LockWait = 1
    RecoverLimit = 1
    MaxClock = 4
    Callers = {c1, c2}
    MaxCheckpoints = 2
INVARIANTS
    RunsWithinBudget
    DrivesUnderLease
    OutcomeIsTheDrivers
    ChainFollowsFences
PROPERTY
    ImplementsRepository
CHECK_DEADLOCK FALSE
