SPECIFICATION Spec
CONSTANTS
    t1 = t1
    t2 = t2
    Tasks = {t1, t2}
    Keys = {}
    NoKey = NoKey
    MaxAttempts = 2
    LeaseSeconds = 1
    Backoffs = {0, 1}
    LockWait = 1
    RecoverLimit = 1
    MaxClock = 3
SYMMETRY Symmetry
INVARIANTS
    OneActiveAttempt
    FencesGrow
    WaitingTaskHasBudget
    OutcomeIsLastAttempts
PROPERTY
    FinishedStaysFinished
    ImplementsContract
CHECK_DEADLOCK FALSE
