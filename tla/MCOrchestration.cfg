SPECIFICATION FairSpec
CONSTANTS
    p1 = p1
    p2 = p2
    Procs = {p1, p2}
    Asking <- MCAsking
    Registered = {"opencode", "hermes", "local"}
    Preference <- MCPreference
    Threshold = 2
    MaxCooldown = 2
    Retries = 1
INVARIANTS
    RowsAreSound
    FallbacksKeepToRule
PROPERTY EngineComesBack
