SPECIFICATION FairSpec
CONSTANTS
    Engines = {"opencode", "prime", "hermes", "local", "direct"}
    Streams <- MCStreams
    MaxEvents = 4
    Limit = 5
    MaxNoise = 1
    BodyLimit = 2
    Noisy <- MCNoisy
INVARIANTS
    NothingHoldsOn
    SuccessIsWhole
PROPERTY
    BoundaryEnds
CHECK_DEADLOCK FALSE
