SPECIFICATION SerialSpec
CONSTANTS
    c1 = c1
    c2 = c2
    Chats = {c1, c2}
    p1 = p1
    p2 = p2
    Prompts = {p1, p2}
    TurnLimit = 1
    MaxTurns = 5
INVARIANTS
    OneResultWhenCompleted
    RetryReusesTurn
    LostOnlyByRetry
SYMMETRY Symmetry
CHECK_DEADLOCK FALSE
