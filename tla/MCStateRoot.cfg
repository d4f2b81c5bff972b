SPECIFICATION Spec
CONSTANTS
    old = old
    new = new
    fork = fork
    Procs = {old, new, fork}
    Binary <- MCBinary
    Statements = 2
    Entries <- MCEntries
    Legacy <- MCLegacy
    Events <- MCEvents
    Consumers = {c1}
    MaxAudit = 3
INVARIANTS
    SchemaIsWhole
    KeysAgree
    LedgersVerify
PROPERTIES
    OpensWhatItKnows
    LedgersOnlyGrow
CHECK_DEADLOCK FALSE
