CONSTANTS
    MaxConns = 3
    MaxRecords = 1
    InlineAccept = TRUE
SPECIFICATION Spec
CHECK_DEADLOCK FALSE
INVARIANTS
    NonceUnique
    SurvivorIsActive
    NothingLeft
    BlockedSendFreed
