CONSTANTS
    MaxInits = 2
    MaxSessions = 3
    MaxCtr = 1
    MaxSeals = 2
    KeepaliveAt = {0}
SPECIFICATION Spec
CHECK_DEADLOCK FALSE
INVARIANTS
    NonceUnique
    AnswersReturn
