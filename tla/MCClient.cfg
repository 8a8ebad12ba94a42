CONSTANTS
    MaxConns = 2
    MaxCtr = 1
SPECIFICATION Spec
CHECK_DEADLOCK FALSE
INVARIANTS
    NonceUnique
    PairedSend
    NoConnLeak
    ReaderConfined
PROPERTIES
    StopCompletes
    DeadLinkLeft
