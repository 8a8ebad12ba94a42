CONSTANTS
    good = good
    odd = odd
    Client = {good, odd}
    Config <- OldPrologue
    Server <- MCServer
    MaxAttempts = 5
    MaxSessions = 6
    MaxFaults = 2
    fieldP = 29
    feA = 23
    Top = 16
SPECIFICATION Spec
CHECK_DEADLOCK FALSE
INVARIANTS
    Agreement
    FreshKeys
    EphemeralsRead
    EphemeralsAgree
    EphemeralsUniform
PROPERTIES
    Settles
