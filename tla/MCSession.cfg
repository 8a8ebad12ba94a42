CONSTANTS
    WordBits = 2
    DefaultWindowBits = 4
    Windows <- MCWindows
    MaxUint = 8
    MaxCallSeq = 7
    Type = {"data", "keepalive"}
    TypeOf <- MCTypeOf
    Index = {1, 2}
    localIndex = 1
SPECIFICATION SessionSpec
INVARIANTS
    WindowExact
    SenderAhead
    DeliveredAsSealed
PROPERTIES
    ImplementsAntiReplay
    Returns
