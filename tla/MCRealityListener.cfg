CONSTANTS
    c1 = c1
    c2 = c2
    t1 = t1
    t2 = t2
    Token = {t1}
    Conn = {c1, c2}
    MaxDelay = 0
    authWindow = 0
    Skew = 0
    MaxTime = 1
    randomLen = 1
    Hello <- HelloSet
    Header = 1
    FirstRecord = 2
    Length = 3
    Answer = 1
    Incomplete = {c2}
    HalfClose = TRUE
SPECIFICATION Spec
CHECK_DEADLOCK FALSE
INVARIANTS
    TokenOpensOne
    ParsedAsSent
    Transparent
PROPERTIES
    OfferEnds
