CONSTANTS
    Token = {t1, t2}
    Conn = {c1, c2}
    MaxDelay = 1
    authWindow = 2
    Skew = 1
    MaxTime = 8
SPECIFICATION AuthSpec
CHECK_DEADLOCK FALSE
SYMMETRY Symmetry
INVARIANTS
    AcceptedOnce
PROPERTIES
    CacheBounded
