CONSTANTS
    p1 = p1
    p2 = p2
    ip1 = ip1
    ip2 = ip2
    ip3 = ip3
    x = x
    Key = {p1, p2, x}
    Peer = {p1, p2}
    IP = {ip1, ip2, ip3}
    TunnelIP <- MCTunnelIP
    Addr = {a1}
    Id = {i1, i2}
    IdsCollide = FALSE
    EarlyStop = FALSE
    KeepaliveAt = {0}
    Window = 1
    MaxSessions = 3
    MaxClientCtr = 1
    MaxServerCtr = 1
SPECIFICATION Spec
CHECK_DEADLOCK FALSE
INVARIANTS
    NonceUnique
    RegistryConsistent
PROPERTIES
    ImplementsRelay
    StopEndsServe
