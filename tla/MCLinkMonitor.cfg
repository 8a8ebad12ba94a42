CONSTANTS
    KeepaliveSec <- NotSet
    DefaultKeepalive = 2
    Idle = 5
    Rtt = 1
    MaxLost = 1
    MaxTime = 16
SPECIFICATION MonitorSpec
CHECK_DEADLOCK FALSE
INVARIANTS
    HealthyLinkKept
    DeadLinkDetected
