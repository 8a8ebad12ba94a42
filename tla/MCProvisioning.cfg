CONSTANTS
    User = {1, 2}
    Flags <- MCFlags
    HandWritten <- MCHandWritten
    ServerKey = 100
    IPOf <- MCIPOf
    Addrs = {"10.7.0.2", "10.7.0.2/24", "10.7.0.3/16"}
    Endpoints = {"vpn:5555"}
    Sorts = {"udp", "tls", "reality", "quic"}
    PSKs <- AllPSKs
    KAs = {0, 25}
    Newline = {TRUE}
    Contention = {FALSE}
SPECIFICATION HostSpec
INVARIANTS
    PrintedIsServed
    LinkFaithful
    RulesOnce
