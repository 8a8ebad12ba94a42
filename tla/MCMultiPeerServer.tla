------------------------- MODULE MCMultiPeerServer --------------------------
(* Two peers with an address each, a client with an unknown key, and an    *)
(* address routed to nobody.                                               *)
EXTENDS MultiPeerServer, TLC

CONSTANTS p1, p2, x, ip1, ip2, ip3

MCTunnelIP == p1 :> ip1 @@ p2 :> ip2
=============================================================================
