---------------------------- MODULE MCUdpTunnel -----------------------------
(* Two handshakes; the first one may be answered twice.                    *)
EXTENDS UdpTunnel
=============================================================================
