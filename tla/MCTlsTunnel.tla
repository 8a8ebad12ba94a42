---------------------------- MODULE MCTlsTunnel -----------------------------
(* Three connections: two that overlap and one that displaces both.        *)
EXTENDS TlsTunnel
=============================================================================
