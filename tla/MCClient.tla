------------------------------ MODULE MCClient ------------------------------
(* Two connections: the second is dialled after every way of losing the    *)
(* first.                                                                  *)
EXTENDS Client
=============================================================================
