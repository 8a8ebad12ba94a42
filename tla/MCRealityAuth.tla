--------------------------- MODULE MCRealityAuth ----------------------------
(* A window of 2 ticks and a clock that runs through four windows: an      *)
(* entry is added at one end of the window and purged beyond the other.    *)
(* The clock error and the delay together are as long as the window.       *)
EXTENDS RealityAuth, TLC

Symmetry == Permutations(Token) \cup Permutations(Conn)
=============================================================================
