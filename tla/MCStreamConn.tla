---------------------------- MODULE MCStreamConn ----------------------------
EXTENDS StreamConn

(* Bytes are bits: lengths are 0..3.  The records are the empty one, one   *)
(* that looks like a header, the longest one and one that is too long.     *)
BitRecords == {<<>>, <<0, 1>>, <<1, 0, 1>>, <<1, 1, 1, 1>>}
=============================================================================
