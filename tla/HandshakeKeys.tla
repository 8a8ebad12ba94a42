--------------------------- MODULE HandshakeKeys ----------------------------
(***************************************************************************)
(* The ephemeral keys of Handshake are those of Elligator2.  Handshake     *)
(* takes one for the number of the attempt or the session that drew it;    *)
(* that this is sound is what Elligator2 is asked here, once, before the   *)
(* first attempt.                                                          *)
(***************************************************************************)
EXTENDS Handshake, Elligator2

NoneBegun == attempt = [c \in Client |-> 0]

(* The peer gets the ephemeral key that was drawn out of the 32 bytes that *)
(* stand for it, whatever bits pad them.                                   *)
EphemeralsRead == NoneBegun => RoundTrip

(* Both ends compute the same secret, the one plain X25519 would give.     *)
EphemeralsAgree == NoneBegun => Agree

(* The 32 bytes that stand for the key on the wire are equally likely.     *)
EphemeralsUniform == NoneBegun => Uniform
=============================================================================
