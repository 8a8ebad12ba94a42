---------------------------- MODULE MCHandshake -----------------------------
(* A client with the right settings, and one whose prologue is of an older *)
(* version: its frames pass MAC1 and fail in Noise.                        *)
EXTENDS HandshakeKeys

CONSTANTS good, odd

MCServer == [pub |-> "server", prologue |-> "v1"]
OldPrologue == [c \in Client |-> IF c = good THEN MCServer
                                 ELSE [pub |-> "server", prologue |-> "old"]]
=============================================================================
