----------------------------- MODULE MCSession ------------------------------
(* Small words and windows (2 and 4 bits) and a 9-value counter type: a    *)
(* slot is reused up to four times before the counter type ends.           *)
EXTENDS Session

MCWindows == {0, 1, 3}
MCTypeOf  == [c \in 0..MaxCallSeq |-> IF c % 3 = 1 THEN "keepalive" ELSE "data"]
=============================================================================
