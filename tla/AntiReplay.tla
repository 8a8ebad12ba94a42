----------------------------- MODULE AntiReplay -----------------------------
(***************************************************************************)
(* What a sliding anti-replay window promises, whatever it stores: each    *)
(* counter is accepted at most once, a counter that lies `bits' or more    *)
(* below one already accepted is refused, and every other new counter is   *)
(* accepted.  ReplayFilter implements this with a bitmap of `bits' bits.   *)
(***************************************************************************)
EXTENDS Integers

VARIABLES bits,      \* size of the window
          accepted,  \* every counter accepted so far
          verdict    \* the last call and its answer; seq = -1 before any call

vars == <<bits, accepted, verdict>>

TooOld(seq) == \E a \in accepted : a - seq >= bits
Fresh(seq)  == seq \notin accepted /\ ~TooOld(seq)

Init == /\ bits \in Nat \ {0}
        /\ accepted = {}
        /\ verdict = [seq |-> -1, ok |-> FALSE]

Accept(seq) == /\ Fresh(seq)
               /\ accepted' = accepted \cup {seq}
               /\ verdict' = [seq |-> seq, ok |-> TRUE]
               /\ UNCHANGED bits

Refuse(seq) == /\ ~Fresh(seq)
               /\ verdict' = [seq |-> seq, ok |-> FALSE]
               /\ UNCHANGED <<bits, accepted>>

(* The counter judged is the one the verdict reports, so no quantifier over *)
(* all counters is needed.                                                  *)
Next == verdict'.seq \in Nat /\ (Accept(verdict'.seq) \/ Refuse(verdict'.seq))

Spec == Init /\ [][Next]_vars
=============================================================================
