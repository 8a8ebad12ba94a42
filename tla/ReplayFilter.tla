---------------------------- MODULE ReplayFilter ----------------------------
(***************************************************************************)
(* internal/replay: the bitmap filter behind Session.Open.                 *)
(*                                                                         *)
(* One call of ValidateAndAdd is one action, except for the loop that      *)
(* clears the slots of skipped counters, which takes one action per slot   *)
(* so that its termination is a question the model can answer.  The        *)
(* []uint64 bitmap is the set of bit positions that are 1.                 *)
(***************************************************************************)
EXTENDS Integers

CONSTANTS WordBits,           \* bits of a bitmap word (64)
          DefaultWindowBits,  \* the window New(0) gets (8192)
          Windows,            \* the windowBits New is called with
          MaxUint,            \* largest value of the counter type (2^64 - 1)
          MaxCallSeq          \* largest counter the caller passes

ASSUME FilterAssumption ==
    /\ WordBits \in Nat \ {0}
    /\ DefaultWindowBits \in Nat \ {0}
    /\ Windows \subseteq Nat
    /\ MaxUint \in Nat
    /\ MaxCallSeq \in 0..MaxUint

VARIABLES highest,   \* largest counter accepted
          bitmap,    \* positions whose bit is 1
          bits,      \* window size in bits
          started,   \* a first packet has been accepted
          pc,        \* "idle", or "clear" inside the clearing loop
          seq,       \* argument of the call in progress
          s,         \* loop variable
          accepted,  \* history: counters for which a call returned true
          verdict    \* history: last call and its answer

vars == <<highest, bitmap, bits, started, pc, seq, s, accepted, verdict>>

U(x) == x % (MaxUint + 1)                      \* unsigned arithmetic wraps

-----------------------------------------------------------------------------
(* New                                                                     *)

Words(windowBits) ==
    LET want  == IF windowBits = 0 THEN DefaultWindowBits ELSE windowBits
        words == U(want + WordBits - 1) \div WordBits
    IN  IF words = 0 THEN 1 ELSE words

Init ==
    /\ highest = 0 /\ started = FALSE /\ bitmap = {}
    /\ bits \in {Words(w) * WordBits : w \in Windows}
    /\ pc = "idle" /\ seq = 0 /\ s = 0
    /\ accepted = {} /\ verdict = [seq |-> -1, ok |-> FALSE]

-----------------------------------------------------------------------------
(* The bitmap                                                              *)

index(x) == x % bits

Bit(x)      == index(x) \in bitmap
setBit(b, x) == b \cup {index(x)}

clearBit_Off(b, x) == b                                    \* mutant
clearBit(b, x) == b \ {index(x)}

Zeroed_Kept == bitmap                                      \* mutant
Zeroed == {}

-----------------------------------------------------------------------------
(* ValidateAndAdd                                                          *)

Return(q, ok) ==
    /\ pc' = "idle"
    /\ verdict' = [seq |-> q, ok |-> ok]
    /\ accepted' = IF ok THEN accepted \cup {q} ELSE accepted

Begin(q) == pc = "idle" /\ q <= MaxCallSeq

FirstPacket(q) ==
    /\ Begin(q) /\ ~started
    /\ started' = TRUE
    /\ highest' = q
    /\ bitmap' = setBit(bitmap, q)
    /\ Return(q, TRUE)
    /\ UNCHANGED <<bits, seq, s>>

JumpAhead(q) ==                       \* the jump leaves the window: zero it all
    /\ Begin(q) /\ started
    /\ q > highest /\ q - highest >= bits
    /\ highest' = q
    /\ bitmap' = setBit(Zeroed, q)
    /\ Return(q, TRUE)
    /\ UNCHANGED <<bits, started, seq, s>>

StartClearing(q) ==                   \* for s := highest + 1; ...
    /\ Begin(q) /\ started
    /\ q > highest /\ q - highest < bits
    /\ pc' = "clear" /\ seq' = q /\ s' = U(highest + 1)
    /\ UNCHANGED <<highest, bitmap, bits, started, accepted, verdict>>

Inc_Stuck(x) == x                                          \* mutant
Inc(x) == U(x + 1)

ClearNext ==                          \* ... s <= seq; s++
    /\ pc = "clear" /\ s <= seq
    /\ bitmap' = clearBit(bitmap, s)
    /\ s' = Inc(s)
    /\ UNCHANGED <<highest, bits, started, pc, seq, accepted, verdict>>

FinishClearing ==
    /\ pc = "clear" /\ s > seq
    /\ highest' = seq
    /\ bitmap' = setBit(bitmap, seq)
    /\ Return(seq, TRUE)
    /\ UNCHANGED <<bits, started, seq, s>>

Late(q) == Begin(q) /\ started /\ q <= highest
Stale(q) == highest - q >= bits

Reject(q) ==                          \* below the window, or its bit is set
    /\ Late(q) /\ (Stale(q) \/ Bit(q))
    /\ Return(q, FALSE)
    /\ UNCHANGED <<highest, bitmap, bits, started, seq, s>>

AcceptLate(q) ==
    /\ Late(q) /\ ~Stale(q) /\ ~Bit(q)
    /\ bitmap' = setBit(bitmap, q)
    /\ Return(q, TRUE)
    /\ UNCHANGED <<highest, bits, started, seq, s>>

-----------------------------------------------------------------------------

ValidateAndAdd(q) ==
    \/ FirstPacket(q)
    \/ JumpAhead(q)
    \/ StartClearing(q)
    \/ Reject(q)
    \/ AcceptLate(q)

Loop == ClearNext \/ FinishClearing

Next == Loop \/ \E q \in 0..MaxCallSeq : ValidateAndAdd(q)

(* A goroutine inside the loop keeps running; nobody has to call again.    *)
Spec == Init /\ [][Next]_vars /\ WF_vars(Loop)

-----------------------------------------------------------------------------
(* Properties                                                              *)

Uint == 0..MaxUint

(* Every counter stays in the counter type and every bit inside the bitmap *)
(* that New allocated.                                                     *)
TypeOK ==
    /\ highest \in Uint /\ seq \in Uint /\ s \in Uint
    /\ bits \in Nat \ {0}
    /\ bitmap \subseteq 0..(bits - 1)
    /\ started \in BOOLEAN
    /\ pc \in {"idle", "clear"}
    /\ accepted \subseteq Uint
    /\ verdict \in [seq : Uint \cup {-1}, ok : BOOLEAN]

(* Newest counter the bitmap speaks for: the loop has got as far as s - 1. *)
Front == IF pc = "clear" THEN s - 1 ELSE highest

(* Within the window the bitmap is exact: a slot is set if and only if the *)
(* counter that owns it now was accepted, whatever counters shared the     *)
(* slot before (the ring is reused every `bits' counters).                 *)
WindowExact ==
    started => \A t \in 0..Front :
                  Front - t < bits => (index(t) \in bitmap <=> t \in accepted)

(* Seen from outside, ValidateAndAdd is the abstract window: no counter is *)
(* accepted twice, none below the window, and every other one is accepted. *)
AR == INSTANCE AntiReplay WITH bits <- bits, accepted <- accepted, verdict <- verdict
ImplementsAntiReplay == AR!Spec

(* A call of ValidateAndAdd returns.                                       *)
Returns == (pc = "clear") ~> (pc = "idle")
=============================================================================
