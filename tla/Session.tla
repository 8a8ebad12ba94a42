------------------------------ MODULE Session -------------------------------
(***************************************************************************)
(* internal/session: transport records, from Seal of one side to Open of   *)
(* the other.                                                              *)
(*                                                                         *)
(* A record is its header and what the AEAD made of it: the key, the nonce *)
(* and the header it was sealed with, and the payload, which is called by  *)
(* the number of the Seal that took it.  The network may lose, repeat,     *)
(* reorder and alter records, and send a side its own ones back: every     *)
(* record that can be made from those sealed so far may arrive.  Open      *)
(* calls ValidateAndAdd, whose clearing loop takes several steps.          *)
(***************************************************************************)
EXTENDS ReplayFilter

CONSTANTS Type,          \* of records
          TypeOf,        \* what the sender seals: a type for each number
          Index,         \* session ids
          localIndex     \* the one the receiver gave its session

ASSUME SessionAssumption ==
    /\ TypeOf \in [0..MaxCallSeq -> Type]
    /\ localIndex \in Index
    /\ MaxCallSeq < MaxUint          \* Noise never uses the last nonce

VARIABLES sendCounter,   \* of the sender
          opening,       \* the record whose call of ValidateAndAdd is in progress
          delivered      \* history: how often Open returned a payload as a type

sessionVars == <<vars, sendCounter, opening, delivered>>

header(t, id, c) == [typ |-> t, sessionID |-> id, counter |-> c]
Header == {header(t, id, c) : t \in Type, id \in Index, c \in 0..MaxUint}

(* What Seal returns for its c-th payload.                                 *)
encodeHeader(c) == header(TypeOf[c], localIndex, c)
Sealed(c) == [hdr |-> encodeHeader(c), key |-> "peer", nonce |-> c, ad |-> encodeHeader(c)]

SessionInit ==
    /\ Init
    /\ sendCounter = 0
    /\ opening = Sealed(0)
    /\ delivered = [x \in (0..MaxCallSeq) \X Type |-> 0]

Seal ==
    /\ sendCounter <= MaxCallSeq
    /\ sendCounter' = sendCounter + 1
    /\ UNCHANGED <<vars, opening, delivered>>

(* A record as it arrives: whole, with another header, or reflected.       *)
Arrival(c) == {[Sealed(c) EXCEPT !.hdr = h] : h \in Header} \cup {[Sealed(c) EXCEPT !.key = "own"]}

-----------------------------------------------------------------------------
(* Open                                                                    *)

Decrypts_NoAD(r) == r.key = "peer" /\ r.nonce = r.hdr.counter    \* mutant
Decrypts(r) == r.key = "peer" /\ r.nonce = r.hdr.counter /\ r.ad = r.hdr

Passes_Replay(r) == r.hdr.sessionID = localIndex                 \* mutant
Passes(r) == r.hdr.sessionID = localIndex /\ Decrypts(r)

(* A call that returns true ends Open with the payload and the type.       *)
Deliver(r) ==
    delivered' = IF pc' = "idle" /\ verdict'.ok
                 THEN [delivered EXCEPT ![<<r.nonce, r.hdr.typ>>] = @ + 1]
                 ELSE delivered

Open(r) ==
    /\ Passes(r) /\ r.hdr.counter <= MaxCallSeq
    /\ ValidateAndAdd(r.hdr.counter)
    /\ Deliver(r) /\ opening' = r
    /\ UNCHANGED sendCounter

Refuse(r) ==             \* foreign id or ErrAuth
    /\ pc = "idle" /\ ~Passes(r)
    /\ UNCHANGED sessionVars

Continue ==
    /\ Loop /\ Deliver(opening)
    /\ UNCHANGED <<sendCounter, opening>>

SessionNext ==
    \/ Seal \/ Continue
    \/ \E c \in 0..(sendCounter - 1) : \E r \in Arrival(c) : Open(r) \/ Refuse(r)

SessionSpec == SessionInit /\ [][SessionNext]_sessionVars /\ WF_sessionVars(Continue)

-----------------------------------------------------------------------------
(* Properties                                                              *)

(* Nothing but the sender moves the window: it never passes the last       *)
(* record sealed, whatever headers arrive.                                 *)
SenderAhead == started => highest < sendCounter

(* Open returns each payload at most once, and as the type it was sealed.  *)
DeliveredAsSealed ==
    \A c \in 0..MaxCallSeq, t \in Type :
        delivered[<<c, t>>] <= IF c < sendCounter /\ t = TypeOf[c] THEN 1 ELSE 0
=============================================================================
