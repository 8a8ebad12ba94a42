--------------------------- MODULE Session_proofs ---------------------------
(***************************************************************************)
(* The window of internal/replay is exact and implements AntiReplay, for   *)
(* every word size, window and counter width; and with the binding of      *)
(* header and nonce by the AEAD, Open hands out each payload once, as what *)
(* it was sealed, whatever the network makes of the records.  The one      *)
(* hypothesis is that the caller never passes the largest counter: Open    *)
(* cannot, since the Noise library refuses to decrypt with that nonce.     *)
(***************************************************************************)
EXTENDS Session, TLAPS

-----------------------------------------------------------------------------
(* Arithmetic of the ring                                                  *)

(* Division with remainder, in the form the provers need.                  *)
LEMMA DivMod ==
    ASSUME NEW a \in Nat, NEW B \in Nat \ {0}
    PROVE  /\ a = B * (a \div B) + (a % B)
           /\ a % B \in 0..(B - 1)
           /\ a \div B \in Nat
  BY SMT

(* A positive multiple of B is at least B.                                 *)
LEMMA PositiveMultiple ==
    ASSUME NEW k \in Int, NEW B \in Nat \ {0}, B * k > 0
    PROVE  B * k >= B
  <1>1. CASE k <= 0  BY <1>1, SMT
  <1>2. CASE k >= 1  BY <1>2, SMT
  <1> QED  BY <1>1, <1>2

(* Two counters less than a window apart own different slots of the ring.  *)
LEMMA DistinctSlots ==
    ASSUME NEW a \in Nat, NEW b \in Nat, NEW B \in Nat \ {0},
           a < b, b - a < B
    PROVE  a % B # b % B
  <1> SUFFICES ASSUME a % B = b % B PROVE FALSE
    OBVIOUS
  <1> DEFINE qa == a \div B
             qb == b \div B
  <1>1. a = B * qa + (a % B) /\ qa \in Nat /\ a % B \in 0..(B - 1)
    BY DivMod
  <1>2. b = B * qb + (b % B) /\ qb \in Nat /\ b % B \in 0..(B - 1)
    BY DivMod
  <1>3. B * (qb - qa) = B * qb - B * qa /\ B * qb \in Int /\ B * qa \in Int
    BY <1>1, <1>2
  <1>4. B * (qb - qa) = b - a
    BY <1>1, <1>2, <1>3
  <1>5. B * (qb - qa) >= B
    BY <1>1, <1>2, <1>4, PositiveMultiple
  <1> QED  BY <1>4, <1>5

(* New rounds up to a positive whole number of words.                      *)
LEMMA WordsPositive ==
    ASSUME NEW w \in Nat
    PROVE  Words(w) \in Nat \ {0}
  <1> DEFINE want == IF w = 0 THEN DefaultWindowBits ELSE w
             sum  == U(want + WordBits - 1)
  <1>1. want \in Nat /\ WordBits \in Nat \ {0} /\ MaxUint + 1 \in Nat \ {0}
    BY FilterAssumption
  <1>2. want + WordBits - 1 \in Nat
    BY <1>1
  <1>3. sum \in Nat
    <2> HIDE DEF want
    <2> DEFINE x == want + WordBits - 1
               m == MaxUint + 1
    <2>1. x \in Nat /\ m \in Nat \ {0}  BY <1>1, <1>2
    <2> HIDE DEF x, m
    <2>2. x % m \in 0..(m - 1)  BY <2>1, DivMod
    <2>3. x % m \in Nat  BY <2>1, <2>2
    <2> QED  BY <2>3 DEF U, x, m
  <1>4. sum \div WordBits \in Nat
    <2> HIDE DEF sum
    <2> QED  BY <1>1, <1>3, DivMod
  <1>5. Words(w) = IF sum \div WordBits = 0 THEN 1 ELSE sum \div WordBits
    BY DEF Words
  <1> HIDE DEF sum
  <1> QED  BY <1>4, <1>5

(* A product of positive naturals is one.                                  *)
LEMMA ProductPositive ==
    ASSUME NEW a \in Nat \ {0}, NEW b \in Nat \ {0}
    PROVE  a * b \in Nat \ {0}
  BY SMT

-----------------------------------------------------------------------------
(* The inductive invariant                                                 *)

(* What WindowExact leaves open: `highest' is the newest accepted counter  *)
(* and the clearing loop stays between `highest' and the counter it is     *)
(* clearing for, less than one window away.                                *)
Bounds ==
    /\ seq <= MaxCallSeq
    /\ started => highest \in accepted
    /\ ~started => accepted = {} /\ bitmap = {}
    /\ \A a \in accepted : a <= highest
    /\ pc = "clear" =>
          /\ started
          /\ highest < seq /\ seq - highest < bits
          /\ highest < s /\ s <= seq + 1

IInv == TypeOK /\ Bounds /\ WindowExact

(* Slots in the terms of the module.                                       *)
LEMMA IndexFacts ==
    ASSUME TypeOK
    PROVE  /\ \A t \in Nat : index(t) \in 0..(bits - 1)
           /\ \A t, u \in Nat : (t < u /\ u - t < bits) => index(t) # index(u)
  <1>1. bits \in Nat \ {0}  BY DEF TypeOK
  <1>2. ASSUME NEW t \in Nat PROVE index(t) \in 0..(bits - 1)
    BY <1>1, DivMod DEF index
  <1>3. ASSUME NEW t \in Nat, NEW u \in Nat, t < u, u - t < bits
        PROVE  index(t) # index(u)
    BY <1>1, <1>3, DistinctSlots DEF index
  <1> QED  BY <1>2, <1>3

LEMMA InitInv == Init => IInv
  <1> SUFFICES ASSUME Init PROVE IInv
    OBVIOUS
  <1>1. PICK w \in Windows : bits = Words(w) * WordBits
    BY DEF Init
  <1>2. bits \in Nat \ {0}
    <2>1. w \in Nat /\ WordBits \in Nat \ {0}  BY FilterAssumption
    <2>2. Words(w) \in Nat \ {0}  BY <2>1, WordsPositive
    <2> QED  BY <1>1, <2>1, <2>2, ProductPositive
  <1>3. MaxCallSeq \in Nat /\ MaxUint \in Nat
    BY FilterAssumption
  <1>4. /\ highest = 0 /\ started = FALSE /\ bitmap = {} /\ pc = "idle"
        /\ seq = 0 /\ s = 0 /\ accepted = {}
        /\ verdict = [seq |-> -1, ok |-> FALSE]
    BY DEF Init
  <1>5. TypeOK
    <2>1. verdict \in [seq : Uint \cup {-1}, ok : BOOLEAN]
      BY <1>4
    <2>2. /\ highest \in Uint /\ seq \in Uint /\ s \in Uint
      BY <1>3, <1>4 DEF Uint
    <2>3. bitmap \subseteq 0..(bits - 1) /\ accepted \subseteq Uint
      BY <1>4
    <2> QED  BY <1>2, <1>4, <2>1, <2>2, <2>3 DEF TypeOK
  <1>6. Bounds
    BY <1>3, <1>4 DEF Bounds
  <1> QED  BY <1>4, <1>5, <1>6 DEF IInv, WindowExact

-----------------------------------------------------------------------------
(* Every action preserves it                                               *)

LEMMA ReturnType ==
    ASSUME TypeOK, NEW q \in Uint, NEW ok \in BOOLEAN, Return(q, ok)
    PROVE  /\ pc' \in {"idle", "clear"}
           /\ accepted' \subseteq Uint
           /\ verdict' \in [seq : Uint \cup {-1}, ok : BOOLEAN]
  BY DEF Return, TypeOK

LEMMA CallIsUint == 0..MaxCallSeq \subseteq Uint /\ Uint \subseteq Nat
  BY FilterAssumption DEF Uint

LEMMA FirstPacketInv ==
    ASSUME IInv, NEW q \in 0..MaxCallSeq, FirstPacket(q)
    PROVE  IInv'
  <1>1. \A t \in Nat : index(t) \in 0..(bits - 1)
    BY IndexFacts DEF IInv
  <1>2. q \in Uint /\ q \in Nat
    BY CallIsUint
  <1>3. \A t, u \in Nat : (t < u /\ u - t < bits) => index(t) # index(u)
    BY IndexFacts DEF IInv
  <1>4. /\ bits' = bits /\ seq' = seq /\ s' = s /\ pc' = "idle"
        /\ highest' = q /\ started' = TRUE /\ accepted' = {q}
        /\ bitmap' = {index(q)}
    BY DEF FirstPacket, Return, setBit, IInv, Bounds
  <1>5. TypeOK'
    <2>1. Return(q, TRUE)  BY DEF FirstPacket
    <2> QED  BY <1>1, <1>2, <1>4, <2>1, ReturnType DEF IInv, TypeOK
  <1>6. Bounds'
    BY <1>2, <1>4 DEF IInv, Bounds
  <1>7. WindowExact'
    <2> SUFFICES ASSUME NEW t \in 0..q, q - t < bits
                 PROVE  (index(t) \in {index(q)}) <=> t \in {q}
      BY <1>4 DEF WindowExact, Front, index
    <2>1. CASE t = q  BY <2>1
    <2>2. CASE t # q
      <3>1. t \in Nat /\ t < q  BY <1>2, <2>2
      <3>2. index(t) # index(q)  BY <1>2, <1>3, <3>1
      <3> QED  BY <2>2, <3>2
    <2> QED  BY <2>1, <2>2
  <1> QED  BY <1>5, <1>6, <1>7 DEF IInv

LEMMA JumpAheadInv ==
    ASSUME IInv, NEW q \in 0..MaxCallSeq, JumpAhead(q)
    PROVE  IInv'
  <1>1. \A t \in Nat : index(t) \in 0..(bits - 1)
    BY IndexFacts DEF IInv
  <1>2. q \in Uint /\ q \in Nat /\ highest \in Nat /\ bits \in Nat
    BY CallIsUint DEF IInv, TypeOK
  <1>3. \A t, u \in Nat : (t < u /\ u - t < bits) => index(t) # index(u)
    BY IndexFacts DEF IInv
  <1>4. /\ bits' = bits /\ seq' = seq /\ s' = s /\ pc' = "idle" /\ started
        /\ highest' = q /\ started' = TRUE /\ accepted' = accepted \cup {q}
        /\ bitmap' = {index(q)} /\ q > highest /\ q - highest >= bits
    BY DEF JumpAhead, Return, setBit, Zeroed, IInv, TypeOK
  <1>5. TypeOK'
    <2>1. Return(q, TRUE)  BY DEF JumpAhead
    <2> QED  BY <1>1, <1>2, <1>4, <2>1, ReturnType DEF IInv, TypeOK
  <1>6. accepted \subseteq Nat /\ \A a \in accepted : a <= highest
    BY CallIsUint DEF IInv, Bounds, TypeOK
  <1>7. Bounds'
    BY <1>2, <1>4, <1>6 DEF IInv, Bounds
  <1>8. WindowExact'
    <2> SUFFICES ASSUME NEW t \in 0..q, q - t < bits
                 PROVE  (index(t) \in {index(q)}) <=> t \in accepted \cup {q}
      BY <1>4 DEF WindowExact, Front, index
    <2>1. CASE t = q  BY <2>1
    <2>2. CASE t # q
      <3>1. t \in Nat /\ t < q  BY <1>2, <2>2
      <3>2. index(t) # index(q)  BY <1>2, <1>3, <3>1
      <3>3. t > highest  BY <1>2, <1>4, <3>1
      <3>4. t \notin accepted  BY <1>2, <1>6, <3>1, <3>3
      <3> QED  BY <2>2, <3>2, <3>4
    <2> QED  BY <2>1, <2>2
  <1> QED  BY <1>5, <1>7, <1>8 DEF IInv

LEMMA StartClearingInv ==
    ASSUME IInv, MaxCallSeq < MaxUint, NEW q \in 0..MaxCallSeq, StartClearing(q)
    PROVE  IInv'
  <1>1. q \in Uint /\ q \in Nat /\ q <= MaxCallSeq /\ MaxCallSeq \in Nat
        /\ MaxUint \in Nat /\ highest \in Nat /\ bits \in Nat
    BY CallIsUint, FilterAssumption DEF IInv, TypeOK
  <1>2. /\ bits' = bits /\ seq' = q /\ pc' = "clear" /\ started /\ started' = started
        /\ highest' = highest /\ accepted' = accepted /\ bitmap' = bitmap
        /\ verdict' = verdict /\ pc = "idle"
        /\ q > highest /\ q - highest < bits
    BY DEF StartClearing, Begin
  <1>3. s' = highest + 1
    <2>1. s' = (highest + 1) % (MaxUint + 1)  BY DEF StartClearing, U
    <2>2. highest + 1 \in 0..MaxUint  BY <1>1, <1>2
    <2> QED  BY <1>1, <2>1, <2>2
  <1>4. s' \in Uint
    BY <1>1, <1>2, <1>3 DEF Uint
  <1>5. TypeOK'
    BY <1>1, <1>2, <1>4 DEF IInv, TypeOK
  <1>6. Bounds'
    BY <1>1, <1>2, <1>3 DEF IInv, Bounds
  <1>7. Front' = Front
    BY <1>1, <1>2, <1>3 DEF Front
  <1>8. WindowExact'
    BY <1>2, <1>7 DEF IInv, WindowExact, index
  <1> QED  BY <1>5, <1>6, <1>8 DEF IInv

LEMMA ClearNextInv ==
    ASSUME IInv, MaxCallSeq < MaxUint, ClearNext
    PROVE  IInv'
  <1>1. /\ MaxCallSeq \in Nat /\ MaxUint \in Nat
        /\ highest \in Nat /\ bits \in Nat /\ s \in Nat /\ seq \in Nat
    BY CallIsUint, FilterAssumption DEF IInv, TypeOK
  <1>2. /\ bits' = bits /\ seq' = seq /\ pc = "clear" /\ pc' = pc
        /\ started' = started /\ highest' = highest /\ accepted' = accepted
        /\ verdict' = verdict /\ bitmap' = bitmap \ {index(s)} /\ s <= seq
    BY DEF ClearNext, clearBit
  <1>3. /\ seq <= MaxCallSeq /\ highest < s /\ highest < seq /\ started
        /\ seq - highest < bits
    BY <1>2 DEF IInv, Bounds
  <1>4. s' = s + 1
    <2>1. s' = (s + 1) % (MaxUint + 1)  BY DEF ClearNext, Inc, U
    <2>2. s + 1 \in 0..MaxUint  BY <1>1, <1>2, <1>3
    <2> QED  BY <1>1, <2>1, <2>2
  <1>5. s' \in Uint
    BY <1>1, <1>2, <1>3, <1>4 DEF Uint
  <1>6. TypeOK'
    BY <1>2, <1>5 DEF IInv, TypeOK
  <1>7. Bounds'
    BY <1>1, <1>2, <1>3, <1>4 DEF IInv, Bounds
  <1>8. Front = s - 1 /\ Front' = s
    BY <1>1, <1>2, <1>4 DEF Front
  <1>9. WindowExact'
    <2> SUFFICES ASSUME NEW t \in 0..s, s - t < bits
                 PROVE  index(t) \in bitmap \ {index(s)} <=> t \in accepted
      BY <1>2, <1>8 DEF WindowExact, index
    <2>1. CASE t = s
      <3>1. \A a \in accepted : a <= highest  BY DEF IInv, Bounds
      <3>2. s \notin accepted  BY <1>1, <1>3, <3>1
      <3> QED  BY <2>1, <3>2
    <2>2. CASE t # s
      <3>1. t \in Nat /\ t < s /\ t \in 0..(s - 1) /\ s - 1 - t < bits
        BY <1>1, <2>2
      <3>2. index(t) # index(s)  BY <1>1, <3>1, IndexFacts DEF IInv
      <3>3. index(t) \in bitmap <=> t \in accepted
        BY <1>3, <1>8, <3>1 DEF IInv, WindowExact
      <3> QED  BY <3>2, <3>3
    <2> QED  BY <2>1, <2>2
  <1> QED  BY <1>6, <1>7, <1>9 DEF IInv

LEMMA FinishClearingInv ==
    ASSUME IInv, FinishClearing
    PROVE  IInv'
  <1>1. /\ highest \in Nat /\ bits \in Nat /\ s \in Nat
        /\ seq \in Nat /\ seq \in Uint
    BY CallIsUint DEF IInv, TypeOK
  <1>2. /\ bits' = bits /\ seq' = seq /\ s' = s /\ pc = "clear" /\ pc' = "idle"
        /\ started' = started /\ highest' = seq /\ accepted' = accepted \cup {seq}
        /\ bitmap' = bitmap \cup {index(seq)} /\ s > seq
    BY DEF FinishClearing, setBit, Return
  <1>3. /\ highest < seq /\ s <= seq + 1 /\ started /\ seq - highest < bits
        /\ \A a \in accepted : a <= highest
        /\ accepted \subseteq Nat
    BY <1>2, CallIsUint DEF IInv, Bounds, TypeOK
  <1>4. s = seq + 1 /\ Front = seq /\ Front' = seq
    BY <1>1, <1>2, <1>3 DEF Front
  <1>5. TypeOK'
    <2>1. Return(seq, TRUE)  BY DEF FinishClearing
    <2>2. index(seq) \in 0..(bits - 1)  BY <1>1, IndexFacts DEF IInv
    <2> QED  BY <1>1, <1>2, <2>1, <2>2, ReturnType DEF IInv, TypeOK
  <1>6. Bounds'
    BY <1>1, <1>2, <1>3 DEF IInv, Bounds
  <1>7. WindowExact'
    <2> SUFFICES ASSUME NEW t \in 0..seq, seq - t < bits
                 PROVE  index(t) \in bitmap \cup {index(seq)}
                          <=> t \in accepted \cup {seq}
      BY <1>2, <1>4 DEF WindowExact, index
    <2>1. CASE t = seq  BY <2>1
    <2>2. CASE t # seq
      <3>1. t \in Nat /\ t < seq  BY <1>1, <2>2
      <3>2. index(t) # index(seq)  BY <1>1, <3>1, IndexFacts DEF IInv
      <3>3. index(t) \in bitmap <=> t \in accepted
        BY <1>3, <1>4 DEF IInv, WindowExact
      <3> QED  BY <2>2, <3>2, <3>3
    <2> QED  BY <2>1, <2>2
  <1> QED  BY <1>5, <1>6, <1>7 DEF IInv

LEMMA RejectInv ==
    ASSUME IInv, NEW q \in 0..MaxCallSeq, Reject(q)
    PROVE  IInv'
  <1>1. /\ bits' = bits /\ seq' = seq /\ s' = s /\ pc = "idle" /\ pc' = "idle"
        /\ started' = started /\ highest' = highest /\ accepted' = accepted
        /\ bitmap' = bitmap
    BY DEF Reject, Return, Late, Begin
  <1>2. TypeOK'
    <2>1. Return(q, FALSE) /\ q \in Uint  BY CallIsUint DEF Reject
    <2> QED  BY <1>1, <2>1, ReturnType DEF IInv, TypeOK
  <1>3. Bounds'
    BY <1>1 DEF IInv, Bounds
  <1>4. WindowExact'
    BY <1>1 DEF IInv, WindowExact, Front, index
  <1> QED  BY <1>2, <1>3, <1>4 DEF IInv

LEMMA AcceptLateInv ==
    ASSUME IInv, NEW q \in 0..MaxCallSeq, AcceptLate(q)
    PROVE  IInv'
  <1>1. /\ highest \in Nat /\ bits \in Nat /\ q \in Nat /\ q \in Uint
    BY CallIsUint DEF IInv, TypeOK
  <1>2. /\ bits' = bits /\ seq' = seq /\ s' = s /\ pc = "idle" /\ pc' = "idle"
        /\ started' = started /\ highest' = highest /\ accepted' = accepted \cup {q}
        /\ bitmap' = bitmap \cup {index(q)} /\ started /\ q <= highest
        /\ highest - q < bits
    BY <1>1 DEF AcceptLate, setBit, Return, Late, Stale, Begin
  <1>3. TypeOK'
    <2>1. Return(q, TRUE)  BY DEF AcceptLate
    <2>2. index(q) \in 0..(bits - 1)  BY <1>1, IndexFacts DEF IInv
    <2> QED  BY <1>1, <1>2, <2>1, <2>2, ReturnType DEF IInv, TypeOK
  <1>4. Bounds'
    BY <1>2 DEF IInv, Bounds
  <1>5. WindowExact'
    <2> SUFFICES ASSUME NEW t \in 0..highest, highest - t < bits
                 PROVE  index(t) \in bitmap \cup {index(q)}
                          <=> t \in accepted \cup {q}
      BY <1>2 DEF WindowExact, Front, index
    <2>1. CASE t = q  BY <2>1
    <2>2. CASE t # q
      <3>1. t \in Nat /\ ((t < q /\ q - t < bits) \/ (q < t /\ t - q < bits))
        BY <1>1, <1>2, <2>2
      <3>2. index(t) # index(q)  BY <1>1, <3>1, IndexFacts DEF IInv
      <3>3. index(t) \in bitmap <=> t \in accepted
        BY <1>2 DEF IInv, WindowExact, Front
      <3> QED  BY <2>2, <3>2, <3>3
    <2> QED  BY <2>1, <2>2
  <1> QED  BY <1>3, <1>4, <1>5 DEF IInv

LEMMA StutterInv ==
    ASSUME IInv, UNCHANGED vars
    PROVE  IInv'
  BY DEF IInv, TypeOK, Bounds, WindowExact, Front, index, vars

LEMMA NextInv ==
    ASSUME MaxCallSeq < MaxUint, IInv, [Next]_vars
    PROVE  IInv'
  <1>1. CASE Loop
    BY <1>1, ClearNextInv, FinishClearingInv DEF Loop
  <1>2. ASSUME NEW q \in 0..MaxCallSeq, ValidateAndAdd(q)
        PROVE  IInv'
    BY <1>2, FirstPacketInv, JumpAheadInv, StartClearingInv, RejectInv,
       AcceptLateInv DEF ValidateAndAdd
  <1>3. CASE UNCHANGED vars
    BY <1>3, StutterInv
  <1> QED  BY <1>1, <1>2, <1>3 DEF Next

-----------------------------------------------------------------------------
(* The theorems                                                            *)

THEOREM Invariance ==
    ASSUME MaxCallSeq < MaxUint
    PROVE  Spec => []IInv
  <1>1. IInv /\ [Next]_vars => IInv'
    BY NextInv
  <1> QED  BY InitInv, <1>1, PTL DEF Spec

(* Counters stay in their type and bits inside the allocated bitmap.       *)
THEOREM TypeCorrect ==
    ASSUME MaxCallSeq < MaxUint
    PROVE  Spec => []TypeOK
  <1>1. IInv => TypeOK  BY DEF IInv
  <1> QED  BY Invariance, <1>1, PTL

(* Within the window the bitmap says exactly which counters were accepted. *)
THEOREM WindowCorrect ==
    ASSUME MaxCallSeq < MaxUint
    PROVE  Spec => []WindowExact
  <1>1. IInv => WindowExact  BY DEF IInv
  <1> QED  BY Invariance, <1>1, PTL

-----------------------------------------------------------------------------
(* Refinement                                                              *)

(* In a consistent state the code's two tests, against `highest' and       *)
(* against the bit, say exactly whether the abstract window is Fresh.      *)
LEMMA StaleIsTooOld ==
    ASSUME IInv, started, NEW q \in Nat
    PROVE  AR!TooOld(q) <=> highest - q >= bits
  <1>1. /\ highest \in accepted /\ accepted \subseteq Nat /\ highest \in Nat
        /\ bits \in Nat /\ \A a \in accepted : a <= highest
    BY CallIsUint DEF IInv, TypeOK, Bounds
  <1>2. ASSUME NEW a \in accepted, a - q >= bits
        PROVE  highest - q >= bits
    BY <1>1, <1>2
  <1> QED  BY <1>1, <1>2 DEF AR!TooOld

LEMMA AdvanceIsFresh ==
    ASSUME IInv, started, NEW q \in Nat, q > highest
    PROVE  AR!Fresh(q)
  <1>1. /\ accepted \subseteq Nat /\ highest \in Nat /\ bits \in Nat \ {0}
        /\ \A a \in accepted : a <= highest
    BY CallIsUint DEF IInv, TypeOK, Bounds
  <1>2. ~AR!TooOld(q)  BY <1>1, StaleIsTooOld
  <1>3. q \notin accepted  BY <1>1
  <1> QED  BY <1>2, <1>3 DEF AR!Fresh

LEMMA LateIsFresh ==
    ASSUME IInv, started, pc = "idle", NEW q \in Nat, q <= highest
    PROVE  AR!Fresh(q) <=> ~Stale(q) /\ ~Bit(q)
  <1>1. highest \in Nat /\ bits \in Nat
    BY CallIsUint DEF IInv, TypeOK
  <1>2. CASE Stale(q)
    BY <1>2, StaleIsTooOld DEF Stale, AR!Fresh
  <1>3. CASE ~Stale(q)
    <2>1. q \in 0..highest /\ highest - q < bits  BY <1>1, <1>3 DEF Stale
    <2>2. Bit(q) <=> q \in accepted
      BY <2>1 DEF Bit, IInv, WindowExact, Front
    <2>3. ~AR!TooOld(q)  BY <1>3, StaleIsTooOld DEF Stale
    <2> QED  BY <1>3, <2>2, <2>3 DEF AR!Fresh
  <1> QED  BY <1>2, <1>3

(* A call that returns is one step of the abstract window.                 *)
LEMMA ReturnIsStep ==
    ASSUME NEW q \in Nat, NEW ok \in BOOLEAN, Return(q, ok), bits' = bits,
           ok <=> AR!Fresh(q)
    PROVE  AR!Next
  <1>1. verdict' = [seq |-> q, ok |-> ok] /\ verdict'.seq = q
    BY DEF Return
  <1>2. CASE ok
    <2>1. AR!Accept(q)  BY <1>1, <1>2 DEF Return, AR!Accept
    <2> QED  BY <1>1, <2>1 DEF AR!Next
  <1>3. CASE ~ok
    <2>1. ok = FALSE  BY <1>3
    <2>2. AR!Refuse(q)  BY <1>1, <1>3, <2>1 DEF Return, AR!Refuse
    <2> QED  BY <1>1, <2>2 DEF AR!Next
  <1> QED  BY <1>2, <1>3

LEMMA StepRefines ==
    ASSUME IInv, [Next]_vars
    PROVE  [AR!Next]_(AR!vars)
  <1>1. CASE UNCHANGED vars
    BY <1>1 DEF vars, AR!vars
  <1>2. CASE ClearNext
    BY <1>2 DEF ClearNext, AR!vars
  <1>3. CASE FinishClearing
    <2>1. Return(seq, TRUE) /\ bits' = bits /\ started /\ seq > highest /\ seq \in Nat
      BY <1>3, CallIsUint DEF FinishClearing, IInv, Bounds, TypeOK
    <2>2. AR!Fresh(seq)  BY <2>1, AdvanceIsFresh
    <2> QED  BY <2>1, <2>2, ReturnIsStep
  <1>4. ASSUME NEW q \in 0..MaxCallSeq, ValidateAndAdd(q)
        PROVE  [AR!Next]_(AR!vars)
    <2>0. q \in Nat
      BY CallIsUint
    <2>1. CASE FirstPacket(q)
      <3>1. Return(q, TRUE) /\ bits' = bits /\ accepted = {}
        BY <2>1 DEF FirstPacket, IInv, Bounds
      <3>2. AR!Fresh(q)  BY <3>1 DEF AR!Fresh, AR!TooOld
      <3> QED  BY <2>0, <3>1, <3>2, ReturnIsStep
    <2>2. CASE JumpAhead(q)
      <3>1. Return(q, TRUE) /\ bits' = bits /\ started /\ q > highest
        BY <2>2 DEF JumpAhead
      <3>2. AR!Fresh(q)  BY <2>0, <3>1, AdvanceIsFresh
      <3> QED  BY <2>0, <3>1, <3>2, ReturnIsStep
    <2>3. CASE StartClearing(q)
      BY <2>3 DEF StartClearing, AR!vars
    <2>4. CASE Reject(q)
      <3>1. /\ Return(q, FALSE) /\ bits' = bits /\ started /\ pc = "idle"
            /\ q <= highest /\ (Stale(q) \/ Bit(q))
        BY <2>4 DEF Reject, Late, Begin
      <3>2. ~AR!Fresh(q)  BY <2>0, <3>1, LateIsFresh
      <3> QED  BY <2>0, <3>1, <3>2, ReturnIsStep
    <2>5. CASE AcceptLate(q)
      <3>1. /\ Return(q, TRUE) /\ bits' = bits /\ started /\ pc = "idle"
            /\ q <= highest /\ ~Stale(q) /\ ~Bit(q)
        BY <2>5 DEF AcceptLate, Late, Begin
      <3>2. AR!Fresh(q)  BY <2>0, <3>1, LateIsFresh
      <3> QED  BY <2>0, <3>1, <3>2, ReturnIsStep
    <2> QED  BY <1>4, <2>1, <2>2, <2>3, <2>4, <2>5 DEF ValidateAndAdd
  <1> QED  BY <1>1, <1>2, <1>3, <1>4 DEF Next, Loop

(* ValidateAndAdd implements the abstract anti-replay window: the bitmap   *)
(* never accepts a counter twice and never refuses one it should accept.   *)
THEOREM Refinement ==
    ASSUME MaxCallSeq < MaxUint
    PROVE  Spec => ImplementsAntiReplay
  <1>1. Init => AR!Init
    <2>1. IInv => bits \in Nat \ {0}  BY DEF IInv, TypeOK
    <2> QED  BY <2>1, InitInv DEF Init, AR!Init
  <1>2. IInv /\ [Next]_vars => [AR!Next]_(AR!vars)
    BY StepRefines
  <1> QED  BY Invariance, <1>1, <1>2, PTL DEF Spec, ImplementsAntiReplay, AR!Spec

-----------------------------------------------------------------------------
(* Seal and Open                                                           *)

(* The record in Open is one the sender made, a counter is accepted only   *)
(* after it was sealed, and `delivered' counts what the window accepted.   *)
Sound ==
    /\ sendCounter \in 0..(MaxCallSeq + 1)
    /\ \A c \in accepted : c < sendCounter
    /\ pc = "clear" => seq < sendCounter /\ opening = Sealed(seq)
    /\ delivered = [x \in (0..MaxCallSeq) \X Type |->
                       IF x[1] \in accepted /\ x[2] = TypeOf[x[1]] THEN 1 ELSE 0]

SInv == IInv /\ Sound

(* What passes the AEAD is a record as it was sealed.                      *)
LEMMA PassedIsSealed ==
    ASSUME NEW c \in 0..MaxCallSeq, NEW r \in Arrival(c), Passes(r)
    PROVE  r = Sealed(c) /\ r.hdr.counter = c
  <1>1. CASE r = [Sealed(c) EXCEPT !.key = "own"]
    BY <1>1 DEF Passes, Decrypts, Sealed
  <1>2. ASSUME NEW h \in Header, r = [Sealed(c) EXCEPT !.hdr = h]
        PROVE  r = Sealed(c) /\ r.hdr.counter = c
    <2>1. r.hdr = r.ad /\ r.ad = encodeHeader(c) /\ r.hdr = h
      BY <1>2 DEF Passes, Decrypts, Sealed
    <2>2. h = encodeHeader(c)  BY <2>1
    <2> QED  BY <1>2, <2>2 DEF Sealed, encodeHeader, header
  <1> QED  BY <1>1, <1>2 DEF Arrival

(* A call that answers true does so for a counter new to the window, and   *)
(* any other step leaves the set of accepted counters alone.               *)
Grows(q) ==
    IF pc' = "idle" /\ verdict'.ok
    THEN q \notin accepted /\ accepted' = accepted \cup {q}
    ELSE accepted' = accepted

LEMMA CallGrows ==
    ASSUME IInv, NEW q \in 0..MaxCallSeq, ValidateAndAdd(q)
    PROVE  Grows(q) /\ (pc' = "clear" => seq' = q) /\ pc' \in {"idle", "clear"}
  <1>0. q \in Nat
    BY CallIsUint
  <1>1. CASE FirstPacket(q)
    BY <1>1 DEF FirstPacket, Return, Grows, IInv, Bounds
  <1>2. CASE JumpAhead(q)
    <2>1. AR!Fresh(q)  BY <1>0, <1>2, AdvanceIsFresh DEF JumpAhead
    <2> QED  BY <1>2, <2>1 DEF JumpAhead, Return, Grows, AR!Fresh
  <1>3. CASE StartClearing(q)
    BY <1>3 DEF StartClearing, Grows
  <1>4. CASE Reject(q)
    BY <1>4 DEF Reject, Return, Grows
  <1>5. CASE AcceptLate(q)
    <2>1. AR!Fresh(q)  BY <1>0, <1>5, LateIsFresh DEF AcceptLate, Late, Begin
    <2> QED  BY <1>5, <2>1 DEF AcceptLate, Return, Grows, AR!Fresh
  <1> QED  BY <1>1, <1>2, <1>3, <1>4, <1>5 DEF ValidateAndAdd

LEMMA LoopGrows ==
    ASSUME IInv, Loop
    PROVE  Grows(seq) /\ seq' = seq /\ pc = "clear"
  <1>1. CASE ClearNext
    BY <1>1 DEF ClearNext, Grows
  <1>2. CASE FinishClearing
    <2>1. seq \in Nat /\ started /\ seq > highest
      BY <1>2, CallIsUint DEF FinishClearing, IInv, TypeOK, Bounds
    <2>2. AR!Fresh(seq)  BY <2>1, AdvanceIsFresh
    <2> QED  BY <1>2, <2>2 DEF FinishClearing, Return, Grows, AR!Fresh
  <1> QED  BY <1>1, <1>2 DEF Loop

(* One more payload is handed out when one more counter is accepted.       *)
LEMMA DeliverSound ==
    ASSUME Sound, NEW c \in 0..MaxCallSeq, c < sendCounter,
           Grows(c), Deliver(Sealed(c)), sendCounter' = sendCounter,
           pc' = "clear" => seq' = c /\ opening' = Sealed(c)
    PROVE  Sound'
  <1>1. MaxCallSeq \in Nat /\ TypeOf[c] \in Type /\ sendCounter \in 0..(MaxCallSeq + 1)
    BY FilterAssumption, SessionAssumption DEF Sound
  <1>2. Sealed(c).nonce = c /\ Sealed(c).hdr.typ = TypeOf[c]
    BY DEF Sealed, encodeHeader, header
  <1>3. (\A a \in accepted : a < sendCounter)'
    BY <1>1 DEF Sound, Grows
  <1>4. (pc = "clear" => seq < sendCounter /\ opening = Sealed(seq))'
    BY DEF Sealed, encodeHeader, header
  <1>5. delivered' = [x \in (0..MaxCallSeq) \X Type |->
                        IF x[1] \in accepted' /\ x[2] = TypeOf[x[1]] THEN 1 ELSE 0]
    <2>1. CASE pc' = "idle" /\ verdict'.ok
      <3>1. /\ delivered' = [delivered EXCEPT ![<<c, TypeOf[c]>>] = @ + 1]
            /\ accepted' = accepted \cup {c} /\ c \notin accepted
        BY <1>2, <2>1 DEF Deliver, Grows
      <3>2. delivered[<<c, TypeOf[c]>>] = 0
        BY <1>1, <3>1 DEF Sound
      <3>3. ASSUME NEW x \in (0..MaxCallSeq) \X Type
            PROVE  delivered'[x] = IF x[1] \in accepted' /\ x[2] = TypeOf[x[1]] THEN 1 ELSE 0
        <4>1. CASE x = <<c, TypeOf[c]>>
          BY <1>1, <3>1, <3>2, <4>1 DEF Sound
        <4>2. CASE x # <<c, TypeOf[c]>>
          <5>1. x[1] = c => x[2] # TypeOf[c]  BY <4>2
          <5> QED  BY <3>1, <4>2, <5>1 DEF Sound
        <4> QED  BY <4>1, <4>2
      <3>4. delivered' = [x \in (0..MaxCallSeq) \X Type |-> delivered'[x]]
        BY <3>1 DEF Sound
      <3> QED  BY <3>3, <3>4, Zenon
    <2>2. CASE ~(pc' = "idle" /\ verdict'.ok)
      BY <2>2 DEF Deliver, Grows, Sound
    <2> QED  BY <2>1, <2>2
  <1> QED  BY <1>1, <1>3, <1>4, <1>5 DEF Sound

-----------------------------------------------------------------------------

LEMMA SessionInitInv == SessionInit => SInv
  <1> SUFFICES ASSUME SessionInit PROVE SInv
    OBVIOUS
  <1>1. IInv /\ accepted = {} /\ pc = "idle" /\ MaxCallSeq \in Nat
    BY InitInv, FilterAssumption DEF SessionInit, Init
  <1> QED  BY <1>1 DEF SInv, Sound, SessionInit

LEMMA SessionNextInv == SInv /\ [SessionNext]_sessionVars => SInv'
  <1> SUFFICES ASSUME SInv, [SessionNext]_sessionVars PROVE SInv'
    OBVIOUS
  <1>0. /\ MaxCallSeq < MaxUint /\ MaxCallSeq \in Nat
        /\ sendCounter \in 0..(MaxCallSeq + 1)
    BY FilterAssumption, SessionAssumption DEF SInv, Sound
  <1>1. CASE Seal
    <2>1. IInv'  BY <1>0, <1>1, StutterInv DEF Seal, SInv
    <2>2. Sound'
      BY <1>0, <1>1, CallIsUint
      DEF Seal, SInv, Sound, IInv, TypeOK, vars, Sealed, encodeHeader, header
    <2> QED  BY <2>1, <2>2 DEF SInv
  <1>2. CASE Continue
    <2>1. IInv'  BY <1>0, <1>2, NextInv DEF Continue, Next, SInv
    <2>2. Grows(seq) /\ seq' = seq /\ pc = "clear"
      BY <1>2, LoopGrows DEF Continue, SInv
    <2>3. seq < sendCounter /\ opening = Sealed(seq) /\ seq \in 0..MaxCallSeq
      BY <2>2, CallIsUint DEF SInv, Sound, IInv, Bounds, TypeOK
    <2>4. Deliver(Sealed(seq)) /\ sendCounter' = sendCounter /\ opening' = opening
      BY <1>2, <2>3 DEF Continue
    <2>5. Sound'  BY <2>2, <2>3, <2>4, DeliverSound DEF SInv
    <2> QED  BY <2>1, <2>5 DEF SInv
  <1>3. ASSUME NEW c \in 0..(sendCounter - 1), NEW r \in Arrival(c), Open(r)
        PROVE  SInv'
    <2>1. c \in 0..MaxCallSeq /\ c < sendCounter
      BY <1>0
    <2>2. r = Sealed(c) /\ r.hdr.counter = c
      BY <1>3, <2>1, PassedIsSealed DEF Open
    <2>3. /\ ValidateAndAdd(c) /\ Deliver(Sealed(c))
          /\ opening' = Sealed(c) /\ sendCounter' = sendCounter
      BY <1>3, <2>2 DEF Open
    <2>4. IInv'  BY <1>0, <2>1, <2>3, NextInv DEF Next, SInv
    <2>5. Sound'
      BY <2>1, <2>3, CallGrows, DeliverSound DEF SInv
    <2> QED  BY <2>4, <2>5 DEF SInv
  <1>4. CASE UNCHANGED sessionVars
    <2>1. IInv'  BY <1>4, StutterInv DEF sessionVars, SInv
    <2>2. Sound'
      BY <1>4 DEF sessionVars, vars, SInv, Sound, Sealed, encodeHeader, header
    <2> QED  BY <2>1, <2>2 DEF SInv
  <1>5. ASSUME NEW c \in 0..(sendCounter - 1), NEW r \in Arrival(c), Refuse(r)
        PROVE  SInv'
    BY <1>4, <1>5 DEF Refuse
  <1>6. CASE \E c \in 0..(sendCounter - 1) : \E r \in Arrival(c) : Open(r) \/ Refuse(r)
    <2>1. PICK c \in 0..(sendCounter - 1) : \E r \in Arrival(c) : Open(r) \/ Refuse(r)
      BY <1>6
    <2>2. PICK r \in Arrival(c) : Open(r) \/ Refuse(r)
      BY <2>1
    <2> QED  BY <2>2, <1>3, <1>5
  <1> QED  BY <1>1, <1>2, <1>4, <1>6 DEF SessionNext

(* The filter inside Open is correct and no record opens that was not      *)
(* sealed: the strengthening of the two properties below.                  *)
THEOREM SessionInvariance == SessionSpec => []SInv
  BY SessionInitInv, SessionNextInv, PTL DEF SessionSpec

(* However records are altered, repeated, reordered and reflected, Open    *)
(* returns a payload at most once and as the type it was sealed.           *)
THEOREM EachOnce == SessionSpec => []DeliveredAsSealed
  <1>1. SInv => DeliveredAsSealed
    <2> SUFFICES ASSUME SInv, NEW c \in 0..MaxCallSeq, NEW t \in Type
                 PROVE  delivered[<<c, t>>] <= IF c < sendCounter /\ t = TypeOf[c] THEN 1 ELSE 0
      BY DEF DeliveredAsSealed
    <2>1. delivered[<<c, t>>] = IF c \in accepted /\ t = TypeOf[c] THEN 1 ELSE 0
      BY DEF SInv, Sound
    <2>2. c \in accepted => c < sendCounter
      BY DEF SInv, Sound
    <2> QED  BY <2>1, <2>2
  <1> QED  BY SessionInvariance, <1>1, PTL

(* The window never passes the newest record sealed.                       *)
THEOREM WindowBehindSender == SessionSpec => []SenderAhead
  <1>1. SInv => SenderAhead
    BY DEF SInv, Sound, SenderAhead, IInv, Bounds
  <1> QED  BY SessionInvariance, <1>1, PTL

(* Open's calls are a behaviour of the filter alone.                       *)
THEOREM OpenRefines == SessionSpec => ImplementsAntiReplay
  <1>1. SessionInit => AR!Init
    <2>1. IInv => bits \in Nat \ {0}  BY DEF IInv, TypeOK
    <2> QED  BY <2>1, InitInv DEF SessionInit, Init, AR!Init
  <1>2. SInv /\ [SessionNext]_sessionVars => [AR!Next]_(AR!vars)
    <2> SUFFICES ASSUME SInv, [SessionNext]_sessionVars PROVE [AR!Next]_(AR!vars)
      OBVIOUS
    <2>1. CASE Seal \/ UNCHANGED sessionVars
      BY <2>1 DEF Seal, sessionVars, vars, AR!vars
    <2>2. CASE Continue
      BY <2>2, StepRefines DEF Continue, Next, SInv
    <2>3. ASSUME NEW c \in 0..(sendCounter - 1), NEW r \in Arrival(c), Open(r)
          PROVE  [AR!Next]_(AR!vars)
      <3>1. c \in 0..MaxCallSeq
        BY FilterAssumption DEF SInv, Sound
      <3>2. ValidateAndAdd(c)
        BY <2>3, <3>1, PassedIsSealed DEF Open
      <3> QED  BY <3>1, <3>2, StepRefines DEF Next, SInv
    <2> QED  BY <2>1, <2>2, <2>3 DEF SessionNext, Refuse, sessionVars, vars, AR!vars
  <1> QED  BY SessionInvariance, <1>1, <1>2, PTL DEF SessionSpec, ImplementsAntiReplay, AR!Spec
=============================================================================
