----------------------------- MODULE Elligator2 -----------------------------
(***************************************************************************)
(* internal/crypto/ell2.go: ephemeral keys that look like random bytes.    *)
(*                                                                         *)
(* The field is the integers modulo a prime, a small one in the run.  A    *)
(* prime and a curve that meet EllAssumption have everything the code      *)
(* relies on in Curve25519: 2 is not a square, -1 is one, the Edwards and  *)
(* the Montgomery form are equivalent, and the group is cyclic of eight    *)
(* times a prime order.  An encoded element is the number itself; bytes    *)
(* are cut off, and the two bits above the representative are Top and      *)
(* 2 * Top.                                                                *)
(***************************************************************************)
EXTENDS Integers, FiniteSets

CONSTANTS fieldP,        \* 2^255 - 19 in the code
          feA,           \* 486662
          Top            \* 2^254: a representative has the bits below

Field == 0..(fieldP - 1)
fe(x) == x % fieldP
Invert(x) == IF x = 0 THEN 0 ELSE CHOOSE y \in Field : fe(x * y) = 1
Square(x) == \E r \in Field : fe(r * r) = x
Root(x) == CHOOSE r \in Field : fe(r * r) = x /\ r % 2 = 0

SqrtRatio(u, v) ==       \* the even root of u/v, if there is one
    LET x == fe(u * Invert(v))
    IN  IF v # 0 /\ Square(x) THEN [root |-> Root(x), isSquare |-> TRUE]
                              ELSE [root |-> 0, isSquare |-> FALSE]

(* Points of -x^2 + y^2 = 1 + d x^2 y^2 and their group.                   *)
feD == fe(-(feA - 2) * Invert(fe(feA + 2)))
Point == {P \in Field \X Field : fe(P[2]*P[2] - P[1]*P[1] - 1 - feD * fe(P[1]*P[1]*P[2]*P[2])) = 0}
Identity == <<0, 1>>
Add(P, Q) ==
    LET x == fe(P[1]*Q[2] + P[2]*Q[1])
        y == fe(P[2]*Q[2] + P[1]*Q[1])
        e == fe(feD * fe(P[1]*Q[1]*P[2]*Q[2]))
    IN  <<fe(x * Invert(fe(1 + e))), fe(y * Invert(fe(1 - e)))>>
Times(n, P) ==
    LET mult[k \in 0..n] == IF k = 0 THEN Identity
                            ELSE LET h == mult[k \div 2]
                                 IN  Add(Add(h, h), IF k % 2 = 1 THEN P ELSE Identity)
    IN  mult[n]
MontgomeryU(P) == fe((1 + P[2]) * Invert(fe(1 - P[2])))

order == Cardinality(Point) \div 8
B == LET q == order IN CHOOSE P \in Point \ {Identity} : Times(q, P) = Identity

ASSUME EllAssumption ==
    /\ fieldP \in Nat /\ fieldP % 8 = 5 /\ \A x \in 2..(fieldP - 1) : fieldP % x # 0
    /\ feA \in 3..(fieldP - 3) /\ Square(fieldP - 1) /\ ~Square(2)
    /\ Top \in Nat /\ Top < fieldP /\ fieldP <= 2 * Top
    /\ Square(fe(-(feA + 2))) /\ ~Square(fe(feA * feA - 4))
    /\ Cardinality(Point) = 8 * order
    /\ order > 2 /\ \A x \in 2..(order - 1) : order % x # 0
    /\ \E P \in Point \ {Identity} : Times(order, P) = Identity
    /\ \E x, r \in Field : fe(r * r) = fe(feD + 1) /\ fe(feD * fe(x * x)) = fe(r + 1)

-----------------------------------------------------------------------------
(* The dirty public key                                                    *)

feSqrtM1 == Root(fieldP - 1)
feLopX ==                \* sqrt((sqrt(d+1)+1)/d)
    CHOOSE x \in Field : /\ x % 2 = 0
                         /\ \E r \in Field : fe(r * r) = fe(feD + 1) /\ fe(feD * fe(x * x)) = fe(r + 1)
feLopY == fe(-feLopX * feSqrtM1)

Bit(n, weight) == (n \div weight) % 2
Select(a, b, cond) == IF cond = 1 THEN a ELSE b

selectLowOrderPoint(x, k, cofactor) ==
    LET out == Select(x, Select(k, 0, Bit(cofactor, 2)), Bit(cofactor, 1))
    IN  Select(fe(-out), out, Bit(cofactor, 4))

(* Clamping clears the low three bits and sets the highest: what is left,  *)
(* up to sign, is every multiple of B but the identity.                    *)
PrivateKey == (8 * ((order + 1) \div 2))..(8 * order - 1)
Clamp_None(n) == n                                              \* mutant
Clamp(n) == n - (n % 8)

(* The bits that clamping drops choose the point of low order.             *)
LowPoint_Clamped(n) == Identity                                  \* mutant
LowPoint(n) == <<selectLowOrderPoint(feLopX, feSqrtM1, n), selectLowOrderPoint(feLopY, 1, n + 2)>>

scalarBaseMultDirty(n) == MontgomeryU(Add(Times(Clamp(n), B), LowPoint(n)))

-----------------------------------------------------------------------------
(* Representatives                                                         *)

Tweak == 0..7            \* the branch and the two bits of padding

Positive_Any(r) == r                                             \* mutant
Positive(r) == Select(fe(-r), r, Bit(fe(2 * r), 1))

uToRepresentative(u, tweak) ==
    LET t2 == fe(u + feA)
        s  == SqrtRatio(1, fe(-2 * fe(u * t2)))
        r  == Positive(fe(Select(t2, u, Bit(tweak, 1)) * s.root))
    IN  [ok |-> s.isSquare, repr |-> r + Top * (tweak \div 2)]

(* The library's map, and the code around it that drops the padding.       *)
MontgomeryFlavor(r) ==
    LET w == fe(-feA * Invert(fe(1 + 2 * r * r)))
    IN  IF Square(fe(w * fe(w * w + feA * w + 1))) THEN w ELSE fe(-w - feA)

RepresentativeToPublic(repr) == MontgomeryFlavor(repr % Top)

scalarBaseMult(n, tweak) ==
    LET u == scalarBaseMultDirty(n)
        e == uToRepresentative(u, tweak)
    IN  [ok |-> e.ok, private |-> n, tweak |-> tweak, public |-> u, representative |-> e.repr]

(* GenerateKeypair draws until a key has a representative.                 *)
GenerateKeypair ==
    {k \in {scalarBaseMult(n, tweak) : n \in PrivateKey, tweak \in Tweak} : k.ok}

Lift(u) == CHOOSE P \in Point : MontgomeryU(P) = u
DH(n, u) == MontgomeryU(Times(Clamp(n), Lift(u)))

-----------------------------------------------------------------------------

(* Whoever receives a representative gets the key it was made of, whatever *)
(* the padding.                                                            *)
RoundTrip ==
    \A k \in GenerateKeypair : RepresentativeToPublic(k.representative) = k.public

(* Two parties agree, and the point of low order in the public keys does   *)
(* not reach the secret: it is the one of plain X25519.                    *)
Agree ==
    LET drawn == {<<k.private, k.public>> : k \in GenerateKeypair} IN
    \A k, l \in drawn :
        LET secret == DH(k[1], l[2]) IN
        /\ secret = DH(l[1], k[2])
        /\ secret = DH(k[1], MontgomeryU(Times(Clamp(l[1]), B)))

(* Every value on the wire, but zero and those that stand for a point of   *)
(* low order, comes from exactly one draw: all are equally likely.         *)
LowOrder == {MontgomeryU(P) : P \in {Q \in Point : Times(8, Q) = Identity}}
Uniform ==
    LET drawn == GenerateKeypair IN
    \A r \in 1..((fieldP - 1) \div 2) : MontgomeryFlavor(r) \notin LowOrder =>
        \A pad \in 0..3 : Cardinality({k \in drawn : k.representative = r + Top * pad}) = 1
=============================================================================
