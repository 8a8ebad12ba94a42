----------------------- MODULE RealityListener_proofs -----------------------
(***************************************************************************)
(* Proofs about RealityAuth and RealityListener for every window, clock    *)
(* skew, delay and number of tokens, connections and ClientHellos: what    *)
(* the replay cache promises; that the listener, seen from the cache, is   *)
(* nothing but RealityAuth, so that a token opens one tunnel; and that     *)
(* whoever gets a stream gets it unaltered.                                *)
(***************************************************************************)
EXTENDS RealityListener, WellFoundedInduction, TLAPS

-----------------------------------------------------------------------------
(* The cache                                                               *)
(*                                                                         *)
(* The argument for AcceptedOnce: a token is dated at most Early after the *)
(* reading of the clock that accepts it.  Its entry is removed by a        *)
(* goroutine whose reading is more than two windows past that one, hence   *)
(* when ts < now - 2W + Early.  Whoever looks the token up later read the  *)
(* clock at most MaxDelay ago, and with MaxDelay + Early <= W that reading *)
(* is already outside of the window of the token.                          *)

LEMMA Bounds == /\ authWindow \in Nat /\ Skew \in Nat /\ MaxTime \in Nat
                /\ MaxDelay \in Nat /\ Unmade \in Int
  BY AuthAssumption DEF AuthAssumption, Unmade

(* The values of the variables are always of the right sort, and the cache *)
(* holds only tokens that were made, dated no later than the clock.        *)
THEOREM TypeCorrect == AuthSpec => []AuthTypeOK
<1> USE Bounds
<1>1. AuthInit => AuthTypeOK
  BY DEF AuthInit, AuthTypeOK
<1>2. AuthTypeOK /\ [AuthNext]_authVars => AuthTypeOK'
  <2> SUFFICES ASSUME AuthTypeOK, [AuthNext]_authVars
               PROVE  AuthTypeOK'
    OBVIOUS
  <2>1. CASE UNCHANGED authVars
    BY <2>1 DEF AuthTypeOK, authVars, Made
  <2>2. ASSUME NEW k \in Token, makeAuthSessionID(k)
        PROVE  AuthTypeOK'
    <3>1. PICK d \in -Skew..Skew : ts' = [ts EXCEPT ![k] = now + d]
      BY <2>2 DEF makeAuthSessionID
    <3>2. now + d # Unmade /\ now + d \in Int
      BY <3>1 DEF AuthTypeOK, Unmade
    <3>3. ts' \in [Token -> Int] /\ Made \subseteq Made'
      BY <3>1, <3>2 DEF AuthTypeOK, Made
    <3>4. QED
      BY <2>2, <3>3 DEF AuthTypeOK, makeAuthSessionID
  <2>3. ASSUME NEW c \in Conn, NEW k \in Token, verify(c, k)
        PROVE  AuthTypeOK'
    <3>1. now \in 0..now
      BY DEF AuthTypeOK
    <3>2. QED
      BY <2>3, <3>1 DEF AuthTypeOK, verify, Made
  <2>4. ASSUME NEW p \in pending, checkAndAdd(p)
        PROVE  AuthTypeOK'
    <3>1. p.tok \in Made /\ p.tok \in Token /\ p.at \in 0..now
      BY DEF AuthTypeOK, Made
    <3>2. seen' \subseteq seen \cup {[tok |-> p.tok, at |-> p.at]}
      BY <2>4 DEF checkAndAdd, Entry, Fresh
    <3>3. taken' \in [Token -> Nat] /\ pending' \subseteq pending
      BY <2>4, <3>1 DEF checkAndAdd, AuthTypeOK
    <3>4. UNCHANGED <<now, ts, Made>>
      BY <2>4 DEF checkAndAdd, Made
    <3>5. QED
      BY <3>1, <3>2, <3>3, <3>4 DEF AuthTypeOK
  <2>5. CASE Tick
    <3>1. now' \in 0..MaxTime /\ 0..now \subseteq 0..now'
      BY <2>5 DEF AuthTypeOK, Tick
    <3>2. QED
      BY <2>5, <3>1 DEF AuthTypeOK, Tick, Made
  <2>6. QED
    BY <2>1, <2>2, <2>3, <2>4, <2>5 DEF AuthNext
<1>3. QED
  BY <1>1, <1>2, PTL DEF AuthSpec

-----------------------------------------------------------------------------
(* The cache                                                               *)

Unique == \A e, f \in seen : e.tok = f.tok => e = f

LEMMA Lookup ==
  ASSUME AuthTypeOK, Unique, NEW p \in pending, checkAndAdd(p)
  PROVE  /\ Unique'
         /\ \A e \in seen' : e.at >= p.at - 2 * authWindow
<1> USE Bounds
<1>1. p.at \in Int
  BY DEF AuthTypeOK
<1>2. Fresh(p.at) \subseteq seen /\ \A e \in Fresh(p.at) : e.at >= p.at - 2 * authWindow
  <2>1. \A e \in seen : e.at \in Int
    BY DEF AuthTypeOK
  <2>2. QED
    BY <1>1, <2>1 DEF Fresh, Expired
<1>3. CASE ~Accepts(p)
  <2>1. seen' = Fresh(p.at)
    BY <1>3 DEF checkAndAdd
  <2>2. QED
    BY <2>1, <1>2 DEF Unique
<1>4. CASE Accepts(p)
  <2>1. seen' = Fresh(p.at) \cup {[tok |-> p.tok, at |-> p.at]}
    BY <1>4 DEF checkAndAdd, Entry
  <2>2. \A e \in Fresh(p.at) : e.tok # p.tok
    BY <1>4 DEF Accepts
  <2>3. Unique'
    BY <2>1, <2>2, <1>2 DEF Unique
  <2>4. \A e \in seen' : e.at >= p.at - 2 * authWindow
    BY <2>1, <1>1, <1>2
  <2>5. QED
    BY <2>3, <2>4
<1>5. QED
  BY <1>3, <1>4

(* Every lookup leaves behind only entries of the last two windows, one    *)
(* for each token, also when goroutines overlap.                           *)
THEOREM CacheIsBounded == AuthSpec => CacheBounded
<1>1. AuthInit => Unique
  BY DEF AuthInit, Unique
<1>2. AuthTypeOK /\ Unique /\ [AuthNext]_authVars => Unique'
  <2> SUFFICES ASSUME AuthTypeOK, Unique, [AuthNext]_authVars
               PROVE  Unique'
    OBVIOUS
  <2>1. ASSUME NEW p \in pending, checkAndAdd(p)
        PROVE  Unique'
    BY <2>1, Lookup
  <2>2. CASE UNCHANGED seen
    BY <2>2 DEF Unique
  <2>3. QED
    BY <2>1, <2>2 DEF AuthNext, authVars, makeAuthSessionID, verify, Tick
<1>3. AuthTypeOK /\ Unique /\ [AuthNext]_authVars =>
        [\A p \in pending : checkAndAdd(p) =>
            \A e \in seen' : /\ e.at >= p.at - 2 * authWindow
                             /\ \A f \in seen' : e.tok = f.tok => e = f]_authVars
  <2> SUFFICES ASSUME AuthTypeOK, Unique, NEW p \in pending, checkAndAdd(p)
               PROVE  \A e \in seen' : /\ e.at >= p.at - 2 * authWindow
                                       /\ \A f \in seen' : e.tok = f.tok => e = f
    OBVIOUS
  <2>1. Unique' /\ \A e \in seen' : e.at >= p.at - 2 * authWindow
    BY Lookup
  <2>2. QED
    BY <2>1 DEF Unique
<1>4. QED
  BY <1>1, <1>2, <1>3, TypeCorrect, PTL DEF AuthSpec, CacheBounded

-----------------------------------------------------------------------------
(* Replay                                                                  *)

(* How far ahead of the clock an accepted token can be dated.              *)
Early == IF Skew < authWindow THEN Skew ELSE authWindow

InvMade == \A k \in Made : ts[k] <= now + Skew

InvPending ==
    \A p \in pending : /\ now <= p.at + MaxDelay
                       /\ p.at - authWindow <= ts[p.tok]
                       /\ ts[p.tok] <= p.at + Early

InvEntries == \A e \in seen : ts[e.tok] <= e.at + Early

Remembered(k) == \/ \E e \in seen : e.tok = k
                 \/ ts[k] < now - 2 * authWindow + Early

InvTaken ==
    \A k \in Token : taken[k] # 0 => taken[k] = 1 /\ k \in Made /\ Remembered(k)

Inv == InvMade /\ InvPending /\ InvEntries /\ InvTaken

LEMMA EarlyBound == Early \in Nat /\ Early <= Skew /\ Early <= authWindow
  BY Bounds DEF Early

(* An entry that a lookup purges is of a token too old for everybody.      *)
LEMMA Purged ==
  ASSUME AuthTypeOK, Inv, NEW p \in pending, NEW e \in seen, e \notin Fresh(p.at)
  PROVE  ts[e.tok] < now - 2 * authWindow + Early
<1>1. e.at < p.at - 2 * authWindow
  BY DEF Fresh, Expired
<1>2. ts[e.tok] <= e.at + Early
  BY DEF Inv, InvEntries
<1>3. e.at \in Int /\ ts[e.tok] \in Int /\ p.at \in Int /\ p.at <= now /\ now \in Int
  BY DEF AuthTypeOK, Made
<1>4. QED
  BY <1>1, <1>2, <1>3, Bounds, EarlyBound

LEMMA Step ==
  ASSUME MaxDelay + Early <= authWindow, AuthTypeOK, Inv, [AuthNext]_authVars
  PROVE  Inv'
<1> USE Bounds, EarlyBound
<1>1. CASE UNCHANGED authVars
  BY <1>1 DEF authVars, Inv, InvMade, InvPending, InvEntries, InvTaken, Remembered, Made
<1>2. ASSUME NEW k \in Token, makeAuthSessionID(k)
      PROVE  Inv'
  <2>1. PICK d \in -Skew..Skew : ts' = [ts EXCEPT ![k] = now + d]
    BY <1>2 DEF makeAuthSessionID
  <2>2. k \notin Made /\ \A j \in Made : ts'[j] = ts[j]
    BY <1>2, <2>1 DEF makeAuthSessionID, Made, AuthTypeOK
  <2>3. Made \subseteq Made' /\ Made' \subseteq Made \cup {k}
    BY <2>1, <2>2 DEF Made, AuthTypeOK
  <2>4. UNCHANGED <<now, pending, seen, taken>>
    BY <1>2 DEF makeAuthSessionID
  <2>5. InvMade'
    <3>1. ts'[k] <= now + Skew
      BY <2>1 DEF AuthTypeOK
    <3>2. QED
      BY <2>2, <2>3, <2>4, <3>1 DEF Inv, InvMade
  <2>6. InvPending' /\ InvEntries'
    BY <2>2, <2>4 DEF Inv, InvPending, InvEntries, AuthTypeOK
  <2>7. InvTaken'
    BY <2>2, <2>3, <2>4 DEF Inv, InvTaken, Remembered
  <2>8. QED
    BY <2>5, <2>6, <2>7 DEF Inv
<1>3. ASSUME NEW c \in Conn, NEW k \in Token, verify(c, k)
      PROVE  Inv'
  <2>1. /\ UNCHANGED <<now, ts, seen, taken>> /\ k \in Made
        /\ now - authWindow <= ts[k] /\ ts[k] <= now + authWindow
        /\ pending' = pending \cup {[conn |-> c, tok |-> k, at |-> now]}
    BY <1>3 DEF verify, InWindow
  <2>2. ts[k] <= now + Early /\ now <= now + MaxDelay
    BY <2>1 DEF Inv, InvMade, Early, AuthTypeOK
  <2>3. InvPending'
    BY <2>1, <2>2 DEF Inv, InvPending
  <2>4. InvMade' /\ InvEntries' /\ InvTaken'
    BY <2>1 DEF Inv, InvMade, InvEntries, InvTaken, Remembered, Made
  <2>5. QED
    BY <2>3, <2>4 DEF Inv
<1>4. ASSUME NEW p \in pending, checkAndAdd(p)
      PROVE  Inv'
  <2> DEFINE k == p.tok
  <2>1. /\ k \in Token /\ k \in Made /\ p.at \in Int /\ p.at <= now /\ now \in Int
        /\ ts[k] \in Int
    BY DEF AuthTypeOK, Made
  <2>2. UNCHANGED <<now, ts, Made>> /\ pending' \subseteq pending
    BY <1>4 DEF checkAndAdd, Made
  <2>3. InvMade' /\ InvPending'
    BY <2>2 DEF Inv, InvMade, InvPending
  <2>4. \A j \in Made : Remembered(j) =>
            \/ \E e \in Fresh(p.at) : e.tok = j
            \/ ts[j] < now - 2 * authWindow + Early
    BY Purged DEF Remembered
  <2>5. Fresh(p.at) \subseteq seen
    BY DEF Fresh
  <2>6. CASE ~Accepts(p)
    <3>1. seen' = Fresh(p.at) /\ taken' = taken
      BY <2>6, <1>4 DEF checkAndAdd
    <3>2. InvEntries'
      BY <3>1, <2>2, <2>5 DEF Inv, InvEntries
    <3>3. InvTaken'
      BY <3>1, <2>2, <2>4 DEF Inv, InvTaken, Remembered
    <3>4. QED
      BY <2>3, <3>2, <3>3 DEF Inv
  <2>7. CASE Accepts(p)
    <3>1. /\ seen' = Fresh(p.at) \cup {[tok |-> k, at |-> p.at]}
          /\ taken' = [taken EXCEPT ![k] = @ + 1]
      BY <2>7, <1>4 DEF checkAndAdd, Entry
    <3>2. InvEntries'
      <4>1. ts[k] <= p.at + Early
        BY DEF Inv, InvPending
      <4>2. QED
        BY <3>1, <4>1, <2>2, <2>5 DEF Inv, InvEntries
    <3>3. taken[k] = 0
      <4>1. now <= p.at + MaxDelay /\ p.at - authWindow <= ts[k]
        BY DEF Inv, InvPending
      <4>2. ~(ts[k] < now - 2 * authWindow + Early)
        BY <4>1, <2>1
      <4>3. \A e \in Fresh(p.at) : e.tok # k
        BY <2>7 DEF Accepts
      <4>4. QED
        BY <4>2, <4>3, <2>1, <2>4 DEF Inv, InvTaken
    <3>4. taken'[k] = 1 /\ \A j \in Token : j # k => taken'[j] = taken[j]
      BY <3>1, <3>3, <2>1 DEF AuthTypeOK
    <3>5. \A j \in Token : j = k => Remembered(j)'
      <4>1. [tok |-> k, at |-> p.at] \in seen' /\ [tok |-> k, at |-> p.at].tok = k
        BY <3>1
      <4>2. QED
        BY <4>1 DEF Remembered
    <3>6. InvTaken'
      BY <3>1, <3>4, <3>5, <2>1, <2>2, <2>4 DEF Inv, InvTaken, Remembered
    <3>7. QED
      BY <2>3, <3>2, <3>6 DEF Inv
  <2>8. QED
    BY <2>6, <2>7
<1>5. CASE Tick
  <2>1. /\ now' = now + 1 /\ now \in Int
        /\ UNCHANGED <<ts, pending, seen, taken>>
        /\ \A p \in pending : now < p.at + MaxDelay
    BY <1>5 DEF Tick, AuthTypeOK
  <2>2. InvMade' /\ InvEntries'
    BY <2>1 DEF Inv, InvMade, InvEntries, Made, AuthTypeOK
  <2>3. InvPending'
    BY <2>1 DEF Inv, InvPending, AuthTypeOK
  <2>4. \A k \in Token : ts[k] < now - 2 * authWindow + Early
                         => ts[k] < now' - 2 * authWindow + Early
    BY <2>1 DEF AuthTypeOK
  <2>5. InvTaken'
    BY <2>1, <2>4 DEF Inv, InvTaken, Remembered, Made
  <2>6. QED
    BY <2>2, <2>3, <2>5 DEF Inv
<1>6. QED
  BY <1>1, <1>2, <1>3, <1>4, <1>5 DEF AuthNext

(* No token is accepted twice, however often it arrives and however the    *)
(* goroutines overlap, as long as none is held up between its reading of   *)
(* the clock and its lookup for longer than the window less the clock      *)
(* error of the clients.                                                   *)
THEOREM NoReplay ==
  ASSUME MaxDelay + Early <= authWindow
  PROVE  AuthSpec => []AcceptedOnce
<1>1. AuthInit => Inv
  BY DEF AuthInit, Inv, InvMade, InvPending, InvEntries, InvTaken, Made
<1>2. AuthTypeOK /\ Inv /\ [AuthNext]_authVars => Inv'
  BY Step
<1>3. AuthTypeOK /\ Inv => AcceptedOnce
  <2> SUFFICES ASSUME AuthTypeOK, Inv, NEW k \in Token
               PROVE  taken[k] <= 1
    BY DEF AcceptedOnce
  <2>1. taken[k] \in Nat /\ (taken[k] = 0 \/ taken[k] = 1)
    BY DEF AuthTypeOK, Inv, InvTaken
  <2>2. QED
    BY <2>1
<1>4. QED
  BY <1>1, <1>2, <1>3, TypeCorrect, PTL DEF AuthSpec

-----------------------------------------------------------------------------
(* The listener and the cache                                              *)

(* Every step of the listener is one step of the authentication, or does   *)
(* not touch it.                                                           *)
LEMMA AuthStep == [Next]_vars => [AuthNext]_authVars
<1> SUFFICES ASSUME [Next]_vars
             PROVE  AuthNext \/ UNCHANGED authVars
  BY DEF authVars
<1>1. CASE UNCHANGED vars
  BY <1>1 DEF vars
<1>2. ASSUME NEW c \in Conn, Connect(c)
      PROVE  UNCHANGED authVars
  BY <1>2 DEF Connect
<1>3. ASSUME NEW c \in Conn, NEW k \in Token, DialReality(c, k)
      PROVE  AuthNext
  BY <1>3 DEF DialReality, AuthNext
<1>4. ASSUME NEW c \in Conn, handle(c)
      PROVE  AuthNext \/ UNCHANGED authVars
  <2>1. CASE Classify(c)
    <3>1. (\E k \in Offered(c) : verify(c, k)) \/ UNCHANGED authVars
      BY <2>1 DEF Classify
    <3>2. \A k : verify(c, k) => k \in Token
      BY DEF verify, Made
    <3>3. QED
      BY <3>1, <3>2 DEF AuthNext
  <2>2. CASE Verdict(c)
    BY <2>2 DEF Verdict, AuthNext
  <2>3. CASE ~(Classify(c) \/ Verdict(c))
    BY <1>4, <2>3 DEF handle, readFirstRecord, relay, Read, ReadFails, TlsRead, Take, TlsDone,
       TlsFails, Accept, Withdraw, Leave, Dial, DialFails, CopyUp, CopyDown, RelayEnds
  <2>4. QED
    BY <2>1, <2>2, <2>3
<1>5. ASSUME NEW c \in Conn, ClientSends(c) \/ ClientShuts(c) \/ SiteSends(c)
      PROVE  UNCHANGED authVars
  BY <1>5 DEF ClientSends, ClientShuts, SiteSends
<1>6. CASE AcceptClosed \/ markClosed
  BY <1>6 DEF AcceptClosed, markClosed
<1>7. CASE Tick /\ UNCHANGED <<conns, peers, closed, acceptor>>
  BY <1>7 DEF AuthNext
<1>8. QED
  BY <1>1, <1>2, <1>3, <1>4, <1>5, <1>6, <1>7 DEF Next

(* The listener implements RealityAuth, with one goroutine a connection.   *)
THEOREM ImplementsAuth == Spec => AuthSpec
<1>1. Init => AuthInit
  BY DEF Init
<1>2. QED
  BY <1>1, AuthStep, PTL DEF Spec, AuthSpec

-----------------------------------------------------------------------------
(* Sequences in sequences                                                  *)

(* s stands in b, after p elements.                                        *)
Sits(b, p, s) == /\ p + Len(s) <= Len(b)
                 /\ \A i \in 1..Len(s) : b[p + i] = s[i]

(* The elements of a sequence have the indices 1 to Len.                   *)
LEMMA SeqLen == ASSUME NEW X, NEW s \in Seq(X)
                PROVE  /\ Len(s) \in Nat /\ DOMAIN s = 1..Len(s)
                       /\ \A i \in 1..Len(s) : s[i] \in X
OBVIOUS

(* Sequences with the same elements are the same.                          *)
LEMMA SeqEqual ==
  ASSUME NEW X, NEW s \in Seq(X), NEW t \in Seq(X), Len(s) = Len(t),
         \A i \in 1..Len(s) : s[i] = t[i]
  PROVE  s = t
OBVIOUS

(* The length and the elements of a slice.                                 *)
LEMMA SliceFacts ==
  ASSUME NEW X, NEW b \in Seq(X), NEW m \in Nat, NEW n \in Nat, m <= n, n <= Len(b)
  PROVE  /\ SubSeq(b, m + 1, n) \in Seq(X) /\ Len(SubSeq(b, m + 1, n)) = n - m
         /\ \A i \in 1..(n - m) : SubSeq(b, m + 1, n)[i] = b[m + i]
OBVIOUS

(* The length and the elements of a concatenation.                         *)
LEMMA ConcatLen ==
  ASSUME NEW X, NEW s \in Seq(X), NEW t \in Seq(X)
  PROVE  /\ s \o t \in Seq(X) /\ Len(s \o t) = Len(s) + Len(t)
         /\ \A i \in 1..Len(s) : (s \o t)[i] = s[i]
         /\ \A i \in 1..Len(t) : (s \o t)[Len(s) + i] = t[i]
OBVIOUS

(* The slice in which s stands is s.                                       *)
LEMMA SitsSlice ==
  ASSUME NEW X, NEW b \in Seq(X), NEW s \in Seq(X), NEW p \in Nat, Sits(b, p, s)
  PROVE  SubSeq(b, p + 1, p + Len(s)) = s
<1>1. Len(s) \in Nat /\ p + Len(s) \in Nat /\ p + Len(s) <= Len(b) /\ p <= p + Len(s)
  BY SeqLen DEF Sits
<1> DEFINE c == SubSeq(b, p + 1, p + Len(s))
<1>2. /\ c \in Seq(X) /\ Len(c) = (p + Len(s)) - p
      /\ \A i \in 1..((p + Len(s)) - p) : c[i] = b[p + i]
  BY <1>1, SliceFacts
<1>3. Len(c) = Len(s)
  BY <1>1, <1>2
<1> HIDE DEF c
<1>4. \A i \in 1..Len(c) : c[i] = s[i]
  BY <1>2, <1>3 DEF Sits
<1>5. c = s
  BY <1>2, <1>3, <1>4, SeqEqual
<1>6. QED
  BY <1>5 DEF c

(* What stands in b stands in a slice of b that holds it.                  *)
LEMMA SitsInSlice ==
  ASSUME NEW X, NEW b \in Seq(X), NEW s \in Seq(X), NEW p \in Nat, Sits(b, p, s),
         NEW m \in Nat, NEW n \in Nat, m <= p, p + Len(s) <= n, n <= Len(b)
  PROVE  Sits(SubSeq(b, m + 1, n), p - m, s)
<1> DEFINE c == SubSeq(b, m + 1, n)
<1>1. Len(s) \in Nat /\ m <= n
  BY SeqLen
<1>2. Len(c) = n - m /\ \A i \in 1..(n - m) : c[i] = b[m + i]
  BY <1>1, SliceFacts
<1> HIDE DEF c
<1>3. (p - m) + Len(s) <= Len(c)
  BY <1>1, <1>2
<1>4. ASSUME NEW i \in 1..Len(s)
      PROVE  c[(p - m) + i] = s[i]
  <2>1. (p - m) + i \in 1..(n - m) /\ m + ((p - m) + i) = p + i
    BY <1>1
  <2>2. c[(p - m) + i] = b[p + i]
    BY <1>2, <2>1
  <2>3. QED
    BY <2>2 DEF Sits
<1>5. Sits(c, p - m, s)
  BY <1>3, <1>4 DEF Sits
<1>6. QED
  BY <1>5 DEF c

(* The same of a slice from the front.                                     *)
LEMMA SitsInFront ==
  ASSUME NEW X, NEW b \in Seq(X), NEW s \in Seq(X), NEW p \in Nat, Sits(b, p, s),
         NEW n \in Nat, p + Len(s) <= n, n <= Len(b)
  PROVE  Sits(SubSeq(b, 1, n), p, s)
<1>1. 0 <= p /\ p - 0 = p /\ 0 + 1 = 1 /\ 0 \in Nat
  OBVIOUS
<1>2. Sits(SubSeq(b, 0 + 1, n), p - 0, s)
  BY <1>1, SitsInSlice, Zenon
<1>3. QED
  BY <1>1, <1>2, Zenon

(* Where the two halves stand of what stands in b.                         *)
LEMMA SitsParts ==
  ASSUME NEW X, NEW b \in Seq(X), NEW s \in Seq(X), NEW t \in Seq(X), NEW p \in Nat,
         Sits(b, p, s \o t)
  PROVE  Sits(b, p, s) /\ Sits(b, p + Len(s), t)
<1> DEFINE u == s \o t
<1>1. /\ Len(u) = Len(s) + Len(t)
      /\ \A i \in 1..Len(s) : u[i] = s[i]
      /\ \A i \in 1..Len(t) : u[Len(s) + i] = t[i]
  BY ConcatLen
<1>2. Len(s) \in Nat /\ Len(t) \in Nat /\ Len(b) \in Nat
  BY SeqLen
<1>3. p + Len(u) <= Len(b) /\ \A i \in 1..Len(u) : b[p + i] = u[i]
  BY DEF Sits
<1> HIDE DEF u
<1>4. Sits(b, p, s)
  BY <1>1, <1>2, <1>3 DEF Sits
<1>5. (p + Len(s)) + Len(t) <= Len(b)
  BY <1>1, <1>2, <1>3
<1>6. ASSUME NEW i \in 1..Len(t)
      PROVE  b[(p + Len(s)) + i] = t[i]
  <2>1. Len(s) + i \in 1..Len(u) /\ p + (Len(s) + i) = (p + Len(s)) + i
    BY <1>1, <1>2
  <2>2. b[p + (Len(s) + i)] = u[Len(s) + i]
    BY <1>3, <2>1
  <2>3. QED
    BY <1>1, <2>1, <2>2
<1>7. QED
  BY <1>4, <1>5, <1>6 DEF Sits

(* Where the two parts of a concatenation stand in it.                     *)
LEMMA SitsFirst ==
  ASSUME NEW X, NEW s \in Seq(X), NEW t \in Seq(X)
  PROVE  Sits(s, 0, s) /\ Sits(s \o t, 0, s) /\ Sits(s \o t, Len(s), t)
<1>1. s \o t \in Seq(X) /\ Len(s) \in Nat /\ Len(t) \in Nat /\ Len(s \o t) \in Nat
  BY ConcatLen, SeqLen
<1>2. \A u \in Seq(X) : Sits(u, 0, u)
  BY DEF Sits
<1>3. Sits(s \o t, 0, s) /\ Sits(s \o t, 0 + Len(s), t)
  BY <1>1, <1>2, SitsParts
<1>4. QED
  BY <1>1, <1>2, <1>3

-----------------------------------------------------------------------------
(* Vectors                                                                 *)

(* A number is its last byte and the rest.                                 *)
LEMMA Bytes ==
  ASSUME NEW n \in Nat
  PROVE  /\ n = 256 * (n \div 256) + (n % 256) /\ n % 256 \in Byte /\ n \div 256 \in Nat
         /\ \A k \in Nat : n < 256 * k => n \div 256 < k
BY DEF Byte

(* Number, byte by byte.                                                   *)
LEMMA Number1 == ASSUME NEW x PROVE Number(<<x>>) = x
BY DEF Number
LEMMA Number2 == ASSUME NEW x, NEW y PROVE Number(<<x, y>>) = 256 * x + y
BY DEF Number
LEMMA Number3 ==
  ASSUME NEW x, NEW y, NEW z PROVE Number(<<x, y, z>>) = 256 * (256 * x + y) + z
BY DEF Number

(* Short sequences.                                                        *)
LEMMA TupleFacts ==
  ASSUME NEW X, NEW x \in X, NEW y \in X, NEW z \in X
  PROVE  /\ <<x>> \in Seq(X) /\ Len(<<x>>) = 1 /\ <<x, y>> \in Seq(X) /\ Len(<<x, y>>) = 2
         /\ <<x, y, z>> \in Seq(X) /\ Len(<<x, y, z>>) = 3
OBVIOUS

(* Number reads what BigEndian writes, if it fits into w bytes.            *)
LEMMA NumberRead ==
  ASSUME NEW w \in 1..3, NEW n \in Nat, n < Size(w)
  PROVE  /\ BigEndian(w, n) \in Seq(Byte) /\ Len(BigEndian(w, n)) = w
         /\ Number(BigEndian(w, n)) = n
<1>2. CASE w = 1
  <2>1. n < 256 /\ BigEndian(w, n) = <<n>>
    BY <1>2 DEF BigEndian, Size
  <2>2. n \in Byte
    BY <2>1 DEF Byte
  <2>3. <<n>> \in Seq(Byte) /\ Len(<<n>>) = 1
    BY <2>2, TupleFacts
  <2>4. QED
    BY <1>2, <2>1, <2>3, Number1, Zenon
<1>3. CASE w = 2
  <2> DEFINE x == n \div 256 y == n % 256
  <2>1. n < 256 * 256 /\ BigEndian(w, n) = <<x, y>>
    BY <1>3 DEF BigEndian, Size
  <2>2. x < 256
    BY <2>1, Bytes
  <2>3. x \in Byte /\ y \in Byte /\ 256 * x + y = n
    BY <2>2, Bytes DEF Byte
  <2> HIDE DEF x, y
  <2>4. <<x, y>> \in Seq(Byte) /\ Len(<<x, y>>) = 2
    BY <2>3, TupleFacts
  <2>5. Number(<<x, y>>) = n
    BY <2>3, Number2
  <2>6. QED
    BY <1>3, <2>1, <2>4, <2>5, Zenon
<1>4. CASE w = 3
  <2> DEFINE m == n \div 256 x == m \div 256 y == m % 256 z == n % 256
  <2>1. n < 256 * (256 * 256) /\ BigEndian(w, n) = <<x, y, z>>
    BY <1>4 DEF BigEndian, Size
  <2>2. m \in Nat /\ m < 256 * 256 /\ n = 256 * m + z /\ z \in Byte
    BY <2>1, Bytes
  <2>3. m = 256 * x + y /\ y \in Byte /\ x < 256 /\ x \in Nat
    <3> HIDE DEF m
    <3> QED
      BY <2>2, Bytes
  <2> HIDE DEF m, x, y, z
  <2>4. x \in Byte
    BY <2>3 DEF Byte
  <2>5. 256 * (256 * x + y) + z = n
    BY <2>2, <2>3, Zenon
  <2>6. <<x, y, z>> \in Seq(Byte) /\ Len(<<x, y, z>>) = 3
    BY <2>2, <2>3, <2>4, TupleFacts
  <2>7. Number(<<x, y, z>>) = n
    BY <2>5, Number3
  <2>8. QED
    BY <1>4, <2>1, <2>6, <2>7, Zenon
<1>5. QED
  BY <1>2, <1>3, <1>4

(* A vector is its length in w bytes and what is in it.                    *)
LEMMA PrefixedFacts ==
  ASSUME NEW X, Byte \subseteq X, NEW w \in 1..3, NEW s \in Seq(X), Len(s) < Size(w)
  PROVE  /\ Prefixed(w, s) \in Seq(X) /\ Len(Prefixed(w, s)) = w + Len(s)
         /\ BigEndian(w, Len(s)) \in Seq(X) /\ Len(BigEndian(w, Len(s))) = w
         /\ Number(BigEndian(w, Len(s))) = Len(s)
<1> DEFINE h == BigEndian(w, Len(s))
<1>1. h \in Seq(Byte) /\ Len(h) = w /\ Number(h) = Len(s)
  BY SeqLen, NumberRead
<1>2. h \in Seq(X)
  <2> HIDE DEF h
  <2> QED
    BY <1>1
<1>3. h \o s \in Seq(X) /\ Len(h \o s) = Len(h) + Len(s)
  <2> HIDE DEF h
  <2> QED
    BY <1>2, ConcatLen
<1>4. QED
  BY <1>1, <1>2, <1>3, Zenon DEF Prefixed

(* A vector that stands in b, looked for in the first m bytes of b.        *)
ReadOf(b, m, p, w, s) ==
    Vector(SubSeq(b, 1, m), p, w) =
       IF p + w + Len(s) <= m THEN [ok |-> TRUE, end |-> p + w + Len(s), val |-> s]
       ELSE [ok |-> FALSE, end |-> m]

LEMMA VectorAt ==
  ASSUME NEW X, Byte \subseteq X, NEW b \in Seq(X), NEW w \in 1..3,
         NEW s \in Seq(X), Len(s) < Size(w), NEW p \in Nat, Sits(b, p, Prefixed(w, s)),
         NEW m \in Nat, m <= Len(b)
  PROVE  ReadOf(b, m, p, w, s)
<1> SUFFICES Vector(SubSeq(b, 1, m), p, w) =
                IF p + w + Len(s) <= m THEN [ok |-> TRUE, end |-> p + w + Len(s), val |-> s]
                ELSE [ok |-> FALSE, end |-> m]
  BY DEF ReadOf
<1> DEFINE h == BigEndian(w, Len(s)) c == SubSeq(b, 1, m)
<1>1. Len(s) \in Nat
  BY SeqLen
<1>2. h \in Seq(X) /\ Len(h) = w /\ Number(h) = Len(s) /\ Len(s) \in Nat
  <2>1. h \in Seq(X)
    BY PrefixedFacts
  <2>2. Len(h) = w /\ Number(h) = Len(s)
    BY <1>1, NumberRead
  <2>3. QED
    BY <1>1, <2>1, <2>2
<1>3. c \in Seq(X) /\ Len(c) = m
  BY SliceFacts
<1>4. Sits(b, p, h) /\ Sits(b, p + w, s)
  <2>1. Sits(b, p, h \o s)
    BY DEF Prefixed
  <2> HIDE DEF h
  <2>2. QED
    BY <1>2, <2>1, SitsParts
<1>5. p + w \in Nat /\ p <= p + w /\ p + w + Len(s) \in Nat /\ p - 0 = p
      /\ (p + w) - 0 = p + w /\ 0 + 1 = 1
  BY <1>2
<1> DEFINE end == p + w + Number(SubSeq(c, p + 1, p + w))
<1>6. Vector(c, p, w) = IF p + w > Len(c) \/ end > Len(c) THEN [ok |-> FALSE, end |-> Len(c)]
                        ELSE [ok |-> TRUE, end |-> end, val |-> SubSeq(c, p + w + 1, end)]
  BY Zenon DEF Vector
<1>7. CASE p + w > m
  <2>1. ~(p + w + Len(s) <= m)
    BY <1>2, <1>7
  <2> HIDE DEF c, end
  <2>2. QED
    BY <1>3, <1>6, <1>7, <2>1, Zenon DEF c
<1>8. CASE p + w <= m
  <2>1. Sits(c, p, h)
    <3> HIDE DEF h
    <3> QED
      BY <1>2, <1>4, <1>8, SitsInFront DEF c
  <2>2. SubSeq(c, p + 1, p + w) = h
    <3> HIDE DEF h, c
    <3> QED
      BY <1>2, <1>3, <2>1, SitsSlice
  <2>3. end = p + w + Len(s)
    BY <1>2, <2>2
  <2>4. ~(p + w > m)
    BY <1>5, <1>8
  <2>5. CASE p + w + Len(s) <= m
    <3>1. Sits(c, p + w, s)
      BY <1>4, <1>5, <2>5, SitsInFront DEF c
    <3> HIDE DEF c, end
    <3>2. SubSeq(c, (p + w) + 1, (p + w) + Len(s)) = s
      BY <1>3, <1>5, <3>1, SitsSlice
    <3>3. ~(end > m)
      BY <1>5, <2>3, <2>5
    <3>4. QED
      BY <1>3, <1>6, <2>3, <2>4, <2>5, <3>2, <3>3, Zenon DEF c
  <2>6. CASE ~(p + w + Len(s) <= m)
    <3>1. end > m
      BY <1>5, <2>3, <2>6
    <3> HIDE DEF c, end
    <3>2. QED
      BY <1>3, <1>6, <2>4, <2>6, <3>1, Zenon DEF c
  <2>7. QED
    BY <2>5, <2>6
<1>9. QED
  BY <1>5, <1>7, <1>8

(* A vector that stands in b, looked for in b.                             *)
LEMMA VectorWhole ==
  ASSUME NEW X, Byte \subseteq X, NEW b \in Seq(X), NEW w \in 1..3,
         NEW s \in Seq(X), Len(s) < Size(w), NEW p \in Nat, Sits(b, p, Prefixed(w, s))
  PROVE  Vector(b, p, w) = [ok |-> TRUE, end |-> p + w + Len(s), val |-> s]
<1>1. Len(b) \in Nat /\ Len(b) <= Len(b) /\ SubSeq(b, 1, Len(b)) = b
  BY SeqLen
<1>2. p + w + Len(s) <= Len(b)
  <2>1. p + (w + Len(s)) <= Len(b)
    BY PrefixedFacts DEF Sits
  <2>2. QED
    BY <2>1, SeqLen
<1>3. ReadOf(b, Len(b), p, w, s)
  BY <1>1, VectorAt
<1>4. QED
  BY <1>1, <1>2, <1>3, Zenon DEF ReadOf

-----------------------------------------------------------------------------
(* Induction, for sets                                                     *)

(* A set of numbers that is not empty has a least element.                 *)
LEMMA Least ==
  ASSUME NEW T, T \subseteq Nat, T # {}
  PROVE  \E x \in T : \A y \in T : x <= y
<1> DEFINE R == {p \in Nat \X Nat : p[1] < p[2]}
<1>1. IsWellFoundedOn(R, Nat)
  BY NatLessThanWellFounded DEF OpToRel
<1>2. \E x \in T : \A y \in T : <<y, x>> \notin R
  <2> HIDE DEF R
  <2> QED
    BY <1>1, WFMin
<1>3. \A x, y \in Nat : <<y, x>> \notin R => x <= y
  OBVIOUS
<1>4. QED
  BY <1>2, <1>3

(* A set that has 0, and n + 1 with n, has every number.                   *)
LEMMA Induction ==
  ASSUME NEW G, 0 \in G, \A n \in Nat : n \in G => n + 1 \in G
  PROVE  \A n \in Nat : n \in G
<1> SUFFICES ASSUME Nat \ G # {} PROVE FALSE
  OBVIOUS
<1>1. PICK x \in Nat \ G : \A y \in Nat \ G : x <= y
  BY Least
<1>2. x - 1 \in Nat /\ ~(x <= x - 1) /\ (x - 1) + 1 = x
  BY <1>1
<1>3. QED
  BY <1>1, <1>2

-----------------------------------------------------------------------------
(* FlattenSeq                                                              *)

IsFlatten(f, s, n) == f = [i \in 1..n |-> IF i = 1 THEN s[i] ELSE f[i - 1] \o s[i]]

(* The partial results of FlattenSeq exist.                                *)
LEMMA FlattenExists ==
  ASSUME NEW s
  PROVE  \A n \in Nat : \E f : IsFlatten(f, s, n)
<1> DEFINE G == {n \in Nat : \E f : IsFlatten(f, s, n)}
<1>1. 0 \in G
  <2> DEFINE f == [i \in 1..0 |-> s]
  <2>1. f = [i \in 1..0 |-> IF i = 1 THEN s[i] ELSE f[i - 1] \o s[i]]
    OBVIOUS
  <2>2. QED
    BY <2>1 DEF IsFlatten
<1>2. ASSUME NEW n \in Nat, n \in G
      PROVE  n + 1 \in G
  <2>1. PICK f : f = [i \in 1..n |-> IF i = 1 THEN s[i] ELSE f[i - 1] \o s[i]]
    BY <1>2 DEF IsFlatten
  <2> DEFINE g == [i \in 1..(n + 1) |-> IF i = 1 THEN s[i] ELSE f[i - 1] \o s[i]]
  <2>2. ASSUME NEW i \in 1..n
        PROVE  g[i] = f[i]
    <3>1. i \in 1..(n + 1)
      OBVIOUS
    <3>2. g[i] = IF i = 1 THEN s[i] ELSE f[i - 1] \o s[i]
      BY <3>1
    <3>3. f[i] = IF i = 1 THEN s[i] ELSE f[i - 1] \o s[i]
      BY <2>1
    <3> HIDE DEF g
    <3> QED
      BY <3>2, <3>3, Zenon
  <2>3. \A i \in 1..(n + 1) : i # 1 => i - 1 \in 1..n
    OBVIOUS
  <2>4. \A i \in 1..(n + 1) : i # 1 => g[i - 1] = f[i - 1]
    <3> HIDE DEF g
    <3> QED
      BY <2>2, <2>3, Zenon
  <2>5. g = [i \in 1..(n + 1) |-> IF i = 1 THEN s[i] ELSE g[i - 1] \o s[i]]
    <3> DEFINE h == g
    <3>1. \A i \in 1..(n + 1) : i # 1 => h[i - 1] = f[i - 1]
      BY <2>4
    <3> HIDE DEF h
    <3>2. g = [i \in 1..(n + 1) |-> IF i = 1 THEN s[i] ELSE h[i - 1] \o s[i]]
      BY <3>1
    <3> QED
      BY <3>2 DEF h
  <2>6. IsFlatten(g, s, n + 1)
    BY <2>5 DEF IsFlatten
  <2>7. QED
    BY <2>6
<1>3. QED
  <2> HIDE DEF G
  <2>1. \A n \in Nat : n \in G
    BY <1>1, <1>2, Induction
  <2>2. QED
    BY <2>1 DEF G

(* FlattenSeq is the last of its partial results.                          *)
LEMMA FlattenFcn ==
  ASSUME NEW X, NEW s \in Seq(X), Len(s) # 0
  PROVE  \E f : IsFlatten(f, s, Len(s)) /\ FlattenSeq(s) = f[Len(s)]
<1> DEFINE f == CHOOSE g : IsFlatten(g, s, Len(s))
<1>1. IsFlatten(f, s, Len(s))
  <2>1. Len(s) \in Nat
    OBVIOUS
  <2>2. \E g : IsFlatten(g, s, Len(s))
    BY <2>1, FlattenExists
  <2>3. QED
    BY <2>2
<1>2. FlattenSeq(s) = f[Len(s)]
  BY DEF FlattenSeq, IsFlatten
<1>3. QED
  BY <1>1, <1>2

(* What stands in b stays where it is when more follows.                   *)
LEMMA SitsGrows ==
  ASSUME NEW X, NEW b \in Seq(X), NEW s \in Seq(X), NEW t \in Seq(X), NEW p \in Nat, Sits(b, p, s)
  PROVE  Sits(b \o t, p, s)
<1>1. /\ Len(b \o t) = Len(b) + Len(t) /\ Len(b) \in Nat /\ Len(t) \in Nat /\ Len(s) \in Nat
      /\ \A i \in 1..Len(b) : (b \o t)[i] = b[i]
  BY ConcatLen, SeqLen
<1> DEFINE u == b \o t
<1> HIDE DEF u
<1>2. p + Len(s) <= Len(u)
  BY <1>1 DEF Sits, u
<1>3. ASSUME NEW i \in 1..Len(s)
      PROVE  u[p + i] = s[i]
  <2>1. p + i \in 1..Len(b)
    BY <1>1 DEF Sits
  <2>2. QED
    BY <1>1, <2>1 DEF Sits, u
<1>4. QED
  BY <1>2, <1>3 DEF Sits, u

(* Where the parts of a flattened sequence stand.                          *)
Layout(off, s, b) ==
    /\ off \in [1..(Len(s) + 1) -> Nat] /\ off[1] = 0 /\ off[Len(s) + 1] = Len(b)
    /\ \A i \in 1..Len(s) : off[i + 1] = off[i] + Len(s[i]) /\ Sits(b, off[i], s[i])

(* The parts of a flattened sequence stand in it one after another.        *)
LEMMA FlattenFacts ==
  ASSUME NEW X, NEW s \in Seq(Seq(X))
  PROVE  FlattenSeq(s) \in Seq(X) /\ \E off : Layout(off, s, FlattenSeq(s))
<1>1. CASE Len(s) = 0
  <2>1. FlattenSeq(s) = <<>> /\ s = <<>>
    BY <1>1 DEF FlattenSeq
  <2>2. Layout([i \in 1..1 |-> 0], <<>>, <<>>)
    BY DEF Layout
  <2>3. <<>> \in Seq(X)
    OBVIOUS
  <2>4. QED
    BY <2>1, <2>2, <2>3, Zenon
<1>2. CASE Len(s) # 0
  <2>0. Len(s) \in Nat /\ Len(s) \in 1..Len(s) /\ \A i \in 1..Len(s) : s[i] \in Seq(X)
    BY <1>2, SeqLen
  <2>1. PICK f : IsFlatten(f, s, Len(s)) /\ FlattenSeq(s) = f[Len(s)]
    BY <1>2, FlattenFcn
  <2>2. \A i \in 1..Len(s) : f[i] = IF i = 1 THEN s[i] ELSE f[i - 1] \o s[i]
    BY <2>1 DEF IsFlatten
  <2>3. ASSUME NEW n \in Nat
        PROVE  n + 1 \in 1..Len(s) => f[n + 1] \in Seq(X)
    <3> DEFINE G == {k \in Nat : k + 1 \in 1..Len(s) => f[k + 1] \in Seq(X)}
    <3>1. 0 \in G
      BY <2>0, <2>2
    <3>2. ASSUME NEW k \in Nat, k \in G
          PROVE  k + 1 \in G
      <4> SUFFICES ASSUME (k + 1) + 1 \in 1..Len(s) PROVE f[(k + 1) + 1] \in Seq(X)
        OBVIOUS
      <4>1. k + 1 \in 1..Len(s) /\ (k + 1) + 1 # 1 /\ ((k + 1) + 1) - 1 = k + 1
        BY <2>0
      <4>2. f[k + 1] \in Seq(X) /\ s[(k + 1) + 1] \in Seq(X)
        BY <2>0, <3>2, <4>1
      <4>3. f[(k + 1) + 1] = f[k + 1] \o s[(k + 1) + 1]
        BY <2>2, <4>1
      <4>4. QED
        BY <4>2, <4>3, ConcatLen
    <3>3. QED
      <4> HIDE DEF G
      <4>1. n \in G
        BY <3>1, <3>2, Induction
      <4>2. QED
        BY <4>1 DEF G
  <2>4. ASSUME NEW i \in 1..Len(s)
        PROVE  f[i] \in Seq(X) /\ Len(f[i]) \in Nat
    <3>1. i - 1 \in Nat /\ (i - 1) + 1 = i
      OBVIOUS
    <3>2. f[i] \in Seq(X)
      BY <2>3, <3>1
    <3>3. QED
      BY <3>2, SeqLen
  <2> DEFINE off == [j \in 1..(Len(s) + 1) |-> IF j = 1 THEN 0 ELSE Len(f[j - 1])]
  <2>5. /\ off \in [1..(Len(s) + 1) -> Nat] /\ off[1] = 0 /\ off[Len(s) + 1] = Len(f[Len(s)])
        /\ \A i \in 1..Len(s) : off[i + 1] = Len(f[i])
    <3>1. /\ \A j \in 1..(Len(s) + 1) : j # 1 => j - 1 \in 1..Len(s)
          /\ \A i \in 1..Len(s) : i + 1 \in 1..(Len(s) + 1) /\ i + 1 # 1 /\ (i + 1) - 1 = i
          /\ 1 \in 1..(Len(s) + 1)
      BY <2>0
    <3>2. \A i \in 1..Len(s) : off[i + 1] = Len(f[i])
      BY <3>1
    <3>3. \A j \in 1..(Len(s) + 1) : off[j] \in Nat
      BY <2>4, <3>1
    <3>4. QED
      BY <2>0, <3>1, <3>2, <3>3
  <2> HIDE DEF off
  <2>6. ASSUME NEW i \in 1..Len(s)
        PROVE  Sits(f[i], off[i], s[i]) /\ Len(f[i]) = off[i] + Len(s[i]) /\ off[i] \in Nat
    <3>1. CASE i = 1
      <4>1. f[i] = s[i] /\ off[i] = 0
        BY <2>2, <2>5, <3>1
      <4>2. Sits(s[i], 0, s[i]) /\ Len(s[i]) \in Nat
        BY <2>0, SitsFirst, SeqLen
      <4>3. QED
        BY <4>1, <4>2
    <3>2. CASE i # 1
      <4>1. i - 1 \in 1..Len(s) /\ (i - 1) + 1 = i
        BY <3>2
      <4>2. f[i] = f[i - 1] \o s[i] /\ off[i] = Len(f[i - 1])
        BY <2>2, <2>5, <3>2, <4>1
      <4>3. f[i - 1] \in Seq(X) /\ Len(f[i - 1]) \in Nat /\ s[i] \in Seq(X)
        BY <2>0, <2>4, <4>1
      <4>4. /\ Sits(f[i - 1] \o s[i], Len(f[i - 1]), s[i])
            /\ Len(f[i - 1] \o s[i]) = Len(f[i - 1]) + Len(s[i])
        BY <4>3, SitsFirst, ConcatLen
      <4>5. QED
        BY <4>2, <4>3, <4>4
    <3>3. QED
      BY <3>1, <3>2
  <2>7. ASSUME NEW n \in Nat
        PROVE  n \in 1..Len(s) => \A j \in 1..n : Sits(f[n], off[j], s[j])
    <3> DEFINE G == {k \in Nat : k \in 1..Len(s) => \A j \in 1..k : Sits(f[k], off[j], s[j])}
    <3>1. 0 \in G
      OBVIOUS
    <3>2. ASSUME NEW k \in Nat, k \in G
          PROVE  k + 1 \in G
      <4> SUFFICES ASSUME k + 1 \in 1..Len(s), NEW j \in 1..(k + 1)
                   PROVE  Sits(f[k + 1], off[j], s[j])
        OBVIOUS
      <4>1. CASE j = k + 1
        BY <2>6, <4>1
      <4>2. CASE j # k + 1
        <5>1. k \in 1..Len(s) /\ j \in 1..k /\ j \in 1..Len(s) /\ k + 1 # 1 /\ (k + 1) - 1 = k
          BY <2>0, <4>2
        <5>2. Sits(f[k], off[j], s[j])
          BY <3>2, <5>1
        <5>3. f[k + 1] = f[k] \o s[k + 1]
          BY <2>2, <5>1
        <5>4. f[k] \in Seq(X) /\ s[k + 1] \in Seq(X) /\ s[j] \in Seq(X) /\ off[j] \in Nat
          BY <2>0, <2>4, <2>6, <5>1
        <5>5. QED
          BY <5>2, <5>3, <5>4, SitsGrows
      <4>3. QED
        BY <4>1, <4>2
    <3>3. QED
      <4> HIDE DEF G
      <4>1. n \in G
        BY <3>1, <3>2, Induction
      <4>2. QED
        BY <4>1 DEF G
  <2>8. \A i \in 1..Len(s) : Sits(f[Len(s)], off[i], s[i])
    BY <2>0, <2>7
  <2>9. Layout(off, s, f[Len(s)])
    BY <2>5, <2>6, <2>8 DEF Layout
  <2>10. QED
    BY <2>0, <2>1, <2>4, <2>9
<1>3. QED
  BY <1>1, <1>2

-----------------------------------------------------------------------------
(* Loops: functions that call themselves last                              *)

IsLoop(f, D, stop, val, next) ==
    f = [x \in D |-> IF x \in stop THEN val[x] ELSE f[next[x]]]

(* A loop that gets closer to its end has a value.                         *)
LEMMA LoopExists ==
  ASSUME NEW S, NEW m \in [S -> Nat], NEW stop, NEW val, NEW next,
         \A x \in S : x \notin stop => next[x] \in S /\ m[next[x]] < m[x]
  PROVE  \E f : IsLoop(f, S, stop, val, next)
<1> DEFINE D(n) == {x \in S : m[x] < n}
           OnD(f, n) == IsLoop(f, D(n), stop, val, next)
           G == {n \in Nat : \E f : OnD(f, n)}
<1>1. \A n \in Nat : \A x \in D(n + 1) : x \notin stop => next[x] \in D(n)
  OBVIOUS
<1>2. 0 \in G
  <2>1. D(0) = {}
    OBVIOUS
  <2> DEFINE f == [x \in {} |-> S]
  <2>2. f = [x \in {} |-> IF x \in stop THEN val[x] ELSE f[next[x]]]
    OBVIOUS
  <2>3. OnD(f, 0)
    BY <2>1, <2>2 DEF IsLoop
  <2>4. QED
    BY <2>3
<1>3. ASSUME NEW n \in Nat, n \in G
      PROVE  n + 1 \in G
  <2>1. PICK f : f = [x \in D(n) |-> IF x \in stop THEN val[x] ELSE f[next[x]]]
    BY <1>3 DEF IsLoop
  <2> DEFINE E == D(n + 1)
             g == [x \in E |-> IF x \in stop THEN val[x] ELSE f[next[x]]]
  <2>2. \A x \in D(n) : x \in E
    OBVIOUS
  <2>3. \A x \in D(n) : f[x] = IF x \in stop THEN val[x] ELSE f[next[x]]
    BY <2>1
  <2>4. \A x \in E : g[x] = IF x \in stop THEN val[x] ELSE f[next[x]]
    OBVIOUS
  <2>5. \A x \in D(n) : g[x] = f[x]
    <3> HIDE DEF g, E, D
    <3> QED
      BY <2>2, <2>3, <2>4
  <2>6. \A x \in E : x \notin stop => g[next[x]] = f[next[x]]
    <3> HIDE DEF g, D
    <3> QED
      BY <1>1, <2>5, Zenon
  <2>7. g = [x \in E |-> IF x \in stop THEN val[x] ELSE g[next[x]]]
    <3> DEFINE h == g
    <3>1. \A x \in E : x \notin stop => h[next[x]] = f[next[x]]
      BY <2>6
    <3> HIDE DEF h, E
    <3>2. g = [x \in E |-> IF x \in stop THEN val[x] ELSE h[next[x]]]
      BY <3>1
    <3>3. QED
      BY <3>2 DEF h
  <2>8. OnD(g, n + 1)
    BY <2>7 DEF IsLoop
  <2>9. n + 1 \in Nat
    OBVIOUS
  <2>10. QED
    <3> HIDE DEF g, OnD
    <3> QED
      BY <2>8, <2>9
<1>4. \A n \in Nat : \E f : OnD(f, n)
  <2> HIDE DEF G
  <2>1. \A n \in Nat : n \in G
    BY <1>2, <1>3, Induction
  <2> HIDE DEF OnD
  <2>2. QED
    BY <2>1 DEF G
<1> DEFINE F == [n \in Nat |-> CHOOSE f : OnD(f, n)]
<1>5. ASSUME NEW n \in Nat
      PROVE  \A x \in D(n) : F[n][x] = IF x \in stop THEN val[x] ELSE F[n][next[x]]
  <2> DEFINE f == F[n]
  <2>1. OnD(f, n)
    <3> HIDE DEF OnD
    <3> QED
      BY <1>4
  <2> HIDE DEF f
  <2>2. f = [x \in D(n) |-> IF x \in stop THEN val[x] ELSE f[next[x]]]
    BY <2>1 DEF IsLoop
  <2>3. \A x \in D(n) : f[x] = IF x \in stop THEN val[x] ELSE f[next[x]]
    BY <2>2
  <2>4. QED
    BY <2>3 DEF f
<1> HIDE DEF F
<1>6. ASSUME NEW k \in Nat, NEW n \in Nat, k <= n
      PROVE  \A x \in D(k) : F[k][x] = F[n][x]
  <2> DEFINE H == {i \in Nat : \A x \in D(k) : m[x] < i => F[k][x] = F[n][x]}
  <2>1. 0 \in H
    OBVIOUS
  <2>2. ASSUME NEW i \in Nat, i \in H
        PROVE  i + 1 \in H
    <3> SUFFICES ASSUME NEW x \in D(k), m[x] < i + 1
                 PROVE  F[k][x] = F[n][x]
      OBVIOUS
    <3>1. x \in D(n) /\ x \in S
      BY <1>6
    <3>2. /\ F[k][x] = IF x \in stop THEN val[x] ELSE F[k][next[x]]
          /\ F[n][x] = IF x \in stop THEN val[x] ELSE F[n][next[x]]
      <4> HIDE DEF D
      <4> QED
        BY <1>5, <3>1
    <3>3. x \notin stop => next[x] \in D(k) /\ m[next[x]] < i
      BY <3>1
    <3>4. x \notin stop => F[k][next[x]] = F[n][next[x]]
      BY <2>2, <3>3
    <3>5. QED
      BY <3>2, <3>4
  <2>3. ASSUME NEW x \in D(k)
        PROVE  F[k][x] = F[n][x]
    <3> HIDE DEF H
    <3>1. k \in H
      BY <2>1, <2>2, Induction
    <3>2. QED
      BY <3>1 DEF H
  <2>4. QED
    BY <2>3
<1> DEFINE f == [x \in S |-> F[m[x] + 1][x]]
<1>7. ASSUME NEW x \in S
      PROVE  f[x] = IF x \in stop THEN val[x] ELSE f[next[x]]
  <2>1. m[x] + 1 \in Nat /\ x \in D(m[x] + 1)
    OBVIOUS
  <2>2. f[x] = IF x \in stop THEN val[x] ELSE F[m[x] + 1][next[x]]
    <3>1. f[x] = F[m[x] + 1][x]
      OBVIOUS
    <3> HIDE DEF f, D
    <3>2. QED
      BY <1>5, <2>1, <3>1
  <2>3. ASSUME x \notin stop
        PROVE  F[m[x] + 1][next[x]] = f[next[x]]
    <3> DEFINE y == next[x]
    <3>1. y \in S /\ m[y] + 1 \in Nat /\ m[y] + 1 <= m[x] + 1 /\ y \in D(m[y] + 1)
      BY <2>3
    <3>2. f[y] = F[m[y] + 1][y]
      BY <3>1
    <3>3. F[m[y] + 1][y] = F[m[x] + 1][y]
      <4> HIDE DEF D, y
      <4> QED
        BY <1>6, <2>1, <3>1
    <3>4. QED
      BY <3>2, <3>3
  <2>4. QED
    <3> HIDE DEF f
    <3> QED
      BY <2>2, <2>3
<1>8. f = [x \in S |-> IF x \in stop THEN val[x] ELSE f[next[x]]]
  <2> DEFINE h == f
  <2>1. \A x \in S : f[x] = IF x \in stop THEN val[x] ELSE h[next[x]]
    BY <1>7
  <2> HIDE DEF h
  <2>2. f = [x \in S |-> IF x \in stop THEN val[x] ELSE h[next[x]]]
    BY <2>1
  <2>3. QED
    BY <2>2 DEF h
<1>9. QED
  BY <1>8 DEF IsLoop

-----------------------------------------------------------------------------
(* The loops of the parser                                                 *)

(* What is read as a number is one.                                        *)
LEMMA NumberNat ==
  ASSUME NEW w \in 1..3, NEW s \in Seq(Byte), Len(s) = w
  PROVE  Number(s) \in Nat
<1>1. \A i \in 1..w : s[i] \in Nat
  <2>1. \A i \in 1..w : s[i] \in Byte
    BY SeqLen
  <2>2. \A x \in Byte : x \in Nat
    BY DEF Byte
  <2>3. QED
    BY <2>1, <2>2
<1>2. CASE w = 1
  BY <1>1, <1>2 DEF Number
<1>3. CASE w = 2
  <2>1. s[1] \in Nat /\ s[2] \in Nat
    BY <1>1, <1>3
  <2>2. 256 * s[1] + s[2] \in Nat
    BY <2>1
  <2>3. QED
    BY <1>3, <2>2 DEF Number
<1>4. CASE w = 3
  <2>1. s[1] \in Nat /\ s[2] \in Nat /\ s[3] \in Nat
    BY <1>1, <1>4
  <2>2. 256 * (256 * s[1] + s[2]) + s[3] \in Nat
    BY <2>1
  <2>3. QED
    BY <1>4, <2>2 DEF Number
<1>5. QED
  BY <1>2, <1>3, <1>4

(* A vector ends behind its length and within the bytes.                   *)
LEMMA VectorFits ==
  ASSUME NEW d \in Seq(Byte), NEW p \in Nat, NEW w \in 1..3
  PROVE  LET v == Vector(d, p, w) IN
         v.ok => v.end \in Nat /\ p + w <= v.end /\ v.end <= Len(d) /\ v.val \in Seq(Byte)
<1> DEFINE end == p + w + Number(SubSeq(d, p + 1, p + w)) v == Vector(d, p, w)
<1>1. v = IF p + w > Len(d) \/ end > Len(d) THEN [ok |-> FALSE, end |-> Len(d)]
          ELSE [ok |-> TRUE, end |-> end, val |-> SubSeq(d, p + w + 1, end)]
  BY Zenon DEF Vector
<1>2. CASE p + w > Len(d) \/ end > Len(d)
  <2>1. v = [ok |-> FALSE, end |-> Len(d)]
    BY <1>1, <1>2, Zenon
  <2>2. v.ok = FALSE
    BY <2>1
  <2> HIDE DEF v
  <2>3. QED
    BY <2>2 DEF v
<1>3. CASE ~(p + w > Len(d) \/ end > Len(d))
  <2>1. p + w \in Nat /\ p <= p + w /\ p + w <= Len(d) /\ (p + w) - p = w /\ Len(d) \in Nat
    BY <1>3, SeqLen
  <2> DEFINE s == SubSeq(d, p + 1, p + w)
  <2>2. s \in Seq(Byte) /\ Len(s) = w
    BY <2>1, SliceFacts
  <2>3. Number(s) \in Nat
    <3> HIDE DEF s
    <3> QED
      BY <2>2, NumberNat
  <2>4. end \in Nat /\ p + w <= end
    <3> HIDE DEF s
    <3> QED
      BY <2>1, <2>3 DEF s
  <2>5. end <= Len(d)
    <3> HIDE DEF end
    <3> QED
      BY <1>3, <2>1, <2>4
  <2> HIDE DEF end
  <2>6. SubSeq(d, (p + w) + 1, end) \in Seq(Byte)
    BY <2>1, <2>4, <2>5, SliceFacts
  <2>7. v.end = end /\ v.val = SubSeq(d, p + w + 1, end)
    <3>1. v = [ok |-> TRUE, end |-> end, val |-> SubSeq(d, p + w + 1, end)]
      BY <1>1, <1>3, Zenon DEF end
    <3> HIDE DEF v
    <3>2. QED
      BY <3>1
  <2> HIDE DEF v
  <2>8. QED
    BY <2>4, <2>5, <2>6, <2>7 DEF v
<1>4. QED
  BY <1>2, <1>3

(* The length and the elements of what follows the first p bytes.          *)
LEMMA FromFacts ==
  ASSUME NEW X, NEW b \in Seq(X), NEW p \in Nat, p <= Len(b)
  PROVE  /\ From(b, p) \in Seq(X) /\ Len(From(b, p)) = Len(b) - p
         /\ \A i \in 1..(Len(b) - p) : From(b, p)[i] = b[p + i]
BY SeqLen, SliceFacts DEF From

(* What stands in b behind the first p bytes stands in the rest.           *)
LEMMA FromSits ==
  ASSUME NEW X, NEW b \in Seq(X), NEW s \in Seq(X), NEW p \in Nat, NEW q \in Nat, Sits(b, p + q, s)
  PROVE  Sits(From(b, p), q, s)
<1>1. Len(s) \in Nat /\ Len(b) \in Nat /\ (p + q) + Len(s) <= Len(b) /\ p <= p + q
      /\ (p + q) - p = q /\ p + q \in Nat
  BY SeqLen DEF Sits
<1>2. Sits(SubSeq(b, p + 1, Len(b)), (p + q) - p, s)
  <2> DEFINE n == Len(b) r == p + q
  <2>1. n \in Nat /\ r \in Nat /\ p <= r /\ r + Len(s) <= n /\ n <= Len(b) /\ Sits(b, r, s)
    BY <1>1
  <2> HIDE DEF n, r
  <2>2. Sits(SubSeq(b, p + 1, n), r - p, s)
    BY <2>1, SitsInSlice
  <2>3. QED
    BY <2>2 DEF n, r
<1>3. QED
  BY <1>1, <1>2 DEF From

(* Leaving off p bytes, then q.                                            *)
LEMMA FromFrom ==
  ASSUME NEW X, NEW b \in Seq(X), NEW p \in Nat, NEW q \in Nat, p + q <= Len(b)
  PROVE  From(From(b, p), q) = From(b, p + q)
<1>1. /\ Len(b) \in Nat /\ p <= Len(b) /\ p + q \in Nat /\ Len(b) - p \in Nat /\ q <= Len(b) - p
      /\ (Len(b) - p) - q = Len(b) - (p + q) /\ Len(b) - (p + q) \in Nat
  BY SeqLen
<1> DEFINE c == From(b, p)
<1>2. c \in Seq(X) /\ Len(c) = Len(b) - p /\ \A i \in 1..(Len(b) - p) : c[i] = b[p + i]
  BY <1>1, FromFacts
<1> HIDE DEF c
<1>3. /\ From(c, q) \in Seq(X) /\ Len(From(c, q)) = (Len(b) - p) - q
      /\ \A i \in 1..((Len(b) - p) - q) : From(c, q)[i] = c[q + i]
  <2>1. q <= Len(c)
    BY <1>1, <1>2
  <2>2. /\ From(c, q) \in Seq(X) /\ Len(From(c, q)) = Len(c) - q
        /\ \A i \in 1..(Len(c) - q) : From(c, q)[i] = c[q + i]
    BY <1>2, <2>1, FromFacts
  <2>3. QED
    BY <1>2, <2>2
<1>4. /\ From(b, p + q) \in Seq(X) /\ Len(From(b, p + q)) = Len(b) - (p + q)
      /\ \A i \in 1..(Len(b) - (p + q)) : From(b, p + q)[i] = b[(p + q) + i]
  BY <1>1, FromFacts
<1>5. ASSUME NEW i \in 1..(Len(b) - (p + q))
      PROVE  From(c, q)[i] = From(b, p + q)[i]
  <2>1. i \in 1..((Len(b) - p) - q) /\ q + i \in 1..(Len(b) - p) /\ p + (q + i) = (p + q) + i
    BY <1>1
  <2>2. From(c, q)[i] = c[q + i] /\ c[q + i] = b[p + (q + i)]
    BY <1>2, <1>3, <2>1
  <2>3. QED
    BY <1>4, <2>1, <2>2
<1>6. From(c, q) = From(b, p + q)
  BY <1>1, <1>3, <1>4, <1>5, SeqEqual
<1>7. QED
  BY <1>6 DEF c

(* hostName and parseSNI are the functions their definitions describe.     *)
HostNext(d) == From(d, Vector(d, 1, 2).end)

LEMMA HostLoop ==
  ASSUME NEW d \in Seq(Byte)
  PROVE  hostName[d] = IF ~Vector(d, 1, 2).ok THEN <<>>
                       ELSE IF d[1] = 0 THEN Vector(d, 1, 2).val
                       ELSE hostName[HostNext(d)]
<1> DEFINE S == Seq(Byte) v(x) == Vector(x, 1, 2) m == [x \in S |-> Len(x)]
           stop == {x \in S : ~v(x).ok \/ x[1] = 0}
           val  == [x \in S |-> IF ~v(x).ok THEN <<>> ELSE v(x).val]
           next == [x \in S |-> HostNext(x)]
<1>1. ASSUME NEW x \in S, x \notin stop
      PROVE  next[x] \in S /\ m[next[x]] < m[x]
  <2>1. v(x).end \in Nat /\ 1 + 2 <= v(x).end /\ v(x).end <= Len(x)
    BY <1>1, VectorFits
  <2>2. HostNext(x) \in Seq(Byte) /\ Len(HostNext(x)) = Len(x) - v(x).end
    BY <2>1, FromFacts DEF HostNext
  <2>3. QED
    BY <2>1, <2>2, SeqLen
<1>2. m \in [S -> Nat]
  BY SeqLen
<1>3. PICK f : IsLoop(f, S, stop, val, next)
  <2> HIDE DEF S, m, stop, val, next
  <2> QED
    BY <1>1, <1>2, LoopExists
<1> DEFINE Eq(g) == g = [x \in Seq(Byte) |-> LET name == Vector(x, 1, 2)
                        IN  IF ~name.ok THEN <<>>
                            ELSE IF x[1] = 0 THEN name.val
                            ELSE g[From(x, name.end)]]
<1>4. Eq(f)
  <2>1. \A x \in S : f[x] = IF x \in stop THEN val[x] ELSE f[next[x]]
    BY <1>3 DEF IsLoop
  <2>2. ASSUME NEW x \in S
        PROVE  f[x] = IF ~v(x).ok THEN <<>> ELSE IF x[1] = 0 THEN v(x).val
                      ELSE f[From(x, v(x).end)]
    BY <2>1 DEF HostNext
  <2>3. f = [x \in S |-> f[x]]
    BY <1>3 DEF IsLoop
  <2> DEFINE g == f
  <2>4. \A x \in S : f[x] = IF ~v(x).ok THEN <<>> ELSE IF x[1] = 0 THEN v(x).val
                            ELSE g[From(x, v(x).end)]
    BY <2>2
  <2> HIDE DEF g
  <2>5. f = [x \in S |-> IF ~v(x).ok THEN <<>> ELSE IF x[1] = 0 THEN v(x).val
                         ELSE g[From(x, v(x).end)]]
    BY <2>3, <2>4
  <2>6. QED
    BY <2>5, Zenon DEF g
<1>5. Eq(hostName)
  <2>1. hostName = CHOOSE g : Eq(g)
    BY DEF hostName
  <2> HIDE DEF Eq
  <2>2. QED
    BY <1>4, <2>1
<1>6. QED
  BY <1>5 DEF HostNext

SniNext(ext) == From(ext, Vector(ext, 2, 2).end)
SniList(ext) == Vector(Vector(ext, 2, 2).val, 0, 2)

LEMMA SniLoop ==
  ASSUME NEW d \in Seq(Byte)
  PROVE  parseSNI[d] = IF ~Vector(d, 2, 2).ok THEN <<>>
                       ELSE IF d[1] + d[2] # 0 THEN parseSNI[SniNext(d)]
                       ELSE IF SniList(d).ok THEN hostName[From(Vector(d, 2, 2).val, 2)]
                       ELSE <<>>
<1> DEFINE S == Seq(Byte) v(x) == Vector(x, 2, 2) m == [x \in S |-> Len(x)]
           stop == {x \in S : ~v(x).ok \/ x[1] + x[2] = 0}
           val  == [x \in S |-> IF ~v(x).ok THEN <<>>
                                ELSE IF SniList(x).ok THEN hostName[From(v(x).val, 2)] ELSE <<>>]
           next == [x \in S |-> SniNext(x)]
<1>1. ASSUME NEW x \in S, x \notin stop
      PROVE  next[x] \in S /\ m[next[x]] < m[x]
  <2>1. v(x).end \in Nat /\ 2 + 2 <= v(x).end /\ v(x).end <= Len(x)
    BY <1>1, VectorFits
  <2>2. SniNext(x) \in Seq(Byte) /\ Len(SniNext(x)) = Len(x) - v(x).end
    BY <2>1, FromFacts DEF SniNext
  <2>3. QED
    BY <2>1, <2>2, SeqLen
<1>2. m \in [S -> Nat]
  BY SeqLen
<1>3. PICK f : IsLoop(f, S, stop, val, next)
  <2> HIDE DEF S, m, stop, val, next
  <2> QED
    BY <1>1, <1>2, LoopExists
<1> DEFINE Eq(g) == g = [x \in Seq(Byte) |->
              LET data == Vector(x, 2, 2)
                  list == Vector(data.val, 0, 2)
              IN  IF ~data.ok THEN <<>>
                  ELSE IF x[1] + x[2] # 0 THEN g[From(x, data.end)]
                  ELSE IF list.ok THEN hostName[From(data.val, 2)] ELSE <<>>]
<1>4. Eq(f)
  <2>1. \A x \in S : f[x] = IF x \in stop THEN val[x] ELSE f[next[x]]
    BY <1>3 DEF IsLoop
  <2>2. ASSUME NEW x \in S
        PROVE  f[x] = IF ~v(x).ok THEN <<>>
                      ELSE IF x[1] + x[2] # 0 THEN f[From(x, v(x).end)]
                      ELSE IF Vector(v(x).val, 0, 2).ok THEN hostName[From(v(x).val, 2)] ELSE <<>>
    BY <2>1 DEF SniNext, SniList
  <2>3. f = [x \in S |-> f[x]]
    BY <1>3 DEF IsLoop
  <2> DEFINE g == f
  <2>4. \A x \in S : f[x] = IF ~v(x).ok THEN <<>>
                      ELSE IF x[1] + x[2] # 0 THEN g[From(x, v(x).end)]
                      ELSE IF Vector(v(x).val, 0, 2).ok THEN hostName[From(v(x).val, 2)] ELSE <<>>
    BY <2>2
  <2> HIDE DEF g
  <2>5. f = [x \in S |-> IF ~v(x).ok THEN <<>>
                      ELSE IF x[1] + x[2] # 0 THEN g[From(x, v(x).end)]
                      ELSE IF Vector(v(x).val, 0, 2).ok THEN hostName[From(v(x).val, 2)] ELSE <<>>]
    BY <2>3, <2>4
  <2>6. QED
    BY <2>5, Zenon DEF g
<1>5. Eq(parseSNI)
  <2>1. parseSNI = CHOOSE g : Eq(g)
    BY DEF parseSNI
  <2> HIDE DEF Eq
  <2>2. QED
    BY <1>4, <2>1
<1>6. QED
  BY <1>5 DEF SniNext, SniList

-----------------------------------------------------------------------------
(* The name                                                                *)

IsSearch(n, g, hit, val) ==
    hit \subseteq 1..n /\ \A i \in 1..n : g[i] = IF i \in hit THEN val[i] ELSE g[i + 1]

(* A search that goes from place to place stops at the first hit.          *)
LEMMA Search ==
  ASSUME NEW n \in Nat, NEW g, NEW hit, NEW val, IsSearch(n, g, hit, val)
  PROVE  /\ hit = {} => g[1] = g[n + 1]
         /\ \A k \in hit : (\A i \in hit : k <= i) => g[1] = val[k]
<1> USE DEF IsSearch
<1>1. ASSUME NEW k \in 1..(n + 1), \A i \in hit : k <= i
      PROVE  g[1] = g[k]
  <2> DEFINE G == {m \in Nat : m + 1 <= k => g[1] = g[m + 1]}
  <2>1. 0 \in G
    OBVIOUS
  <2>2. ASSUME NEW m \in Nat, m \in G
        PROVE  m + 1 \in G
    <3> SUFFICES ASSUME (m + 1) + 1 <= k PROVE g[1] = g[(m + 1) + 1]
      OBVIOUS
    <3>1. m + 1 <= k /\ m + 1 \in 1..n /\ ~(k <= m + 1)
      OBVIOUS
    <3>2. m + 1 \notin hit
      BY <1>1, <3>1
    <3>3. QED
      BY <2>2, <3>1, <3>2
  <2>3. k - 1 \in G
    <3> HIDE DEF G
    <3>1. k - 1 \in Nat
      OBVIOUS
    <3>2. QED
      BY <2>1, <2>2, <3>1, Induction
  <2>4. (k - 1) + 1 = k /\ k <= k
    OBVIOUS
  <2>5. QED
    BY <2>3, <2>4
<1>2. hit = {} => g[1] = g[n + 1]
  BY <1>1
<1>3. ASSUME NEW k \in hit, \A i \in hit : k <= i
      PROVE  g[1] = val[k]
  <2>1. k \in 1..n /\ k \in 1..(n + 1)
    OBVIOUS
  <2>2. g[1] = g[k]
    BY <1>1, <1>3, <2>1
  <2>3. QED
    BY <2>1, <2>2
<1>4. QED
  BY <1>2, <1>3

(* The first of s that has type 0.                                         *)
Steps(s, g, val) ==
    \A i \in 1..Len(s) : g[i] = IF s[i].type = 0 THEN val[i] ELSE g[i + 1]

LEMMA FirstFacts ==
  ASSUME NEW X, NEW s \in Seq(X), NEW g, NEW val, Steps(s, g, val)
  PROVE  \/ FirstOf(s) = {} /\ g[1] = g[Len(s) + 1]
         \/ \E i \in 1..Len(s) : FirstOf(s) = {s[i]} /\ s[i].type = 0 /\ g[1] = val[i]
<1> DEFINE n == Len(s) hit == {i \in DOMAIN s : s[i].type = 0}
           k == CHOOSE i \in hit : \A j \in hit : i <= j
<1>1. n \in Nat /\ DOMAIN s = 1..n
  BY SeqLen
<1>2. /\ hit \subseteq 1..n /\ hit \subseteq Nat
      /\ \A i \in 1..n : g[i] = IF i \in hit THEN val[i] ELSE g[i + 1]
      /\ \A i \in hit : s[i].type = 0
  BY <1>1 DEF Steps
<1>3. FirstOf(s) = IF hit = {} THEN {} ELSE {s[k]}
  BY DEF FirstOf
<1> HIDE DEF n, hit
<1>0. IsSearch(n, g, hit, val)
  BY <1>2 DEF IsSearch
<1>4. /\ hit = {} => g[1] = g[n + 1]
      /\ \A i \in hit : (\A j \in hit : i <= j) => g[1] = val[i]
  BY <1>0, <1>1, Search
<1>5. CASE hit = {}
  BY <1>3, <1>4, <1>5 DEF n
<1>6. CASE hit # {}
  <2>1. \E i \in hit : \A j \in hit : i <= j
    BY <1>2, <1>6, Least
  <2>2. k \in hit /\ \A j \in hit : k <= j
    BY <2>1
  <2> HIDE DEF k
  <2>3. g[1] = val[k]
    BY <1>4, <2>2
  <2>4. k \in 1..n /\ s[k].type = 0 /\ FirstOf(s) = {s[k]}
    BY <1>2, <1>3, <1>6, <2>2
  <2>5. QED
    BY <2>3, <2>4 DEF n
<1>7. QED
  BY <1>5, <1>6

(* The entries of a list, and where they stand when it is written out.     *)
LEMMA EntriesFacts ==
  ASSUME NEW R, NEW s \in Seq(R), NEW e, e = [i \in DOMAIN s |-> e[i]],
         \A i \in DOMAIN s : e[i] \in Seq(Byte)
  PROVE  /\ FlattenSeq(e) \in Seq(Byte) /\ Len(e) = Len(s)
         /\ \E off : Layout(off, e, FlattenSeq(e))
<1>1. Len(s) \in Nat /\ DOMAIN s = 1..Len(s)
  BY SeqLen
<1>2. e \in Seq(Seq(Byte)) /\ Len(e) = Len(s)
  <2> DEFINE n == Len(s)
  <2>1. n \in Nat /\ e = [i \in 1..n |-> e[i]] /\ \A i \in 1..n : e[i] \in Seq(Byte)
    BY <1>1
  <2> HIDE DEF n
  <2>2. e \in Seq(Seq(Byte)) /\ Len(e) = n
    BY <2>1
  <2>3. QED
    BY <2>2 DEF n
<1>3. QED
  BY <1>2, FlattenFacts

(* A part of nothing but s is s.                                           *)
LEMMA FromRest ==
  ASSUME NEW X, NEW b \in Seq(X), NEW s \in Seq(X), NEW p \in Nat, Sits(b, p, s),
         Len(b) = p + Len(s)
  PROVE  From(b, p) = s
BY SitsSlice DEF From

(* Both stop when there is nothing left.                                   *)
LEMMA NothingLeft ==
  ASSUME NEW d \in Seq(Byte), Len(d) = 0
  PROVE  hostName[d] = <<>> /\ parseSNI[d] = <<>>
<1>1. Vector(d, 1, 2) = [ok |-> FALSE, end |-> Len(d)]
  BY DEF Vector
<1>2. Vector(d, 2, 2) = [ok |-> FALSE, end |-> Len(d)]
  BY DEF Vector
<1>3. Vector(d, 1, 2).ok = FALSE /\ Vector(d, 2, 2).ok = FALSE
  BY <1>1, <1>2
<1>4. QED
  BY <1>3, HostLoop, SniLoop

(* The two parts of a name.                                                *)
LEMMA NameEntryFacts ==
  ASSUME NEW n, FitName(n)
  PROVE  /\ NameEntry(n) \in Seq(Byte) /\ Len(NameEntry(n)) = 3 + Len(n.name)
         /\ <<n.type>> \in Seq(Byte) /\ Len(<<n.type>>) = 1 /\ n.type \in Byte
         /\ Prefixed(2, n.name) \in Seq(Byte) /\ Len(Prefixed(2, n.name)) = 2 + Len(n.name)
         /\ n.name \in Seq(Byte) /\ Len(n.name) \in Nat /\ Len(n.name) < Size(2)
<1>1. n.type \in Byte /\ n.name \in Seq(Byte) /\ Len(n.name) < Size(2) /\ 2 \in 1..3
  BY DEF FitName
<1>2. Prefixed(2, n.name) \in Seq(Byte) /\ Len(Prefixed(2, n.name)) = 2 + Len(n.name)
  BY <1>1, PrefixedFacts
<1>3. <<n.type>> \in Seq(Byte) /\ Len(<<n.type>>) = 1
  BY <1>1, TupleFacts
<1>4. /\ <<n.type>> \o Prefixed(2, n.name) \in Seq(Byte)
      /\ Len(<<n.type>> \o Prefixed(2, n.name)) = 1 + (2 + Len(n.name))
  <2> DEFINE u == <<n.type>> v == Prefixed(2, n.name)
  <2>1. u \in Seq(Byte) /\ v \in Seq(Byte) /\ Len(u) = 1 /\ Len(v) = 2 + Len(n.name)
    BY <1>2, <1>3
  <2> HIDE DEF u, v
  <2>2. u \o v \in Seq(Byte) /\ Len(u \o v) = Len(u) + Len(v)
    BY <2>1, ConcatLen
  <2>3. QED
    BY <2>1, <2>2, Zenon DEF u, v
<1>5. Len(n.name) \in Nat /\ 1 + (2 + Len(n.name)) = 3 + Len(n.name)
  BY <1>1, SeqLen
<1>6. QED
  BY <1>1, <1>2, <1>3, <1>4, <1>5, Zenon DEF NameEntry

(* hostName at an entry.                                                   *)
LEMMA HostStep ==
  ASSUME NEW b \in Seq(Byte), NEW p \in Nat, NEW n, FitName(n), Sits(b, p, NameEntry(n))
  PROVE  hostName[From(b, p)] = IF n.type = 0 THEN n.name
                                ELSE hostName[From(b, p + (3 + Len(n.name)))]
<1> DEFINE d == From(b, p) m == Len(n.name)
<1>1. m \in Nat /\ 3 + m \in Nat /\ p + (3 + m) <= Len(b) /\ p <= Len(b) /\ 1 + 2 + m = 3 + m
      /\ Len(b) \in Nat /\ 0 + 1 = 1 /\ p + 0 = p
  BY NameEntryFacts, SeqLen DEF Sits
<1>2. d \in Seq(Byte) /\ Sits(d, 0, NameEntry(n))
  BY <1>1, NameEntryFacts, FromFacts, FromSits
<1>3. Sits(d, 0, <<n.type>>) /\ Sits(d, 1, Prefixed(2, n.name))
  <2> DEFINE u == <<n.type>> v == Prefixed(2, n.name)
  <2>1. u \in Seq(Byte) /\ v \in Seq(Byte) /\ Len(u) = 1
    BY NameEntryFacts
  <2>2. Sits(d, 0, u \o v)
    BY <1>2 DEF NameEntry
  <2> HIDE DEF d, u, v
  <2>3. Sits(d, 0, u) /\ Sits(d, 0 + Len(u), v)
    BY <1>2, <2>1, <2>2, SitsParts
  <2>4. QED
    BY <1>1, <2>1, <2>3, Zenon DEF u, v
<1> HIDE DEF d
<1>4. d[1] = n.type
  BY <1>3 DEF Sits
<1>5. Vector(d, 1, 2) = [ok |-> TRUE, end |-> 1 + 2 + m, val |-> n.name]
  BY <1>2, <1>3, NameEntryFacts, VectorWhole
<1>6. Vector(d, 1, 2).ok = TRUE /\ Vector(d, 1, 2).end = 3 + m /\ Vector(d, 1, 2).val = n.name
  BY <1>1, <1>5
<1>7. HostNext(d) = From(b, p + (3 + m))
  BY <1>1, <1>6, FromFrom DEF HostNext, d
<1>8. hostName[d] = IF n.type = 0 THEN n.name ELSE hostName[HostNext(d)]
  BY <1>2, <1>4, <1>6, HostLoop
<1>9. QED
  BY <1>7, <1>8 DEF d

FitNames(ns) == ns \in Seq(Range(ns)) /\ \A i \in DOMAIN ns : FitName(ns[i])

(* hostName finds the first name of type 0.                                *)
LEMMA HostFound ==
  ASSUME NEW ns, FitNames(ns)
  PROVE  /\ NameList(ns) \in Seq(Byte)
         /\ \/ FirstOf(ns) = {} /\ hostName[NameList(ns)] = <<>>
            \/ \E i \in 1..Len(ns) : /\ FirstOf(ns) = {ns[i]}
                                     /\ hostName[NameList(ns)] = ns[i].name
<1> DEFINE e == [i \in DOMAIN ns |-> NameEntry(ns[i])] b == FlattenSeq(e) n == Len(ns)
<1>1. ns \in Seq(Range(ns)) /\ n \in Nat /\ DOMAIN ns = 1..n /\ \A i \in 1..n : FitName(ns[i])
  BY SeqLen DEF FitNames
<1>2. /\ \A i \in DOMAIN ns : e[i] \in Seq(Byte)
      /\ \A i \in 1..n : e[i] = NameEntry(ns[i])
  BY <1>1, NameEntryFacts
<1>3. b \in Seq(Byte) /\ Len(e) = n /\ \E off : Layout(off, e, b)
  <2>1. e = [i \in DOMAIN ns |-> e[i]]
    BY Zenon
  <2> HIDE DEF e
  <2>2. QED
    BY <1>1, <1>2, <2>1, EntriesFacts
<1>4. b = NameList(ns)
  BY Zenon DEF NameList
<1> HIDE DEF e, b
<1>5. PICK off : Layout(off, e, b)
  BY <1>3
<1>6. /\ off \in [1..(n + 1) -> Nat] /\ off[1] = 0 /\ off[n + 1] = Len(b)
      /\ \A i \in 1..n : off[i + 1] = off[i] + Len(e[i]) /\ Sits(b, off[i], e[i])
  BY <1>3, <1>5 DEF Layout
<1> DEFINE g == [i \in 1..(n + 1) |-> hostName[From(b, off[i])]]
           val == [i \in 1..n |-> ns[i].name]
<1>7. ASSUME NEW i \in 1..n
      PROVE  g[i] = IF ns[i].type = 0 THEN val[i] ELSE g[i + 1]
  <2>1. i \in 1..(n + 1) /\ i + 1 \in 1..(n + 1) /\ off[i] \in Nat
    BY <1>1, <1>6
  <2>2. FitName(ns[i]) /\ Sits(b, off[i], NameEntry(ns[i]))
        /\ off[i + 1] = off[i] + (3 + Len(ns[i].name))
    BY <1>1, <1>2, <1>6, NameEntryFacts
  <2>3. hostName[From(b, off[i])] = IF ns[i].type = 0 THEN ns[i].name
                                    ELSE hostName[From(b, off[i + 1])]
    <3> DEFINE p == off[i] x == ns[i]
    <3>1. p \in Nat /\ FitName(x) /\ Sits(b, p, NameEntry(x))
      BY <2>1, <2>2
    <3> HIDE DEF p, x
    <3>2. hostName[From(b, p)] = IF x.type = 0 THEN x.name
                                 ELSE hostName[From(b, p + (3 + Len(x.name)))]
      BY <1>3, <3>1, HostStep
    <3>3. QED
      BY <2>2, <3>2 DEF p, x
  <2>4. QED
    BY <2>1, <2>3
<1>8. g[1] = hostName[b]
  <2>1. Sits(b, 0, b) /\ Len(b) = 0 + Len(b) /\ 1 \in 1..(n + 1)
    BY <1>1, <1>3, SitsFirst, SeqLen
  <2>2. From(b, 0) = b
    BY <1>3, <2>1, FromRest
  <2>3. QED
    BY <1>6, <2>1, <2>2
<1>9. g[n + 1] = <<>>
  <2>1. n + 1 \in 1..(n + 1) /\ Len(b) \in Nat /\ Len(b) - Len(b) = 0 /\ Len(b) <= Len(b)
    BY <1>1, <1>3, SeqLen
  <2>2. From(b, Len(b)) \in Seq(Byte) /\ Len(From(b, Len(b))) = 0
    BY <1>3, <2>1, FromFacts
  <2>3. hostName[From(b, Len(b))] = <<>>
    BY <2>2, NothingLeft
  <2>4. QED
    BY <1>6, <2>1, <2>3
<1>10. \/ FirstOf(ns) = {} /\ g[1] = g[n + 1]
       \/ \E i \in 1..n : FirstOf(ns) = {ns[i]} /\ ns[i].type = 0 /\ g[1] = val[i]
  <2>1. Steps(ns, g, val)
    BY <1>7 DEF Steps
  <2> HIDE DEF g, val
  <2>2. QED
    BY <1>1, <2>1, FirstFacts
<1>11. QED
  BY <1>3, <1>4, <1>8, <1>9, <1>10

-----------------------------------------------------------------------------
(* The extensions                                                          *)

Data(e) == IF e.type = 0 THEN Prefixed(2, NameList(e.names)) ELSE e.data

(* The two parts of an extension; its type is 0 if both bytes are.         *)
LEMMA ExtensionFacts ==
  ASSUME NEW e, FitExtension(e)
  PROVE  /\ Extension(e) = BigEndian(2, e.type) \o Prefixed(2, Data(e))
         /\ Extension(e) \in Seq(Byte) /\ Len(Extension(e)) = 4 + Len(Data(e))
         /\ BigEndian(2, e.type) \in Seq(Byte) /\ Len(BigEndian(2, e.type)) = 2
         /\ BigEndian(2, e.type)[1] + BigEndian(2, e.type)[2] = 0 <=> e.type = 0
         /\ Prefixed(2, Data(e)) \in Seq(Byte) /\ Len(Prefixed(2, Data(e))) = 2 + Len(Data(e))
         /\ Data(e) \in Seq(Byte) /\ Len(Data(e)) \in Nat /\ Len(Data(e)) < Size(2)
         /\ e.type = 0 => /\ NameList(e.names) \in Seq(Byte)
                          /\ Len(NameList(e.names)) < Size(2)
<1> DEFINE u == BigEndian(2, e.type) d == Data(e) v == Prefixed(2, d) l == NameList(e.names)
<1>1. e.type \in Nat /\ e.type < Size(2) /\ 2 \in 1..3 /\ Size(2) = 256 * 256
  <2>1. Size(2) = 256 * 256
    BY DEF Size
  <2>2. e.type \in 0..(Size(2) - 1)
    BY DEF FitExtension
  <2>3. QED
    BY <2>1, <2>2
<1>2. u \in Seq(Byte) /\ Len(u) = 2
  BY <1>1, NumberRead
<1>3. u[1] + u[2] = 0 <=> e.type = 0
  <2> DEFINE t == e.type
  <2>1. u = <<t \div 256, t % 256>>
    BY DEF BigEndian
  <2>2. u[1] = t \div 256 /\ u[2] = t % 256
    BY <2>1
  <2>3. t = 256 * (t \div 256) + (t % 256) /\ t % 256 \in Byte /\ t \div 256 \in Nat
    BY <1>1, Bytes
  <2> HIDE DEF t, u
  <2>4. u[1] + u[2] = 0 <=> t = 0
    BY <2>2, <2>3 DEF Byte
  <2>5. QED
    BY <2>4 DEF t
<1>4. e.type = 0 => l \in Seq(Byte) /\ Len(l) \in Nat /\ Len(l) + 2 < Size(2)
  <2>1. FitNames(e.names) /\ Len(l) + 2 < Size(2)
    BY DEF FitExtension, FitNames
  <2>2. l \in Seq(Byte)
    BY <2>1, HostFound
  <2>3. QED
    BY <2>1, <2>2, SeqLen
<1>5. d \in Seq(Byte) /\ Len(d) \in Nat /\ Len(d) < Size(2)
  <2>1. CASE e.type = 0
    <3>1. d = Prefixed(2, l) /\ l \in Seq(Byte) /\ Len(l) \in Nat /\ Len(l) + 2 < Size(2)
      BY <1>4, <2>1 DEF Data
    <3> HIDE DEF d, l
    <3>2. Len(l) < Size(2)
      BY <1>1, <3>1
    <3>3. d \in Seq(Byte) /\ Len(d) = 2 + Len(l)
      BY <1>1, <3>1, <3>2, PrefixedFacts
    <3>4. QED
      BY <1>1, <3>1, <3>3
  <2>2. CASE e.type # 0
    <3>1. d = e.data /\ d \in Seq(Byte) /\ Len(d) < Size(2)
      BY <2>2 DEF Data, FitExtension
    <3>2. QED
      BY <3>1, SeqLen
  <2>3. QED
    BY <2>1, <2>2
<1> HIDE DEF d
<1>6. v \in Seq(Byte) /\ Len(v) = 2 + Len(d)
  BY <1>1, <1>5, PrefixedFacts
<1>7. Extension(e) = u \o v
  BY Zenon DEF Extension, Data, d
<1> HIDE DEF u, v
<1>8. u \o v \in Seq(Byte) /\ Len(u \o v) = Len(u) + Len(v)
  BY <1>2, <1>6, ConcatLen
<1>9. Len(Extension(e)) = 4 + Len(d)
  BY <1>2, <1>5, <1>6, <1>7, <1>8
<1>10. e.type = 0 => l \in Seq(Byte) /\ Len(l) < Size(2)
  BY <1>1, <1>4
<1>11. QED
  BY <1>2, <1>3, <1>5, <1>6, <1>7, <1>8, <1>9, <1>10, Zenon DEF u, v, d

(* parseSNI at an extension.                                               *)
LEMMA SniStep ==
  ASSUME NEW b \in Seq(Byte), NEW p \in Nat, NEW e, FitExtension(e), Sits(b, p, Extension(e))
  PROVE  parseSNI[From(b, p)] = IF e.type = 0 THEN hostName[NameList(e.names)]
                                ELSE parseSNI[From(b, p + (4 + Len(Data(e))))]
<1> DEFINE d == From(b, p) m == Len(Data(e)) l == NameList(e.names)
<1>1. m \in Nat /\ 4 + m \in Nat /\ p + (4 + m) <= Len(b) /\ p <= Len(b) /\ 2 + 2 + m = 4 + m
      /\ Len(b) \in Nat /\ 0 + 2 = 2 /\ p + 0 = p
  BY ExtensionFacts, SeqLen DEF Sits
<1>2. d \in Seq(Byte) /\ Sits(d, 0, Extension(e))
  BY <1>1, ExtensionFacts, FromFacts, FromSits
<1>3. Sits(d, 0, BigEndian(2, e.type)) /\ Sits(d, 2, Prefixed(2, Data(e)))
  <2> DEFINE u == BigEndian(2, e.type) v == Prefixed(2, Data(e))
  <2>1. u \in Seq(Byte) /\ v \in Seq(Byte) /\ Len(u) = 2
    BY ExtensionFacts
  <2>2. Sits(d, 0, u \o v)
    BY <1>2, ExtensionFacts
  <2> HIDE DEF d, u, v
  <2>3. Sits(d, 0, u) /\ Sits(d, 0 + Len(u), v)
    BY <1>2, <2>1, <2>2, SitsParts
  <2>4. QED
    BY <1>1, <2>1, <2>3, Zenon DEF u, v
<1> HIDE DEF d
<1>4. d[1] + d[2] = 0 <=> e.type = 0
  <2>1. d[1] = BigEndian(2, e.type)[1] /\ d[2] = BigEndian(2, e.type)[2]
    BY <1>3, ExtensionFacts DEF Sits
  <2>2. QED
    BY <2>1, ExtensionFacts
<1>5. Vector(d, 2, 2) = [ok |-> TRUE, end |-> 2 + 2 + m, val |-> Data(e)]
  BY <1>2, <1>3, ExtensionFacts, VectorWhole
<1>6. /\ Vector(d, 2, 2).ok = TRUE /\ Vector(d, 2, 2).end = 4 + m
      /\ Vector(d, 2, 2).val = Data(e)
  BY <1>1, <1>5
<1>7. SniNext(d) = From(b, p + (4 + m))
  BY <1>1, <1>6, FromFrom DEF SniNext, d
<1>8. CASE e.type = 0
  <2>1. Data(e) = Prefixed(2, l) /\ l \in Seq(Byte) /\ Len(l) < Size(2)
    BY <1>8, ExtensionFacts DEF Data
  <2> HIDE DEF l
  <2>2. /\ Prefixed(2, l) \in Seq(Byte) /\ Len(Prefixed(2, l)) = 2 + Len(l)
        /\ BigEndian(2, Len(l)) \in Seq(Byte) /\ Len(BigEndian(2, Len(l))) = 2
    BY <2>1, PrefixedFacts
  <2>3. Sits(Prefixed(2, l), 0, Prefixed(2, l)) /\ Sits(Prefixed(2, l), 2, l)
    <3>1. Sits(BigEndian(2, Len(l)) \o l, Len(BigEndian(2, Len(l))), l)
      BY <2>1, <2>2, SitsFirst
    <3>2. Sits(Prefixed(2, l), 2, l)
      BY <2>2, <3>1, Zenon DEF Prefixed
    <3>3. Sits(Prefixed(2, l), 0, Prefixed(2, l))
      BY <2>2, SitsFirst
    <3>4. QED
      BY <3>2, <3>3
  <2>4. SniList(d).ok = TRUE
    <3>1. Vector(Prefixed(2, l), 0, 2) = [ok |-> TRUE, end |-> 0 + 2 + Len(l), val |-> l]
      BY <2>1, <2>2, <2>3, VectorWhole
    <3>2. QED
      BY <1>6, <2>1, <3>1 DEF SniList
  <2>5. From(Prefixed(2, l), 2) = l
    BY <2>1, <2>2, <2>3, FromRest
  <2>6. parseSNI[d] = hostName[l]
    BY <1>2, <1>4, <1>6, <1>8, <2>1, <2>4, <2>5, SniLoop
  <2>7. QED
    BY <1>8, <2>6 DEF d, l
<1>9. CASE e.type # 0
  <2>1. parseSNI[d] = parseSNI[SniNext(d)]
    BY <1>2, <1>4, <1>6, <1>9, SniLoop
  <2>2. QED
    BY <1>7, <1>9, <2>1 DEF d
<1>10. QED
  BY <1>8, <1>9

FitExtensions(es) == es \in Seq(Range(es)) /\ \A i \in DOMAIN es : FitExtension(es[i])

(* parseSNI stops at the first extension of type 0.                        *)
LEMMA SniFound ==
  ASSUME NEW h, FitExtensions(h.exts)
  PROVE  Extensions(h) \in Seq(Byte) /\ parseSNI[Extensions(h)] = SentName(h)
<1> DEFINE es == h.exts
           e == [i \in DOMAIN es |-> Extension(es[i])] b == FlattenSeq(e) n == Len(es)
<1>1. es \in Seq(Range(es)) /\ n \in Nat /\ DOMAIN es = 1..n
      /\ \A i \in 1..n : FitExtension(es[i])
  BY SeqLen DEF FitExtensions
<1>2. /\ \A i \in DOMAIN es : e[i] \in Seq(Byte)
      /\ \A i \in 1..n : e[i] = Extension(es[i])
  BY <1>1, ExtensionFacts
<1>3. b \in Seq(Byte) /\ Len(e) = n /\ \E off : Layout(off, e, b)
  <2>1. e = [i \in DOMAIN es |-> e[i]]
    BY Zenon
  <2> HIDE DEF e, es
  <2>2. QED
    BY <1>1, <1>2, <2>1, EntriesFacts
<1>4. b = Extensions(h)
  BY Zenon DEF Extensions
<1> HIDE DEF e, b
<1>5. PICK off : Layout(off, e, b)
  BY <1>3
<1>6. /\ off \in [1..(n + 1) -> Nat] /\ off[1] = 0 /\ off[n + 1] = Len(b)
      /\ \A i \in 1..n : off[i + 1] = off[i] + Len(e[i]) /\ Sits(b, off[i], e[i])
  BY <1>3, <1>5 DEF Layout
<1> HIDE DEF es
<1> DEFINE g == [i \in 1..(n + 1) |-> parseSNI[From(b, off[i])]]
           val == [i \in 1..n |-> hostName[NameList(es[i].names)]]
<1>7. ASSUME NEW i \in 1..n
      PROVE  g[i] = IF es[i].type = 0 THEN val[i] ELSE g[i + 1]
  <2>1. i \in 1..(n + 1) /\ i + 1 \in 1..(n + 1) /\ off[i] \in Nat
    BY <1>1, <1>6
  <2>2. FitExtension(es[i]) /\ Sits(b, off[i], Extension(es[i]))
        /\ off[i + 1] = off[i] + (4 + Len(Data(es[i])))
    BY <1>1, <1>2, <1>6, ExtensionFacts
  <2>3. parseSNI[From(b, off[i])] = IF es[i].type = 0 THEN hostName[NameList(es[i].names)]
                                    ELSE parseSNI[From(b, off[i + 1])]
    <3> DEFINE p == off[i] x == es[i]
    <3>1. p \in Nat /\ FitExtension(x) /\ Sits(b, p, Extension(x))
      BY <2>1, <2>2
    <3> HIDE DEF p, x
    <3>2. parseSNI[From(b, p)] = IF x.type = 0 THEN hostName[NameList(x.names)]
                                 ELSE parseSNI[From(b, p + (4 + Len(Data(x))))]
      BY <1>3, <3>1, SniStep
    <3>3. QED
      BY <2>2, <3>2 DEF p, x
  <2>4. QED
    BY <2>1, <2>3
<1>8. g[1] = parseSNI[b]
  <2>1. Sits(b, 0, b) /\ Len(b) = 0 + Len(b) /\ 1 \in 1..(n + 1)
    BY <1>1, <1>3, SitsFirst, SeqLen
  <2>2. From(b, 0) = b
    BY <1>3, <2>1, FromRest
  <2>3. QED
    BY <1>6, <2>1, <2>2
<1>9. g[n + 1] = <<>>
  <2>1. n + 1 \in 1..(n + 1) /\ Len(b) \in Nat /\ Len(b) - Len(b) = 0 /\ Len(b) <= Len(b)
    BY <1>1, <1>3, SeqLen
  <2>2. From(b, Len(b)) \in Seq(Byte) /\ Len(From(b, Len(b))) = 0
    BY <1>3, <2>1, FromFacts
  <2>3. parseSNI[From(b, Len(b))] = <<>>
    BY <2>2, NothingLeft
  <2>4. QED
    BY <1>6, <2>1, <2>3
<1>10. \/ FirstOf(es) = {} /\ g[1] = g[n + 1]
       \/ \E i \in 1..n : FirstOf(es) = {es[i]} /\ es[i].type = 0 /\ g[1] = val[i]
  <2>1. Steps(es, g, val)
    BY <1>7 DEF Steps
  <2> HIDE DEF g, val
  <2>2. QED
    BY <1>1, <2>1, FirstFacts
<1> HIDE DEF g
<1>11. CASE FirstOf(es) = {} /\ g[1] = g[n + 1]
  <2>1. SentName(h) = <<>>
    BY <1>11 DEF SentName, es
  <2>2. QED
    BY <1>3, <1>4, <1>8, <1>9, <1>11, <2>1
<1>12. ASSUME NEW i \in 1..n, FirstOf(es) = {es[i]}, es[i].type = 0, g[1] = val[i]
       PROVE  parseSNI[b] = SentName(h)
  <2> DEFINE ns == es[i].names
  <2>1. FitNames(ns)
    BY <1>1 DEF FitExtension, FitNames
  <2>2. parseSNI[b] = hostName[NameList(ns)]
    BY <1>8, <1>12
  <2> DEFINE hosts == UNION {FirstOf(x.names) : x \in FirstOf(es)}
  <2>3. hosts = FirstOf(ns)
    BY <1>12
  <2>4. SentName(h) = IF FirstOf(ns) = {} THEN <<>> ELSE (CHOOSE x \in FirstOf(ns) : TRUE).name
    <3>1. SentName(h) = IF hosts = {} THEN <<>> ELSE (CHOOSE x \in hosts : TRUE).name
      BY DEF SentName, es
    <3> HIDE DEF hosts, ns
    <3>2. QED
      BY <2>3, <3>1, Zenon
  <2> HIDE DEF ns
  <2>5. CASE FirstOf(ns) = {} /\ hostName[NameList(ns)] = <<>>
    BY <2>2, <2>4, <2>5
  <2>6. ASSUME NEW j \in 1..Len(ns), FirstOf(ns) = {ns[j]}, hostName[NameList(ns)] = ns[j].name
        PROVE  parseSNI[b] = SentName(h)
    <3>1. (CHOOSE x \in FirstOf(ns) : TRUE) = ns[j] /\ FirstOf(ns) # {}
      BY <2>6
    <3>2. QED
      BY <2>2, <2>4, <2>6, <3>1
  <2>7. QED
    BY <2>1, <2>5, <2>6, HostFound
<1>13. QED
  BY <1>3, <1>4, <1>10, <1>11, <1>12

-----------------------------------------------------------------------------
(* The ClientHello                                                         *)

(* Where four parts stand that follow one another.                         *)
Chain(z, p, q, r, t, f, b) == f = ((z \o p) \o q) \o r /\ b = f \o t

LEMMA FourParts ==
  ASSUME NEW X, NEW z \in Seq(X), NEW p \in Seq(X), NEW q \in Seq(X), NEW r \in Seq(X),
         NEW t \in Seq(X), NEW f, NEW b, Chain(z, p, q, r, t, f, b)
  PROVE  /\ b \in Seq(X) /\ f \in Seq(X)
         /\ Len(f) = Len(z) + Len(p) + Len(q) + Len(r)
         /\ Len(b) = Len(z) + Len(p) + Len(q) + Len(r) + Len(t)
         /\ Sits(b, Len(z), p) /\ Sits(b, Len(z) + Len(p), q)
         /\ Sits(b, Len(z) + Len(p) + Len(q), r)
         /\ Sits(b, Len(z) + Len(p) + Len(q) + Len(r), t)
<1> DEFINE b1 == z \o p b2 == b1 \o q b3 == b2 \o r b4 == b3 \o t
<1>1. Len(z) \in Nat /\ Len(p) \in Nat /\ Len(q) \in Nat /\ Len(r) \in Nat /\ Len(t) \in Nat
  BY SeqLen
<1>2. b1 \in Seq(X) /\ Len(b1) = Len(z) + Len(p) /\ Sits(b1, Len(z), p)
  BY ConcatLen, SitsFirst
<1> HIDE DEF b1
<1>3. /\ b2 \in Seq(X) /\ Len(b2) = Len(b1) + Len(q) /\ Sits(b2, Len(b1), q)
      /\ Sits(b2, Len(z), p)
  BY <1>1, <1>2, ConcatLen, SitsFirst, SitsGrows
<1> HIDE DEF b2
<1>4. Len(b1) \in Nat /\ Len(b2) \in Nat
  BY <1>2, <1>3, SeqLen
<1>5. /\ b3 \in Seq(X) /\ Len(b3) = Len(b2) + Len(r) /\ Sits(b3, Len(b2), r)
      /\ Sits(b3, Len(b1), q) /\ Sits(b3, Len(z), p)
  BY <1>1, <1>3, <1>4, ConcatLen, SitsFirst, SitsGrows
<1> HIDE DEF b3
<1>6. Len(b3) \in Nat
  BY <1>5, SeqLen
<1>7. /\ b4 \in Seq(X) /\ Len(b4) = Len(b3) + Len(t) /\ Sits(b4, Len(b3), t)
      /\ Sits(b4, Len(b2), r) /\ Sits(b4, Len(b1), q) /\ Sits(b4, Len(z), p)
  BY <1>1, <1>4, <1>5, <1>6, ConcatLen, SitsFirst, SitsGrows
<1> HIDE DEF b4
<1>8. /\ b4 \in Seq(X) /\ b3 \in Seq(X)
      /\ Len(b3) = Len(z) + Len(p) + Len(q) + Len(r)
      /\ Len(b4) = Len(z) + Len(p) + Len(q) + Len(r) + Len(t)
      /\ Sits(b4, Len(z), p) /\ Sits(b4, Len(z) + Len(p), q)
      /\ Sits(b4, Len(z) + Len(p) + Len(q), r)
      /\ Sits(b4, Len(z) + Len(p) + Len(q) + Len(r), t)
  BY <1>2, <1>3, <1>5, <1>7
<1>9. QED
  BY <1>8 DEF b1, b2, b3, b4, Chain

(* The vector s stands in b from p to q.                                   *)
Holds(b, p, w, s, q) == Len(s) < Size(w) /\ Sits(b, p, Prefixed(w, s)) /\ q = p + w + Len(s)

(* The same vector looked for in the first m bytes of b.                   *)
LEMMA VectorRead ==
  ASSUME NEW X, Byte \subseteq X, NEW b \in Seq(X), NEW m \in Nat, m <= Len(b), NEW w \in 1..3,
         NEW s \in Seq(X), NEW p \in Nat, NEW q, Holds(b, p, w, s, q)
  PROVE  LET v == Vector(SubSeq(b, 1, m), p, w) IN
         /\ q \in Nat /\ p + w <= q /\ q <= Len(b)
         /\ q <= m => v.ok = TRUE /\ v.end = q /\ v.val = s
         /\ ~(q <= m) => v.ok = FALSE
<1> DEFINE v == Vector(SubSeq(b, 1, m), p, w)
<1>1. Len(s) \in Nat /\ m \in Nat /\ m <= Len(b) /\ Len(b) \in Nat
  BY SeqLen
<1>2. Len(s) < Size(w) /\ Sits(b, p, Prefixed(w, s))
  BY DEF Holds
<1>3. /\ q = p + w + Len(s)
      /\ p + Len(Prefixed(w, s)) <= Len(b) /\ Len(Prefixed(w, s)) = w + Len(s)
  BY <1>2, PrefixedFacts DEF Holds, Sits
<1>4. ReadOf(b, m, p, w, s)
  BY <1>2, VectorAt
<1>5. v = IF q <= m THEN [ok |-> TRUE, end |-> q, val |-> s] ELSE [ok |-> FALSE, end |-> m]
  BY <1>3, <1>4, Zenon DEF ReadOf
<1> HIDE DEF v
<1>6. /\ q <= m => v.ok = TRUE /\ v.end = q /\ v.val = s
      /\ ~(q <= m) => v.ok = FALSE
  BY <1>5
<1>7. q \in Nat /\ p + w <= q /\ q <= Len(b)
  BY <1>1, <1>3
<1>8. QED
  BY <1>6, <1>7 DEF v

(* Four vectors stand in b one behind the other.                           *)
Vectors(b, sid, cs, cm, ext, p3) ==
    \E p1, p2 : /\ Holds(b, 2 + randomLen, 1, sid, p1) /\ Holds(b, p1, 2, cs, p2)
                /\ Holds(b, p2, 1, cm, p3) /\ Holds(b, p3, 2, ext, Len(b))

(* parseBody of the first m bytes of b.                                    *)
LEMMA BodyRead ==
  ASSUME NEW X, Byte \subseteq X, NEW b \in Seq(X), NEW m \in 0..Len(b),
         NEW sid \in Seq(X), NEW cs \in Seq(X), NEW cm \in Seq(X), NEW ext \in Seq(X),
         NEW p3, Vectors(b, sid, cs, cm, ext, p3)
  PROVE  parseBody(SubSeq(b, 1, m)) =
            IF m = Len(b) THEN [ok |-> TRUE, sid |-> sid, sni |-> parseSNI[ext]]
            ELSE IF m \in p3..(p3 + 1) THEN [ok |-> TRUE, sid |-> sid, sni |-> <<>>]
            ELSE errParseCH
<1> DEFINE c == SubSeq(b, 1, m) p0 == 2 + randomLen
<1>1. PICK p1, p2 : /\ Holds(b, p0, 1, sid, p1) /\ Holds(b, p1, 2, cs, p2)
                    /\ Holds(b, p2, 1, cm, p3) /\ Holds(b, p3, 2, ext, Len(b))
  BY DEF Vectors
<1>2. p0 \in Nat
  BY HelloAssumption DEF HelloAssumption
<1> DEFINE v1 == Vector(c, p0, 1)
           v2 == Vector(c, v1.end, 2)
           v3 == Vector(c, v2.end, 1)
           v4 == Vector(c, v3.end, 2)
           Res == IF ~(v1.ok /\ v2.ok /\ v3.ok) THEN errParseCH
                  ELSE IF v3.end + 2 > Len(c) THEN [ok |-> TRUE, sid |-> v1.val, sni |-> <<>>]
                  ELSE IF v4.ok THEN [ok |-> TRUE, sid |-> v1.val, sni |-> parseSNI[v4.val]]
                  ELSE errParseCH
<1>3. parseBody(c) = Res
  BY Zenon DEF parseBody
<1> HIDE DEF p0
<1>4. Len(b) \in Nat /\ m \in Nat /\ m <= Len(b) /\ 1 \in 1..3 /\ 2 \in 1..3
  BY SeqLen
<1>5. Len(c) = m
  <2>1. Len(SubSeq(b, 0 + 1, m)) = m - 0
    BY <1>4, SliceFacts
  <2>2. QED
    BY <1>4, <2>1
<1> DEFINE Found(p, w, s, q) ==
             /\ q \in Nat /\ p + w <= q /\ q <= Len(b)
             /\ q <= m => Vector(c, p, w).ok = TRUE /\ Vector(c, p, w).end = q
                          /\ Vector(c, p, w).val = s
             /\ ~(q <= m) => Vector(c, p, w).ok = FALSE
<1>6. ASSUME NEW p \in Nat, NEW w \in 1..3, NEW s \in Seq(X), NEW q, Holds(b, p, w, s, q)
      PROVE  Found(p, w, s, q)
  BY <1>4, <1>6, VectorRead
<1> HIDE DEF Found
<1>7. /\ p1 \in Nat
      /\ p1 <= m => v1.ok = TRUE /\ v1.end = p1 /\ v1.val = sid
      /\ ~(p1 <= m) => v1.ok = FALSE
  <2>1. Found(p0, 1, sid, p1)
    BY <1>2, <1>4, <1>1, <1>6, Zenon
  <2>2. QED
    BY <2>1 DEF Found
<1>8. /\ p2 \in Nat /\ p1 + 2 <= p2
      /\ p2 <= m => Vector(c, p1, 2).ok = TRUE /\ Vector(c, p1, 2).end = p2
      /\ ~(p2 <= m) => Vector(c, p1, 2).ok = FALSE
  <2>1. Found(p1, 2, cs, p2)
    BY <1>4, <1>1, <1>6, <1>7, Zenon
  <2>2. QED
    BY <2>1 DEF Found
<1>9. /\ p3 \in Nat /\ p2 + 1 <= p3
      /\ p3 <= m => Vector(c, p2, 1).ok = TRUE /\ Vector(c, p2, 1).end = p3
      /\ ~(p3 <= m) => Vector(c, p2, 1).ok = FALSE
  <2>1. Found(p2, 1, cm, p3)
    BY <1>4, <1>1, <1>6, <1>8, Zenon
  <2>2. QED
    BY <2>1 DEF Found
<1>10. /\ p3 + 2 <= Len(b)
       /\ Len(b) <= m => Vector(c, p3, 2).ok = TRUE /\ Vector(c, p3, 2).val = ext
       /\ ~(Len(b) <= m) => Vector(c, p3, 2).ok = FALSE
  <2>1. Found(p3, 2, ext, Len(b))
    BY <1>4, <1>1, <1>6, <1>9, Zenon
  <2>2. QED
    BY <2>1 DEF Found
<1>11. /\ v1.end = p1 => v2 = Vector(c, p1, 2)
       /\ v2.end = p2 => v3 = Vector(c, p2, 1)
       /\ v3.end = p3 => v4 = Vector(c, p3, 2)
  BY Zenon
<1> HIDE DEF c, v1, v2, v3, v4
<1>12. CASE ~(p3 <= m)
  <2>1. ~(v1.ok /\ v2.ok /\ v3.ok)
    BY <1>4, <1>7, <1>8, <1>9, <1>11, <1>12
  <2>2. m # Len(b) /\ m \notin p3..(p3 + 1)
    BY <1>4, <1>9, <1>10, <1>12
  <2>3. QED
    BY <1>3, <2>1, <2>2 DEF c
<1>13. CASE p3 <= m
  <2>1. p1 <= m /\ p2 <= m
    BY <1>4, <1>7, <1>8, <1>9, <1>13
  <2>2. v1.ok = TRUE /\ v1.val = sid /\ v2.ok = TRUE /\ v3.ok = TRUE /\ v3.end = p3
    BY <1>7, <1>8, <1>9, <1>11, <1>13, <2>1
  <2>3. CASE m \in p3..(p3 + 1)
    <3>1. v3.end + 2 > Len(c) /\ m # Len(b)
      BY <1>4, <1>5, <1>9, <1>10, <2>2, <2>3
    <3>2. QED
      BY <1>3, <2>2, <2>3, <3>1 DEF c
  <2>4. CASE m \notin p3..(p3 + 1)
    <3>1. ~(v3.end + 2 > Len(c))
      BY <1>4, <1>5, <1>9, <1>13, <2>2, <2>4
    <3>2. Res = IF v4.ok THEN [ok |-> TRUE, sid |-> sid, sni |-> parseSNI[v4.val]] ELSE errParseCH
      BY <2>2, <3>1
    <3>3. m = Len(b) <=> Len(b) <= m
      BY <1>4
    <3>4. QED
      BY <1>3, <1>10, <1>11, <2>2, <2>4, <3>2, <3>3 DEF c
  <2>5. QED
    BY <2>3, <2>4
<1>14. QED
  BY <1>12, <1>13

(* Where the vectors of a ClientHello are.                                 *)
LEMMA HelloFacts ==
  ASSUME NEW h \in Hello, NEW X, Byte \subseteq X, h.sid \in Seq(X)
  PROVE  /\ Body(h) \in Seq(X)
         /\ FitExtensions(h.exts) /\ Len(Body(h)) + 4 < Size(2)
         /\ Len(Fixed(h)) \in Nat /\ Len(Body(h)) \in Nat
         /\ Vectors(Body(h), h.sid, h.suites, h.comps, Extensions(h), Len(Fixed(h)))
         /\ h.suites \in Seq(X) /\ h.comps \in Seq(X) /\ Extensions(h) \in Seq(X)
<1>1. /\ Len(h.sid) < Size(1)
      /\ h.suites \in Seq(Byte) /\ Len(h.suites) < Size(2)
      /\ h.comps \in Seq(Byte) /\ Len(h.comps) < Size(1)
      /\ FitExtensions(h.exts)
      /\ Len(Extensions(h)) < Size(2) /\ Len(Body(h)) + 4 < Size(2) /\ randomLen \in Nat
  BY HelloAssumption DEF HelloAssumption, FitExtensions
<1>2. Extensions(h) \in Seq(Byte)
  BY <1>1, SniFound
<1>3. /\ Byte \subseteq X /\ h.sid \in Seq(X) /\ h.suites \in Seq(X) /\ h.comps \in Seq(X)
      /\ Extensions(h) \in Seq(X)
  <2>1. Seq(Byte) \subseteq Seq(X)
    OBVIOUS
  <2>2. QED
    BY <1>1, <1>2, <2>1, Zenon
<1> DEFINE z == [i \in 1..(2 + randomLen) |-> 3]
           p == Prefixed(1, h.sid) q == Prefixed(2, h.suites) r == Prefixed(1, h.comps)
           t == Prefixed(2, Extensions(h))
<1>4. z \in Seq(X) /\ Len(z) = 2 + randomLen /\ 2 + randomLen \in Nat
  <2> DEFINE n == 2 + randomLen
  <2>1. n \in Nat /\ 3 \in X
    BY <1>1, <1>3 DEF Byte
  <2> HIDE DEF n
  <2>2. [i \in 1..n |-> 3] \in Seq(X) /\ Len([i \in 1..n |-> 3]) = n
    BY <2>1
  <2>3. QED
    BY <2>1, <2>2 DEF n
<1> HIDE DEF z
<1>5. /\ p \in Seq(X) /\ Len(p) = 1 + Len(h.sid)
      /\ q \in Seq(X) /\ Len(q) = 2 + Len(h.suites)
      /\ r \in Seq(X) /\ Len(r) = 1 + Len(h.comps)
      /\ t \in Seq(X) /\ Len(t) = 2 + Len(Extensions(h))
  <2>1. \A w \in 1..3, s \in Seq(X) :
            Len(s) < Size(w) => Prefixed(w, s) \in Seq(X) /\ Len(Prefixed(w, s)) = w + Len(s)
    BY <1>3, PrefixedFacts
  <2>2. 1 \in 1..3 /\ 2 \in 1..3
    OBVIOUS
  <2>3. QED
    BY <1>1, <1>3, <2>1, <2>2, Zenon
<1>6. Fixed(h) = ((z \o p) \o q) \o r /\ Body(h) = Fixed(h) \o t
  BY Zenon DEF Fixed, Body, z
<1> DEFINE p0 == 2 + randomLen
           p1 == p0 + 1 + Len(h.sid)
           p2 == p1 + 2 + Len(h.suites)
           p3 == p2 + 1 + Len(h.comps)
<1> HIDE DEF p, q, r, t
<1>7. /\ Body(h) \in Seq(X) /\ Len(Fixed(h)) = Len(z) + Len(p) + Len(q) + Len(r)
      /\ Fixed(h) \in Seq(X)
      /\ Len(Body(h)) = Len(z) + Len(p) + Len(q) + Len(r) + Len(t)
      /\ Sits(Body(h), Len(z), p) /\ Sits(Body(h), Len(z) + Len(p), q)
      /\ Sits(Body(h), Len(z) + Len(p) + Len(q), r)
      /\ Sits(Body(h), Len(z) + Len(p) + Len(q) + Len(r), t)
  <2> DEFINE f == Fixed(h) b == Body(h)
  <2>1. Chain(z, p, q, r, t, f, b)
    BY <1>6 DEF Chain
  <2> HIDE DEF f, b
  <2>0. z \in Seq(X) /\ p \in Seq(X) /\ q \in Seq(X) /\ r \in Seq(X) /\ t \in Seq(X)
    BY <1>4, <1>5
  <2>2. /\ b \in Seq(X) /\ f \in Seq(X)
        /\ Len(f) = Len(z) + Len(p) + Len(q) + Len(r)
        /\ Len(b) = Len(z) + Len(p) + Len(q) + Len(r) + Len(t)
        /\ Sits(b, Len(z), p) /\ Sits(b, Len(z) + Len(p), q)
        /\ Sits(b, Len(z) + Len(p) + Len(q), r)
        /\ Sits(b, Len(z) + Len(p) + Len(q) + Len(r), t)
    BY <2>0, <2>1, FourParts
  <2>3. QED
    BY <2>2, Zenon DEF f, b
<1>8. /\ Len(z) = p0 /\ Len(z) + Len(p) = p1 /\ Len(z) + Len(p) + Len(q) = p2
      /\ Len(z) + Len(p) + Len(q) + Len(r) = p3
      /\ Len(z) + Len(p) + Len(q) + Len(r) + Len(t) = p3 + 2 + Len(Extensions(h))
  <2>1. /\ Len(h.sid) \in Nat /\ Len(h.suites) \in Nat /\ Len(h.comps) \in Nat
        /\ Len(Extensions(h)) \in Nat
    BY <1>3, SeqLen
  <2> DEFINE n1 == Len(h.sid) n2 == Len(h.suites) n3 == Len(h.comps) n4 == Len(Extensions(h))
             lz == Len(z) lp == Len(p) lq == Len(q) lr == Len(r) lt == Len(t)
  <2>2. /\ n1 \in Nat /\ n2 \in Nat /\ n3 \in Nat /\ n4 \in Nat /\ randomLen \in Nat
        /\ lz = 2 + randomLen /\ lp = 1 + n1 /\ lq = 2 + n2 /\ lr = 1 + n3 /\ lt = 2 + n4
    BY <1>1, <1>4, <1>5, <2>1
  <2> HIDE DEF n1, n2, n3, n4, lz, lp, lq, lr, lt
  <2> DEFINE q0 == 2 + randomLen
             q1 == q0 + 1 + n1
             q2 == q1 + 2 + n2
             q3 == q2 + 1 + n3
  <2>3. /\ lz = q0 /\ lz + lp = q1 /\ lz + lp + lq = q2 /\ lz + lp + lq + lr = q3
        /\ lz + lp + lq + lr + lt = q3 + 2 + n4
    BY <2>2
  <2>4. QED
    BY <2>3, Zenon DEF n1, n2, n3, n4, lz, lp, lq, lr, lt
<1> HIDE DEF p0
<1>9. /\ Holds(Body(h), p0, 1, h.sid, p1) /\ Holds(Body(h), p1, 2, h.suites, p2)
      /\ Holds(Body(h), p2, 1, h.comps, p3)
      /\ Holds(Body(h), p3, 2, Extensions(h), Len(Body(h)))
  BY <1>1, <1>7, <1>8, Zenon DEF Holds, p, q, r, t
<1>10. p3 = Len(Fixed(h))
  BY <1>7, <1>8, Zenon
<1>11. Len(Fixed(h)) \in Nat /\ Len(Body(h)) \in Nat
  BY <1>7, SeqLen
<1> HIDE DEF p1, p2, p3
<1>12. Vectors(Body(h), h.sid, h.suites, h.comps, Extensions(h), Len(Fixed(h)))
  BY <1>9, <1>10, Zenon DEF Vectors, p0
<1>13. QED
  BY <1>1, <1>3, <1>7, <1>11, <1>12, Zenon

(* The body in a record, whatever follows it.                              *)
LEMMA RecordRead ==
  ASSUME NEW X, Byte \subseteq X, NEW c \in Seq(X), Len(c) + 4 < Size(2), NEW junk \in Seq(X)
  PROVE  LET rec == <<22, 3, 1>> \o Prefixed(2, <<1>> \o Prefixed(3, c))
         IN  rec \in Seq(X) /\ parseClientHello(rec \o junk) = parseBody(c)
<1> DEFINE a == <<22, 3, 1>> o == <<1>> pc3 == Prefixed(3, c)
<1> DEFINE hs == o \o pc3
<1> DEFINE v == Prefixed(2, hs)
<1> DEFINE rec == (a \o v) \o junk
<1>1. Size(2) = 256 * 256 /\ Size(3) = 256 * (256 * 256) /\ Len(c) \in Nat
      /\ 2 \in 1..3 /\ 3 \in 1..3
  BY SeqLen DEF Size
<1>2. Len(c) < Size(3)
  BY <1>1
<1>3. pc3 \in Seq(X) /\ Len(pc3) = 3 + Len(c)
  BY <1>1, <1>2, PrefixedFacts
<1>4. /\ a \in Seq(X) /\ Len(a) = 3 /\ o \in Seq(X) /\ Len(o) = 1
      /\ a[1] = 22 /\ o[1] = 1
  <2>1. 22 \in X /\ 3 \in X /\ 1 \in X
    BY DEF Byte
  <2>2. QED
    BY <2>1
<1> HIDE DEF a, o, pc3
<1>5. hs \in Seq(X) /\ Len(hs) = Len(o) + Len(pc3) /\ Sits(hs, Len(o), pc3) /\ Sits(hs, 0, o)
  BY <1>3, <1>4, ConcatLen, SitsFirst
<1>6. Len(hs) < Size(2) /\ Len(hs) \in Nat /\ Len(hs) = 4 + Len(c)
  BY <1>1, <1>3, <1>4, <1>5
<1>7. hs[1] = 1 /\ hs # <<>>
  BY <1>4, <1>5, <1>6 DEF Sits
<1> HIDE DEF hs
<1>8. v \in Seq(X) /\ Len(v) = 2 + Len(hs)
  BY <1>1, <1>5, <1>6, PrefixedFacts
<1> HIDE DEF v
<1>9. a \o v \in Seq(X) /\ Len(a \o v) = 3 + Len(v) /\ Sits(a \o v, 0, a) /\ Sits(a \o v, 3, v)
  <2>1. /\ a \o v \in Seq(X) /\ Len(a \o v) = Len(a) + Len(v)
        /\ Sits(a \o v, 0, a) /\ Sits(a \o v, Len(a), v)
    BY <1>4, <1>8, ConcatLen, SitsFirst
  <2>2. QED
    BY <1>4, <2>1, Zenon
<1>10. rec \in Seq(X) /\ Len(rec) = Len(a \o v) + Len(junk) /\ Sits(rec, 0, a) /\ Sits(rec, 3, v)
  <2> DEFINE y == a \o v
  <2>1. y \in Seq(X) /\ Sits(y, 0, a) /\ Sits(y, 3, v)
    BY <1>9
  <2> HIDE DEF y
  <2>2. y \o junk \in Seq(X) /\ Len(y \o junk) = Len(y) + Len(junk)
        /\ Sits(y \o junk, 0, a) /\ Sits(y \o junk, 3, v)
    BY <1>4, <1>8, <2>1, ConcatLen, SitsGrows
  <2>3. QED
    BY <2>2, Zenon DEF y
<1>11. Len(rec) >= 5 /\ rec[1] = 22
  <2>1. Len(junk) \in Nat
    BY SeqLen
  <2> HIDE DEF rec
  <2>2. Len(rec) >= 5
    BY <1>6, <1>8, <1>9, <1>10, <2>1
  <2>3. rec[0 + 1] = a[1]
    BY <1>4, <1>10 DEF Sits
  <2>4. QED
    BY <1>4, <2>2, <2>3
<1> HIDE DEF rec
<1>12. Vector(rec, 3, 2).ok = TRUE /\ Vector(rec, 3, 2).val = hs
  <2>1. Vector(rec, 3, 2) = [ok |-> TRUE, end |-> 3 + 2 + Len(hs), val |-> hs]
    <3>1. Sits(rec, 3, Prefixed(2, hs)) /\ 3 \in Nat
      BY <1>10 DEF v
    <3>2. QED
      BY <1>1, <1>5, <1>6, <1>10, <3>1, VectorWhole, SMTT(30)
  <2>2. QED
    BY <2>1
<1>13. Vector(hs, 1, 3).ok = TRUE /\ Vector(hs, 1, 3).val = c
  <2>1. Vector(hs, 1, 3) = [ok |-> TRUE, end |-> 1 + 3 + Len(c), val |-> c]
    <3>1. Sits(hs, 1, Prefixed(3, c)) /\ 1 \in Nat
      BY <1>4, <1>5 DEF pc3
    <3>2. QED
      BY <1>1, <1>2, <1>5, <3>1, VectorWhole, SMTT(30)
  <2>2. QED
    BY <2>1
<1>14. parseClientHello(rec) = parseBody(c)
  BY <1>7, <1>11, <1>12, <1>13, Zenon DEF parseClientHello
<1>15. QED
  BY <1>9, <1>14 DEF rec, v, hs, a, o, pc3

(* What parseClientHello finds in the ClientHello of h that stops after n  *)
(* bytes.                                                                  *)
LEMMA Parsed ==
  ASSUME NEW h \in Hello, NEW n \in 0..Len(Body(h)), NEW junk \in Seq(Byte)
  PROVE  /\ Record(h, n) \o <<>> = Record(h, n)
         /\ parseClientHello(Record(h, n) \o junk) =
                IF n = Len(Body(h)) THEN [ok |-> TRUE, sid |-> h.sid, sni |-> SentName(h)]
                ELSE IF n \in Len(Fixed(h))..(Len(Fixed(h)) + 1)
                     THEN [ok |-> TRUE, sid |-> h.sid, sni |-> <<>>]
                ELSE errParseCH
<1> DEFINE X == Byte \cup Range(h.sid) b == Body(h) c == SubSeq(b, 1, n)
<1>1. Byte \subseteq X /\ h.sid \in Seq(X)
  <2>1. Range(h.sid) \subseteq X /\ h.sid \in Seq(Range(h.sid))
    BY HelloAssumption DEF HelloAssumption
  <2>2. \A Y : Y \subseteq X => Seq(Y) \subseteq Seq(X)
    OBVIOUS
  <2>3. QED
    BY <2>1, <2>2
<1>2. /\ Byte \subseteq X /\ b \in Seq(X) /\ h.sid \in Seq(X)
      /\ FitExtensions(h.exts) /\ Len(b) + 4 < Size(2) /\ Len(b) \in Nat
      /\ Vectors(b, h.sid, h.suites, h.comps, Extensions(h), Len(Fixed(h)))
      /\ h.suites \in Seq(X) /\ h.comps \in Seq(X) /\ Extensions(h) \in Seq(X)
  BY <1>1, HelloFacts
<1>3. junk \in Seq(X)
  OBVIOUS
<1> HIDE DEF X, b
<1>4. parseSNI[Extensions(h)] = SentName(h)
  BY <1>2, SniFound
<1>5. c \in Seq(X) /\ Len(c) = n
  <2>1. n \in Nat /\ n <= Len(b) /\ 0 \in Nat /\ 0 <= n /\ 0 + 1 = 1 /\ n - 0 = n
    BY <1>2 DEF b
  <2>2. SubSeq(b, 0 + 1, n) \in Seq(X) /\ Len(SubSeq(b, 0 + 1, n)) = n - 0
    BY <1>2, <2>1, SliceFacts
  <2>3. QED
    BY <2>1, <2>2, Zenon
<1> DEFINE rec == <<22, 3, 1>> \o Prefixed(2, <<1>> \o Prefixed(3, c))
<1>6. rec \in Seq(X) /\ parseClientHello(rec \o junk) = parseBody(c)
  <2>1. Len(c) + 4 < Size(2)
    <3>1. Size(2) = 256 * 256
      BY DEF Size
    <3>2. n \in Nat /\ n <= Len(b)
      BY <1>2 DEF b
    <3>3. QED
      BY <1>2, <1>5, <3>1, <3>2
  <2> HIDE DEF c
  <2>2. QED
    BY <1>1, <1>3, <1>5, <2>1, RecordRead, Zenon
<1>7. rec = Record(h, n)
  BY Zenon DEF Record, b
<1> HIDE DEF rec
<1>8. rec \o <<>> = rec
  BY <1>6
<1> DEFINE p3 == Len(Fixed(h)) s == h.sid x == Extensions(h) cs == h.suites cm == h.comps
<1>9. /\ Vectors(b, s, cs, cm, x, p3) /\ n \in 0..Len(b)
      /\ s \in Seq(X) /\ cs \in Seq(X) /\ cm \in Seq(X) /\ x \in Seq(X)
  BY <1>2 DEF b
<1> HIDE DEF p3, s, x, cs, cm
<1>10. parseBody(c) = IF n = Len(b) THEN [ok |-> TRUE, sid |-> s, sni |-> parseSNI[x]]
                     ELSE IF n \in p3..(p3 + 1) THEN [ok |-> TRUE, sid |-> s, sni |-> <<>>]
                     ELSE errParseCH
  BY <1>2, <1>9, BodyRead
<1>11. QED
  BY <1>4, <1>6, <1>10, <1>7, <1>8, Zenon DEF b, p3, s, x

(* parseClientHello finds in every ClientHello, of any length and with any *)
(* names and extensions, the session id and the first host name of its     *)
(* first server_name extension, also when more follows the record; it      *)
(* finds no name where the extensions are missing, and refuses every       *)
(* ClientHello that stops anywhere else.                                   *)
THEOREM ParserCorrect == Spec => []ParsedAsSent
<1>1. ASSUME NEW h \in Hello
      PROVE  ParsesAsSent(h)
  <2>1. \A junk \in {<<>>, <<1>>} : junk \in Seq(Byte)
    <3>1. 1 \in Byte
      BY DEF Byte
    <3>2. <<1>> \in Seq(Byte) /\ <<>> \in Seq(Byte)
      BY <3>1
    <3>3. QED
      BY <3>2
  <2>2. QED
    BY <2>1, Parsed DEF ParsesAsSent
<1>2. ParsedAsSent
  BY <1>1 DEF ParsedAsSent
<1>3. QED
  BY <1>2, PTL

(* A ClientHello holds a token if its session id is that token.            *)
LEMMA TokensSent ==
  ASSUME NEW h \in Hello
  PROVE  TokensIn[h] = {k \in Token : h.sid = <<k>>}
<1> DEFINE n == Len(Body(h)) ch == parseClientHello(Record(h, n))
<1>1. n \in 0..n /\ <<>> \in Seq(Byte)
  <2>1. Byte \subseteq Byte \cup Range(h.sid) /\ h.sid \in Seq(Byte \cup Range(h.sid))
    <3>1. h.sid \in Seq(Range(h.sid))
      BY HelloAssumption DEF HelloAssumption
    <3>2. QED
      BY <3>1
  <2>2. n \in Nat
    BY <2>1, HelloFacts
  <2>3. QED
    BY <2>2
<1>2. ch = [ok |-> TRUE, sid |-> h.sid, sni |-> SentName(h)]
  <2>1. /\ Record(h, n) \o <<>> = Record(h, n)
        /\ parseClientHello(Record(h, n) \o <<>>)
             = [ok |-> TRUE, sid |-> h.sid, sni |-> SentName(h)]
    BY <1>1, Parsed
  <2>2. QED
    BY <2>1, Zenon
<1>3. TokensIn[h] = {k \in Token : ch.ok /\ ch.sid = <<k>>}
  BY DEF TokensIn
<1> HIDE DEF ch
<1>4. ch.ok = TRUE /\ ch.sid = h.sid
  BY <1>2
<1>5. QED
  BY <1>3, <1>4

-----------------------------------------------------------------------------
(* One tunnel for each token                                               *)

Label == {"none", "read", "verify", "tls", "offer", "dial", "copy", "done"}

InvTypes ==
    /\ pc \in [Conn -> Label]
    /\ first \in [Conn -> Token \cup {"browser", "plain"}]
    /\ handed \in [Token -> Nat]

InvLookup ==
    /\ \A p \in pending : /\ p.conn \in Conn
                          /\ pc[p.conn] = "verify" /\ first[p.conn] = p.tok
    /\ \A p, q \in pending : p.conn = q.conn => p = q

InvToken == \A c \in Conn : pc[c] \in {"verify", "tls", "offer"} => first[c] \in Token

InvUntaken == \A k \in Token : taken[k] = 0 => Past(k) = {} /\ handed[k] = 0

TunnelInv == InvTypes /\ InvLookup /\ InvToken /\ InvUntaken /\ TokenOpensOne

(* The parser offers no token but the one the client sent.                 *)
LEMMA OfferedSent ==
  ASSUME InvTypes, NEW c \in Conn, NEW k \in Offered(c)
  PROVE  first[c] = k /\ k \in Token
<1> DEFINE f == first[c]
           h == helloOf(f)
<1>1. f # "plain" /\ k \in TokensIn[h] /\ k \in Token
  BY DEF Offered, Made
<1>2. CASE f = "browser"
  <2>1. h \in Hello /\ \A j \in Token : h.sid # <<j>>
    BY <1>2, ListenerAssumption DEF ListenerAssumption, helloOf
  <2>2. QED
    BY <1>1, <2>1, TokensSent
<1>3. CASE f \in Token
  <2>1. f # "browser"
    BY <1>3, ListenerAssumption DEF ListenerAssumption
  <2>2. h \in Hello /\ h.sid = <<f>>
    BY <1>3, <2>1, ListenerAssumption DEF ListenerAssumption, helloOf
  <2>3. <<f>> = <<k>>
    BY <1>1, <2>2, TokensSent
  <2>4. QED
    BY <1>1, <2>3
<1>4. QED
  BY <1>1, <1>2, <1>3 DEF InvTypes

(* A step of one handler after which no connection has got past the lookup *)
(* that had not before, and which concerns no pending one.                 *)
LEMMA Quiet ==
  ASSUME TunnelInv, NEW c \in Conn, UNCHANGED <<pending, taken, handed>>,
         NEW l \in Label, NEW f \in Token \cup {"browser", "plain"},
         pc' = [pc EXCEPT ![c] = l], first' = [first EXCEPT ![c] = f],
         pc[c] # "verify", l # "verify",
         l \in {"tls", "offer"} => pc[c] \in {"tls", "offer"} /\ f = first[c]
  PROVE  TunnelInv'
<1>1. InvTypes'
  BY DEF TunnelInv, InvTypes
<1>2. InvLookup'
  BY DEF TunnelInv, InvTypes, InvLookup
<1>3. InvToken'
  BY DEF TunnelInv, InvTypes, InvToken
<1>4. \A k \in Token : Past(k)' \subseteq Past(k)
  BY DEF Past, TunnelInv, InvTypes
<1>5. InvUntaken' /\ TokenOpensOne'
  BY <1>4 DEF TunnelInv, InvUntaken, TokenOpensOne
<1>6. QED
  BY <1>1, <1>2, <1>3, <1>5 DEF TunnelInv

(* A step that no handler takes.                                           *)
LEMMA Idle ==
  ASSUME TunnelInv, UNCHANGED <<pc, first, pending, taken, handed>>
  PROVE  TunnelInv'
BY DEF TunnelInv, InvTypes, InvLookup, InvToken, InvUntaken, TokenOpensOne, Past

LEMMA AcceptLoopStep ==
  ASSUME TunnelInv, NEW c \in Conn, NEW f \in Token \cup {"browser", "plain"},
         acceptLoop(c, f), UNCHANGED <<pending, taken>>
  PROVE  TunnelInv'
<1>1. /\ pc' = [pc EXCEPT ![c] = "read"] /\ first' = [first EXCEPT ![c] = f]
      /\ UNCHANGED handed /\ pc[c] # "verify"
  BY DEF acceptLoop, Goto, At
<1>2. "read" \in Label
  BY DEF Label
<1>3. QED
  BY <1>1, <1>2, Quiet

(* Classify sends a connection to the relay, or its token to the lookup.   *)
LEMMA ClassifyStep ==
  ASSUME TunnelInv, AuthTypeOK, NEW c \in Conn, Classify(c)
  PROVE  TunnelInv'
<1> USE DEF TunnelInv
<1>1. first[c] \in Token \cup {"browser", "plain"} /\ first = [first EXCEPT ![c] = first[c]]
  BY DEF InvTypes
<1>2. CASE \E k \in Offered(c) : InWindow(ts[k], now)
  <2>1. PICK k \in Offered(c) : verify(c, k)
    BY <1>2 DEF Classify
  <2>2. first[c] = k /\ k \in Token
    BY OfferedSent
  <2>3. /\ pc' = [pc EXCEPT ![c] = "verify"] /\ pc[c] = "read"
        /\ UNCHANGED <<first, handed>>
    BY <1>2 DEF Classify, Goto, At
  <2>4. /\ pending' = pending \cup {[conn |-> c, tok |-> k, at |-> now]}
        /\ taken' = taken /\ \A p \in pending : p.conn # c
    BY <2>1 DEF verify
  <2>5. InvTypes'
    BY <2>3 DEF InvTypes, Label
  <2>6. InvLookup'
    BY <2>2, <2>3, <2>4 DEF InvLookup, InvTypes
  <2>7. InvToken'
    BY <2>2, <2>3 DEF InvToken, InvTypes
  <2>8. \A j \in Token : Past(j)' = Past(j)
    BY <2>3 DEF Past, InvTypes
  <2>9. QED
    BY <2>3, <2>4, <2>5, <2>6, <2>7, <2>8 DEF InvUntaken, TokenOpensOne
<1>3. CASE ~\E k \in Offered(c) : InWindow(ts[k], now)
  <2>1. /\ pc' = [pc EXCEPT ![c] = "dial"] /\ pc[c] = "read"
        /\ UNCHANGED <<first, handed, pending, taken>>
    BY <1>3 DEF Classify, Pass, Goto, At, authVars
  <2>2. "dial" \in Label
    BY DEF Label
  <2>3. QED
    BY <2>1, <2>2, <1>1, Quiet
<1>4. QED
  BY <1>2, <1>3

(* Whoever gets past the lookup is the first of its token.                 *)
LEMMA VerdictStep ==
  ASSUME TunnelInv, AuthTypeOK, AcceptedOnce', NEW c \in Conn, Verdict(c)
  PROVE  TunnelInv'
<1> USE DEF TunnelInv
<1>1. PICK p \in pending :
        /\ p.conn = c /\ checkAndAdd(p)
        /\ Pass(c, First(c), IF Accepts(p) THEN "tls" ELSE "dial")
  BY DEF Verdict
<1> DEFINE k == p.tok
           l == IF Accepts(p) THEN "tls" ELSE "dial"
<1>2. pc[c] = "verify" /\ first[c] = k /\ k \in Token
  BY <1>1 DEF InvLookup, AuthTypeOK, Made
<1>3. pc' = [pc EXCEPT ![c] = l] /\ UNCHANGED <<first, handed>> /\ l \in Label
  BY <1>1 DEF Pass, Goto, Label
<1>4. pending' = pending \ {p}
  BY <1>1 DEF checkAndAdd
<1>5. InvTypes' /\ InvToken'
  BY <1>2, <1>3 DEF InvTypes, InvToken
<1>6. InvLookup'
  BY <1>1, <1>3, <1>4 DEF InvLookup, InvTypes
<1>7. CASE ~Accepts(p)
  <2>1. taken' = taken
    BY <1>1, <1>7 DEF checkAndAdd
  <2>2. \A j \in Token : Past(j)' = Past(j)
    BY <1>2, <1>3, <1>7 DEF Past, InvTypes
  <2>3. QED
    BY <2>1, <2>2, <1>3, <1>5, <1>6 DEF InvUntaken, TokenOpensOne
<1>8. CASE Accepts(p)
  <2>1. taken' = [taken EXCEPT ![k] = @ + 1]
    BY <1>1, <1>8 DEF checkAndAdd
  <2>2. taken'[k] <= 1 /\ taken[k] \in Nat /\ taken'[k] = taken[k] + 1
    BY <2>1, <1>2 DEF AcceptedOnce, AuthTypeOK
  <2>3. taken[k] = 0 /\ taken'[k] = 1
    BY <2>2
  <2>4. Past(k) = {} /\ handed[k] = 0
    BY <2>3, <1>2 DEF InvUntaken
  <2>5. Past(k)' \subseteq Past(k) \cup {c} /\ \A j \in Token : j # k => Past(j)' = Past(j)
    BY <1>2, <1>3 DEF Past, InvTypes
  <2>6. \A j \in Token : j # k => taken'[j] = taken[j]
    BY <2>1, <1>2 DEF AuthTypeOK
  <2>7. \A j \in Token : j = k => \A d, e \in Past(j)' : d = e
    BY <2>4, <2>5
  <2>8. TokenOpensOne'
    BY <2>4, <2>5, <2>7, <1>3 DEF TokenOpensOne
  <2>9. InvUntaken'
    BY <2>3, <2>5, <2>6, <1>3 DEF InvUntaken
  <2>10. QED
    BY <2>8, <2>9, <1>5, <1>6
<1>9. QED
  BY <1>7, <1>8

(* The hand-over is the last of its token.                                 *)
LEMMA AcceptStep ==
  ASSUME TunnelInv, AuthTypeOK, NEW c \in Conn, Accept(c)
  PROVE  TunnelInv'
<1> USE DEF TunnelInv
<1> DEFINE k == first[c]
<1>1. /\ pc[c] = "offer" /\ k \in Token
      /\ pc' = [pc EXCEPT ![c] = "done"] /\ first' = [first EXCEPT ![c] = "plain"]
      /\ handed' = [handed EXCEPT ![k] = @ + 1]
      /\ UNCHANGED <<pending, taken>>
  BY DEF Accept, Leave, Goto, At, InvToken, authVars
<1>2. c \in Past(k)
  BY <1>1 DEF Past
<1>3. handed[k] = 0 /\ taken[k] # 0
  BY <1>1, <1>2 DEF TokenOpensOne, InvUntaken, InvTypes
<1>4. \A j \in Token : Past(j)' \subseteq Past(j) \ {c}
  BY <1>1 DEF Past, InvTypes
<1>5. \A j \in Token : j = k => Past(j)' = {}
  BY <1>2, <1>4 DEF TokenOpensOne
<1>6. handed'[k] = 1 /\ \A j \in Token : j # k => handed'[j] = handed[j]
  BY <1>1, <1>3 DEF InvTypes
<1>7. InvTypes'
  BY <1>1 DEF InvTypes, Label
<1>8. InvLookup' /\ InvToken'
  BY <1>1 DEF InvLookup, InvToken, InvTypes
<1>9. TokenOpensOne'
  BY <1>4, <1>5, <1>6 DEF TokenOpensOne
<1>10. InvUntaken'
  BY <1>1, <1>3, <1>4, <1>6 DEF InvUntaken
<1>11. QED
  BY <1>7, <1>8, <1>9, <1>10

LEMMA HandleStep ==
  ASSUME TunnelInv, AuthTypeOK, AcceptedOnce', NEW c \in Conn, handle(c)
  PROVE  TunnelInv'
<1>1. /\ first[c] \in Token \cup {"browser", "plain"} /\ pc[c] \in Label
      /\ first = [first EXCEPT ![c] = first[c]]
      /\ {"tls", "offer", "dial", "copy", "done"} \subseteq Label
  BY DEF TunnelInv, InvTypes, Label
<1>2. CASE Classify(c)
  BY <1>2, ClassifyStep
<1>3. CASE Verdict(c)
  BY <1>3, VerdictStep
<1>4. CASE Accept(c)
  BY <1>4, AcceptStep
<1>5. CASE Read(c) \/ TlsRead(c) \/ CopyUp(c) \/ CopyDown(c)
  BY <1>5, Idle DEF Read, TlsRead, CopyUp, CopyDown, Take, authVars
<1>6. CASE ReadFails(c) \/ TlsDone(c) \/ Dial(c)
  <2>1. PICK l \in {"dial", "offer", "copy"} :
          /\ pc' = [pc EXCEPT ![c] = l] /\ pc[c] # "verify"
          /\ l = "offer" => pc[c] = "tls"
    BY <1>6 DEF ReadFails, TlsDone, Dial, Pass, Goto, At
  <2>2. UNCHANGED <<first, handed, pending, taken>>
    BY <1>6 DEF ReadFails, TlsDone, Dial, Pass, authVars
  <2>3. QED
    BY <2>1, <2>2, <1>1, Quiet
<1>7. CASE TlsFails(c) \/ Withdraw(c) \/ DialFails(c) \/ RelayEnds(c)
  <2>1. /\ pc' = [pc EXCEPT ![c] = "done"] /\ first' = [first EXCEPT ![c] = "plain"]
        /\ UNCHANGED <<handed, pending, taken>> /\ pc[c] # "verify"
    BY <1>7 DEF TlsFails, Withdraw, DialFails, RelayEnds, Leave, Goto, At, authVars
  <2>2. QED
    BY <2>1, <1>1, Quiet
<1>8. QED
  BY <1>2, <1>3, <1>4, <1>5, <1>6, <1>7 DEF handle, readFirstRecord, relay

(* Under the condition of NoReplay, a token that arrives on any number of  *)
(* connections, one after another or at once, opens one tunnel.            *)
THEOREM TunnelIsOne ==
  ASSUME MaxDelay + Early <= authWindow
  PROVE  Spec => []TokenOpensOne
<1>1. Init => TunnelInv
  BY DEF Init, AuthInit, All, TunnelInv, InvTypes, Label, InvLookup, InvToken, InvUntaken,
         TokenOpensOne, Past
<1>2. TunnelInv /\ AuthTypeOK /\ AcceptedOnce' /\ [Next]_vars => TunnelInv'
  <2> SUFFICES ASSUME TunnelInv, AuthTypeOK, AcceptedOnce', [Next]_vars
               PROVE  TunnelInv'
    OBVIOUS
  <2>1. CASE UNCHANGED vars
    BY <2>1, Idle DEF vars, conns, authVars
  <2>2. ASSUME NEW c \in Conn, Connect(c)
        PROVE  TunnelInv'
    <3>1. PICK f \in Made \cup {"browser", "plain"} : acceptLoop(c, f)
      BY <2>2 DEF Connect
    <3>2. f \in Token \cup {"browser", "plain"} /\ UNCHANGED <<pending, taken>>
      BY <2>2 DEF Connect, Made, authVars
    <3>3. QED
      BY <3>1, <3>2, AcceptLoopStep
  <2>3. ASSUME NEW c \in Conn, NEW k \in Token, DialReality(c, k)
        PROVE  TunnelInv'
    BY <2>3, AcceptLoopStep DEF DialReality, makeAuthSessionID
  <2>4. ASSUME NEW c \in Conn, handle(c)
        PROVE  TunnelInv'
    BY <2>4, HandleStep
  <2>5. ASSUME NEW c \in Conn, ClientSends(c) \/ ClientShuts(c) \/ SiteSends(c)
        PROVE  TunnelInv'
    BY <2>5, Idle DEF ClientSends, ClientShuts, SiteSends, conns, authVars
  <2>6. CASE AcceptClosed \/ markClosed \/ (Tick /\ UNCHANGED <<conns, peers, closed, acceptor>>)
    BY <2>6, Idle DEF AcceptClosed, markClosed, Tick, conns, authVars
  <2>7. QED
    BY <2>1, <2>2, <2>3, <2>4, <2>5, <2>6 DEF Next
<1>3. TunnelInv => TokenOpensOne
  BY DEF TunnelInv
<1>4. AuthSpec => []AuthTypeOK /\ []AcceptedOnce
  BY TypeCorrect, NoReplay, PTL
<1>5. QED
  BY <1>1, <1>2, <1>3, <1>4, ImplementsAuth, PTL DEF Spec

-----------------------------------------------------------------------------
(* The stream as it is passed on                                           *)

LEMMA StreamFacts ==
  ASSUME NEW n \in Nat, NEW m \in Nat, n <= m
  PROVE  /\ Stream(1, n) \in Seq(Nat) /\ Len(Stream(1, n)) = n
         /\ IsPrefix(Stream(1, n), Stream(1, m))
         /\ Append(Stream(1, n), n + 1) = Stream(1, n + 1)
<1>1. \A j \in Nat : /\ Stream(1, j) \in Seq(Nat) /\ Len(Stream(1, j)) = j
                     /\ \A i \in 1..j : Stream(1, j)[i] = i
  BY DEF Stream
<1>2. IsPrefix(Stream(1, n), Stream(1, m))
  <2>1. SubSeq(Stream(1, n), 1, n) = SubSeq(Stream(1, m), 1, n)
    BY <1>1
  <2>2. QED
    BY <1>1, <2>1 DEF IsPrefix
<1>3. Append(Stream(1, n), n + 1) = Stream(1, n + 1)
  BY DEF Stream
<1>4. QED
  BY <1>1, <1>2, <1>3

LEMMA EmptyPrefix ==
  ASSUME NEW m \in Nat
  PROVE  IsPrefix(<<>>, Stream(1, m))
<1>1. Stream(1, 0) = <<>>
  BY DEF Stream
<1>2. QED
  BY <1>1, StreamFacts

Given == {"tls", "offer", "dial", "copy"}

Held(c) ==
    /\ got[c] <= sent[c]
    /\ c \notin Incomplete =>
         into[c] = IF pc[c] \in Given THEN Stream(1, got[c]) ELSE <<>>

StreamInv ==
    /\ pc \in [Conn -> Label] /\ into = [c \in Conn |-> into[c]]
    /\ sent \in [Conn -> Nat] /\ got \in [Conn -> Nat]
    /\ \A c \in Conn : Held(c)

LEMMA HeldFaithful == StreamInv => Transparent
<1> SUFFICES ASSUME StreamInv, NEW c \in Conn \ Incomplete
             PROVE  IsPrefix(into[c], Stream(1, sent[c]))
  BY DEF Transparent, Faithful
<1>1. got[c] \in Nat /\ sent[c] \in Nat /\ Held(c)
  BY DEF StreamInv
<1>2. CASE pc[c] \in Given
  BY <1>1, <1>2, StreamFacts DEF Held
<1>3. CASE pc[c] \notin Given
  BY <1>1, <1>3, EmptyPrefix DEF Held
<1>4. QED
  BY <1>2, <1>3

(* A step that changes nothing of the connections but what one of them has *)
(* read or sent, been given, and the place of its handler.                 *)
LEMMA HeldStep ==
  ASSUME StreamInv, NEW c \in Conn, NEW l \in Label, NEW s \in Nat, NEW g \in Nat, NEW b,
         pc' = [pc EXCEPT ![c] = l], into' = [into EXCEPT ![c] = b],
         sent' = [sent EXCEPT ![c] = s], got' = [got EXCEPT ![c] = g],
         g <= s,
         c \notin Incomplete => b = IF l \in Given THEN Stream(1, g) ELSE <<>>
  PROVE  StreamInv'
<1>1. /\ pc' \in [Conn -> Label] /\ into' = [d \in Conn |-> into'[d]]
      /\ sent' \in [Conn -> Nat] /\ got' \in [Conn -> Nat]
  BY DEF StreamInv
<1>2. pc'[c] = l /\ into'[c] = b /\ sent'[c] = s /\ got'[c] = g
  BY DEF StreamInv
<1>3. \A d \in Conn : d # c => /\ pc'[d] = pc[d] /\ into'[d] = into[d]
                               /\ sent'[d] = sent[d] /\ got'[d] = got[d]
  BY DEF StreamInv
<1>4. \A d \in Conn : d # c => Held(d)'
  BY <1>3 DEF StreamInv, Held
<1>5. Held(c)'
  BY <1>2 DEF Held
<1>6. QED
  BY <1>1, <1>4, <1>5 DEF StreamInv

(* What a step leaves alone stays as it was; what it sets of one           *)
(* connection has to fit together.                                         *)
LEMMA HeldSame ==
  ASSUME StreamInv, UNCHANGED <<pc, sent, got, into>>
  PROVE  StreamInv'
BY DEF StreamInv, Held

LEMMA Unchanging ==
  ASSUME StreamInv, NEW c \in Conn
  PROVE  /\ pc = [pc EXCEPT ![c] = pc[c]] /\ into = [into EXCEPT ![c] = into[c]]
         /\ sent = [sent EXCEPT ![c] = sent[c]] /\ got = [got EXCEPT ![c] = got[c]]
         /\ pc[c] \in Label /\ sent[c] \in Nat /\ got[c] \in Nat /\ Held(c)
<1>1. pc = [pc EXCEPT ![c] = pc[c]] /\ sent = [sent EXCEPT ![c] = sent[c]]
  BY DEF StreamInv
<1>2. got = [got EXCEPT ![c] = got[c]] /\ into = [into EXCEPT ![c] = into[c]]
  BY DEF StreamInv
<1>3. QED
  BY <1>1, <1>2 DEF StreamInv

(* A handler that leaves closes its connection and forgets its stream.     *)
LEMMA LeaveStep ==
  ASSUME StreamInv, NEW c \in Conn, Leave(c)
  PROVE  StreamInv'
<1>1. /\ pc' = [pc EXCEPT ![c] = "done"] /\ into' = [into EXCEPT ![c] = <<>>]
      /\ sent' = [sent EXCEPT ![c] = 0] /\ got' = [got EXCEPT ![c] = 0]
  BY DEF Leave, Goto
<1>2. "done" \in Label /\ "done" \notin Given /\ 0 \in Nat /\ 0 <= 0
  BY DEF Label, Given
<1>3. QED
  BY <1>1, <1>2, HeldStep

(* What Pass hands on is what was read, unless the first record came in    *)
(* parts.                                                                  *)
LEMMA PassStep ==
  ASSUME StreamInv, NEW c \in Conn, NEW b, NEW l \in {"tls", "dial"}, Pass(c, b, l),
         c \notin Incomplete => b = First(c)
  PROVE  StreamInv'
<1>1. /\ pc' = [pc EXCEPT ![c] = l] /\ into' = [into EXCEPT ![c] = b]
      /\ sent' = sent /\ got' = got
  BY DEF Pass, Goto, peers
<1>2. l \in Label /\ l \in Given
  BY DEF Label, Given
<1>3. QED
  BY <1>1, <1>2, HeldStep, Unchanging DEF First, Held

(* One more unit of the stream is read and appended.                       *)
LEMMA TakeStep ==
  ASSUME StreamInv, NEW c \in Conn, Take(c), pc[c] \in Given
  PROVE  StreamInv'
<1>1. /\ pc' = pc /\ into' = [into EXCEPT ![c] = Append(@, got'[c])]
      /\ sent' = sent /\ got' = [got EXCEPT ![c] = @ + 1] /\ got[c] < sent[c]
  BY DEF Take, peers
<1>2. pc[c] \in Label /\ sent[c] \in Nat /\ got[c] \in Nat /\ Held(c)
  BY Unchanging
<1>3. got'[c] = got[c] + 1
  BY <1>1 DEF StreamInv
<1>4. into' = [into EXCEPT ![c] = Append(into[c], got[c] + 1)]
  BY <1>1, <1>3
<1>5. c \notin Incomplete => Append(into[c], got[c] + 1) = Stream(1, got[c] + 1)
  BY <1>2, StreamFacts DEF Held
<1>6. /\ pc' = [pc EXCEPT ![c] = pc[c]] /\ sent' = [sent EXCEPT ![c] = sent[c]]
      /\ got' = [got EXCEPT ![c] = got[c] + 1]
      /\ got[c] + 1 \in Nat /\ got[c] + 1 <= sent[c]
  BY <1>1, <1>2, Unchanging
<1>7. QED
  BY <1>2, <1>4, <1>5, <1>6, HeldStep

(* The first record is read as far as it has come; nobody has been given   *)
(* any of it.                                                              *)
LEMMA ReadStep ==
  ASSUME StreamInv, NEW c \in Conn, Read(c)
  PROVE  StreamInv'
<1>1. pc[c] \in Label /\ sent[c] \in Nat /\ got[c] \in Nat /\ Held(c)
  BY Unchanging
<1>2. Wanted(c) \in Nat
  BY ListenerAssumption DEF ListenerAssumption, Wanted
<1>3. PICK g \in Nat : got' = [got EXCEPT ![c] = g] /\ g <= sent[c]
  <2> DEFINE g == IF sent[c] < Wanted(c) THEN sent[c] ELSE Wanted(c)
  <2>1. g \in Nat /\ g <= sent[c]
    BY <1>1, <1>2
  <2>2. got' = [got EXCEPT ![c] = g]
    BY DEF Read
  <2>3. QED
    BY <2>1, <2>2
<1>4. pc[c] \notin Given /\ pc' = pc /\ into' = into /\ sent' = sent
  BY DEF Read, At, Given, peers
<1>5. c \notin Incomplete => into[c] = <<>>
  BY <1>1, <1>4 DEF Held
<1>6. /\ pc' = [pc EXCEPT ![c] = pc[c]] /\ into' = [into EXCEPT ![c] = into[c]]
      /\ sent' = [sent EXCEPT ![c] = sent[c]]
  BY <1>4, Unchanging
<1>7. QED
  BY <1>1, <1>3, <1>4, <1>5, <1>6, HeldStep

(* A client only ever adds to its stream.                                  *)
LEMMA SendsStep ==
  ASSUME StreamInv, NEW c \in Conn, ClientSends(c)
  PROVE  StreamInv'
<1>1. pc[c] \in Label /\ sent[c] \in Nat /\ got[c] \in Nat /\ Held(c)
  BY Unchanging
<1>2. PICK s \in Nat : sent' = [sent EXCEPT ![c] = s] /\ got[c] <= s
  <2> DEFINE s == IF c \in Incomplete \/ sent[c] > 0 THEN sent[c] + 1 ELSE FirstRecord
  <2>1. s \in Nat /\ got[c] <= s
    BY <1>1, ListenerAssumption DEF ListenerAssumption, Held
  <2>2. sent' = [sent EXCEPT ![c] = s]
    BY DEF ClientSends
  <2>3. QED
    BY <2>1, <2>2
<1>3. pc' = pc /\ into' = into /\ got' = got
  BY DEF ClientSends, conns
<1>4. /\ pc' = [pc EXCEPT ![c] = pc[c]] /\ into' = [into EXCEPT ![c] = into[c]]
      /\ got' = [got EXCEPT ![c] = got[c]]
  BY <1>3, Unchanging
<1>5. c \notin Incomplete =>
        into[c] = IF pc[c] \in Given THEN Stream(1, got[c]) ELSE <<>>
  BY <1>1 DEF Held
<1>6. QED
  BY <1>1, <1>2, <1>4, <1>5, HeldStep

(* A handler goes from one label to another of the same side of the hand-  *)
(* over.                                                                   *)
LEMMA MoveStep ==
  ASSUME StreamInv, NEW c \in Conn, NEW l \in Label, pc' = [pc EXCEPT ![c] = l],
         UNCHANGED <<sent, got, into>>, pc[c] \in Given <=> l \in Given
  PROVE  StreamInv'
BY HeldStep, Unchanging DEF Held

(* All the steps of one handler.                                           *)
LEMMA HandlerStep ==
  ASSUME StreamInv, NEW c \in Conn, handle(c)
  PROVE  StreamInv'
<1>1. CASE Read(c)
  BY <1>1, ReadStep
<1>2. CASE Classify(c)
  <2>1. CASE \E k \in Offered(c) : InWindow(ts[k], now)
    <3>1. /\ pc' = [pc EXCEPT ![c] = "verify"] /\ pc[c] = "read"
          /\ UNCHANGED <<sent, got, into>>
      BY <1>2, <2>1 DEF Classify, Goto, At, peers
    <3>2. "verify" \in Label /\ "verify" \notin Given /\ "read" \notin Given
      BY DEF Label, Given
    <3>3. QED
      BY <3>1, <3>2, MoveStep
  <2>2. CASE ~\E k \in Offered(c) : InWindow(ts[k], now)
    BY <1>2, <2>2, PassStep DEF Classify
  <2>3. QED
    BY <2>1, <2>2
<1>3. CASE Verdict(c)
  <2>1. PICK l \in {"tls", "dial"} : Pass(c, First(c), l)
    BY <1>3 DEF Verdict
  <2>2. QED
    BY <2>1, PassStep
<1>4. CASE ReadFails(c)
  BY <1>4, PassStep DEF ReadFails
<1>5. CASE TlsRead(c) \/ CopyUp(c)
  BY <1>5, TakeStep DEF TlsRead, CopyUp, At, Given
<1>6. CASE TlsFails(c) \/ Accept(c) \/ Withdraw(c) \/ DialFails(c) \/ RelayEnds(c)
  BY <1>6, LeaveStep DEF TlsFails, Accept, Withdraw, DialFails, RelayEnds
<1>7. CASE TlsDone(c) \/ Dial(c)
  <2>1. PICK l \in {"offer", "copy"} : /\ pc' = [pc EXCEPT ![c] = l] /\ pc[c] \in {"tls", "dial"}
                                       /\ UNCHANGED <<sent, got, into>>
    BY <1>7 DEF TlsDone, Dial, Goto, At, peers
  <2>2. l \in Label /\ l \in Given /\ pc[c] \in Given
    BY <2>1 DEF Label, Given
  <2>3. QED
    BY <2>1, <2>2, MoveStep
<1>8. CASE CopyDown(c)
  BY <1>8, HeldSame DEF CopyDown, peers
<1>9. QED
  BY <1>1, <1>2, <1>3, <1>4, <1>5, <1>6, <1>7, <1>8 DEF handle, readFirstRecord, relay

(* Transparent, for every number of connections, length of the stream and  *)
(* order of the steps: whoever gets the stream after readFirstRecord, the  *)
(* TLS server over prefixConn or the decoy site, gets it from its first    *)
(* byte and unaltered, if its first record did not come in parts.          *)
THEOREM Unaltered == Spec => []Transparent
<1>1. Init => StreamInv
  <2>1. Stream(1, 0) = <<>> /\ "none" \in Label /\ "none" \notin Given
    BY DEF Stream, Label, Given
  <2>2. QED
    BY <2>1 DEF Init, All, StreamInv, Held
<1>2. StreamInv /\ [Next]_vars => StreamInv'
  <2> SUFFICES ASSUME StreamInv, [Next]_vars
               PROVE  StreamInv'
    OBVIOUS
  <2>1. CASE UNCHANGED vars
    BY <2>1, HeldSame DEF vars, conns, peers
  <2>2. ASSUME NEW c \in Conn, Connect(c) \/ \E k \in Token : DialReality(c, k)
        PROVE  StreamInv'
    <3>1. PICK f : acceptLoop(c, f)
      BY <2>2 DEF Connect, DialReality
    <3>2. /\ pc' = [pc EXCEPT ![c] = "read"] /\ pc[c] \in {"none", "done"}
          /\ UNCHANGED <<sent, got, into>>
      BY <3>1 DEF acceptLoop, Goto, At, peers
    <3>3. "read" \in Label /\ "read" \notin Given /\ pc[c] \notin Given
      BY <3>2 DEF Label, Given
    <3>4. QED
      BY <3>2, <3>3, MoveStep
  <2>3. ASSUME NEW c \in Conn, handle(c)
        PROVE  StreamInv'
    BY <2>3, HandlerStep
  <2>4. ASSUME NEW c \in Conn, ClientSends(c)
        PROVE  StreamInv'
    BY <2>4, SendsStep
  <2>5. ASSUME NEW c \in Conn, ClientShuts(c) \/ SiteSends(c)
        PROVE  StreamInv'
    BY <2>5, HeldSame DEF ClientShuts, SiteSends, conns
  <2>6. CASE AcceptClosed \/ markClosed \/ (Tick /\ UNCHANGED <<conns, peers, closed, acceptor>>)
    BY <2>6, HeldSame DEF AcceptClosed, markClosed, conns, peers
  <2>7. QED
    BY <2>1, <2>2, <2>3, <2>4, <2>5, <2>6 DEF Next
<1>3. QED
  BY <1>1, <1>2, HeldFaithful, PTL DEF Spec
=============================================================================
