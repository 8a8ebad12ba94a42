-------------------------- MODULE TlsTunnel_proofs --------------------------
(***************************************************************************)
(* Proofs about TlsTunnel for every number of connections and records.     *)
(***************************************************************************)
EXTENDS TlsTunnel, TLAPS

(* sendMu is held from the look at the counter to its increment.           *)
InvMutex == \A t \in Sender : sendMu = t <=> pc[t] \in {"seal", "send"}

(* The counter that was read is still the next one when the record leaves, *)
(* and every record that left has a smaller one of its own.                *)
InvSealed ==
    /\ NonceUnique
    /\ \A t \in Sender : pc[t] = "send" => sealed[t] = counter[cur[t]]
    /\ \A a \in out : a.ctr < counter[a.sess]

(* A handler answers on its own connection; the TUN reader sends on one    *)
(* that has been the active tunnel.                                        *)
WasActive == {"evict", "recv", "lock", "seal", "send", "clear", "close", "done"}
InvCur ==
    /\ \A c \in Conn : cur[c] \in {None, c}
    /\ cur[Tun] # None => pc[cur[Tun]] \in WasActive

(* The active tunnel has a handler that will clear it.                     *)
InvActive == active # None => pc[active] \in WasActive \ {"close", "done"}

(* A connection that was made active is still so, or somebody is about to  *)
(* close it, or it is being closed by its own handler.                     *)
Established(c) == c \in open /\ pc[c] \in {"evict", "recv", "lock", "seal", "send"}
InvDisplaced ==
    \A c \in Conn : Established(c) =>
        active = c \/ \E e \in Conn : pc[e] = "evict" /\ prev[e] = c

(* The next connection to be accepted is new.                              *)
InvNew == \A c \in Conn : c > accepted => pc[c] = "none"

(* A handler that has returned closed its connection.                      *)
InvDone == \A c \in Conn : pc[c] = "done" => c \notin open

Inv == /\ TypeOK
       /\ InvMutex /\ InvSealed /\ InvCur /\ InvActive /\ InvDisplaced /\ InvNew /\ InvDone

LEMMA InvInit == Init => Inv
BY TlsTunnelAssumption DEF Init, Inv, TypeOK, InvMutex, InvSealed, NonceUnique, InvCur, InvActive,
   InvDisplaced, InvNew, InvDone, Established, Label, Sender, Conn, Tun, None

(* The three kinds of number are kept apart.                               *)
LEMMA Ids == /\ Sender = Conn \cup {Tun} /\ Tun \notin Conn /\ None \notin Conn /\ Tun # None
            /\ Conn \subseteq Nat
            /\ \A n, m \in 0..MaxConns : n \in 0..m /\ n # None => n \in Conn
BY TlsTunnelAssumption DEF Sender, Conn, Tun, None

(* One step for each action.                                               *)
LEMMA InvStep == Inv /\ [Next]_vars => Inv'
<1> SUFFICES ASSUME Inv, [Next]_vars
             PROVE  Inv'
  OBVIOUS
<1> USE TlsTunnelAssumption, Ids
    DEF Inv, TypeOK, InvMutex, InvSealed, NonceUnique, InvCur, InvActive,
        InvDisplaced, InvNew, InvDone, Established, WasActive, Label, Goto, At,
        net, seals
<1>1. CASE UNCHANGED vars
  BY <1>1 DEF vars
<1>2. CASE Accept
  <2> DEFINE n == accepted + 1
  <2>1. n \in Conn /\ n # None /\ accepted' = n /\ n \in 1..accepted'
    BY <1>2 DEF Accept, Conn, None
  <2>2. /\ pc' = [pc EXCEPT ![n] = "init"] /\ open' = open \cup {n}
        /\ UNCHANGED <<accepting, active, prev, cur, sendMu, net, seals>>
    BY <1>2 DEF Accept
  <2>3. n # active /\ n # cur[Tun] /\ n \notin open
    BY <2>1
  <2>4. TypeOK'
    <3>1. active' \in 0..n /\ prev' \in [Conn -> 0..n] /\ cur' \in [Sender -> 0..n]
      BY <2>1, <2>2
    <3>2. open' \subseteq 1..n
      BY <2>1, <2>2
    <3>3. /\ pc' \in [Sender -> Label]
          /\ \A t \in Sender : pc'[t] \in {"lock", "seal", "send"} => cur'[t] # None
      BY <2>1, <2>2
    <3>4. n \in 0..MaxConns
      BY <2>1 DEF Conn
    <3> QED
      BY <2>1, <2>2, <3>1, <3>2, <3>3, <3>4
  <2>5. InvMutex' /\ InvSealed' /\ InvCur' /\ InvActive' /\ InvNew' /\ InvDone'
    BY <2>1, <2>2, <2>3
  <2>6. InvDisplaced'
    BY <2>1, <2>2
  <2> QED
    BY <2>4, <2>5, <2>6
<1>3. CASE TlsHandshakeFails
  BY <1>3 DEF TlsHandshakeFails
<1>4. ASSUME NEW c \in Conn, RecvInit(c) \/ SendReply(c)
      PROVE  Inv'
  <2>1. PICK l \in {"reply", "set", "close"} : pc' = [pc EXCEPT ![c] = l]
    BY <1>4 DEF RecvInit, SendReply
  <2>2. /\ pc[c] \in {"init", "reply"}
        /\ UNCHANGED <<accepting, accepted, active, prev, cur, sendMu, open, net, seals>>
    BY <1>4 DEF RecvInit, SendReply
  <2>3. TypeOK' /\ InvMutex' /\ InvSealed' /\ InvCur' /\ InvActive' /\ InvNew'
    BY <2>1, <2>2
  <2>4. InvDisplaced' /\ InvDone'
    BY <2>1, <2>2
  <2> QED
    BY <2>3, <2>4
<1>5. ASSUME NEW c \in Conn, setActive(c)
      PROVE  Inv'
  <2>1. /\ pc[c] = "set" /\ pc' = [pc EXCEPT ![c] = "evict"]
        /\ prev' = [prev EXCEPT ![c] = active] /\ active' = c
        /\ UNCHANGED <<accepting, accepted, cur, sendMu, open, net, seals>>
    BY <1>5 DEF setActive
  <2>2. TypeOK'
    <3>1. c \in 0..accepted
      BY <2>1 DEF Conn
    <3> QED
      BY <2>1, <3>1
  <2>3. InvMutex' /\ InvSealed' /\ InvCur' /\ InvActive' /\ InvNew' /\ InvDone'
    BY <2>1
  <2>4. InvDisplaced'
    BY <2>1
  <2> QED
    BY <2>2, <2>3, <2>4
<1>6. ASSUME NEW c \in Conn, EvictPrev(c)
      PROVE  Inv'
  <2>1. /\ pc[c] = "evict" /\ pc' = [pc EXCEPT ![c] = "recv"]
        /\ prev' = [prev EXCEPT ![c] = None] /\ open' = open \ {prev[c]}
        /\ lost' \subseteq lost /\ stuck' \subseteq stuck
        /\ UNCHANGED <<accepting, accepted, active, cur, sendMu, seals>>
    BY <1>6 DEF EvictPrev, Close, Displaced
  <2>2. TypeOK'
    <3>1. None \in 0..accepted
      BY DEF None
    <3> QED
      BY <2>1, <3>1
  <2>3. InvMutex' /\ InvSealed' /\ InvCur' /\ InvActive' /\ InvNew' /\ InvDone'
    BY <2>1
  <2>4. InvDisplaced'
    BY <2>1
  <2> QED
    BY <2>2, <2>3, <2>4
<1>7. ASSUME NEW c \in Conn, clearIf(c)
      PROVE  Inv'
  <2>1. /\ pc[c] = "clear" /\ pc' = [pc EXCEPT ![c] = "close"]
        /\ active' = IF active = c THEN None ELSE active
        /\ UNCHANGED <<accepting, accepted, prev, cur, sendMu, open, net, seals>>
    BY <1>7 DEF clearIf, Own
  <2>2. TypeOK'
    <3>1. None \in 0..accepted
      BY DEF None
    <3> QED
      BY <2>1, <3>1
  <2>3. InvMutex' /\ InvSealed' /\ InvCur' /\ InvActive' /\ InvNew' /\ InvDone'
    BY <2>1
  <2>4. InvDisplaced'
    BY <2>1
  <2> QED
    BY <2>2, <2>3, <2>4
<1>8. ASSUME NEW c \in Conn, CloseOwn(c)
      PROVE  Inv'
  BY <1>8 DEF CloseOwn, Close, Closing
<1>9. ASSUME NEW c \in Conn, RecvKeepalive(c)
      PROVE  Inv'
  BY <1>9 DEF RecvKeepalive
<1>10. ASSUME NEW c \in Conn, RecvFails(c) \/ WriteFails(c)
       PROVE  Inv'
  <2>1. /\ pc[c] = "recv" /\ pc' = [pc EXCEPT ![c] = "clear"]
        /\ UNCHANGED <<accepting, accepted, active, prev, cur, sendMu, open, net, seals>>
    BY <1>10 DEF RecvFails, WriteFails, RecvEnds
  <2>2. TypeOK' /\ InvMutex' /\ InvSealed' /\ InvCur' /\ InvActive' /\ InvNew'
    BY <2>1
  <2>3. InvDisplaced' /\ InvDone'
    BY <2>1
  <2> QED
    BY <2>2, <2>3
<1>11. CASE ReadPacket
  BY <1>11 DEF ReadPacket, HasSession
<1>12. CASE TunError
  BY <1>12 DEF TunError
<1>13. ASSUME NEW t \in Sender, Lock(t)
       PROVE  Inv'
  BY <1>13 DEF Lock, Free
<1>14. ASSUME NEW t \in Sender, Seal(t)
       PROVE  Inv'
  BY <1>14 DEF Seal
<1>15. ASSUME NEW t \in Sender, Send(t)
       PROVE  Inv'
  <2> DEFINE s == cur[t]
             l == IF t = Tun THEN "read" ELSE "recv"
  <2>1. /\ pc[t] = "send" /\ sendMu = t /\ sealed[t] = counter[s]
        /\ pc' = [pc EXCEPT ![t] = l]
    BY <1>15 DEF Send
  <2>2. s \in Conn
    BY <2>1, SMTT(30)
  <2>3. /\ counter' = [counter EXCEPT ![s] = @ + 1]
        /\ out' = out \cup {[sess |-> s, ctr |-> counter[s], by |-> t]}
        /\ sealed' = [sealed EXCEPT ![t] = 0] /\ cur' = [cur EXCEPT ![t] = None]
        /\ sendMu' = None
        /\ UNCHANGED <<accepting, accepted, active, prev, open, net>>
    BY <1>15, <2>1 DEF Send
  <2>4. TypeOK'
    <3>1. pc' \in [Sender -> Label]
      BY <2>1
    <3>2. cur' \in [Sender -> 0..accepted]
      BY <2>3 DEF None
    <3>3. /\ counter' \in [Conn -> Nat] /\ sealed' \in [Sender -> Nat]
          /\ out' \subseteq [sess : Conn, ctr : Nat, by : Sender]
      BY <2>1, <2>2, <2>3
    <3>4. \A u \in Sender : pc'[u] \in {"lock", "seal", "send"} => cur'[u] # None
      BY <2>1, <2>3
    <3> QED
      BY <2>3, <3>1, <3>2, <3>3, <3>4
  <2>5. InvMutex'
    BY <2>1, <2>3
  <2>6. InvSealed'
    BY <2>1, <2>2, <2>3
  <2>7. InvCur'
    <3>1. \A c \in Conn : cur'[c] \in {None, c}
      BY <2>3
    <3>2. cur'[Tun] # None => pc'[cur'[Tun]] \in WasActive
      BY <2>1, <2>3
    <3> QED
      BY <3>1, <3>2
  <2>8. InvActive'
    <3>1. active # None => active \in Conn
      BY SMTT(30)
    <3> QED
      BY <2>1, <2>3, <3>1
  <2>9. InvNew'
    BY <2>1, <2>3
  <2>10. InvDone'
    BY <2>1, <2>3
  <2>11. InvDisplaced'
    <3>1. \A c \in Conn : Established(c)' => Established(c)
      BY <2>1, <2>3
    <3>2. \A e \in Conn : pc[e] = "evict" => pc'[e] = "evict"
      BY <2>1
    <3> QED
      BY <2>3, <3>1, <3>2
  <2> QED
    BY <2>4, <2>5, <2>6, <2>7, <2>8, <2>9, <2>10, <2>11
<1>16. ASSUME NEW c \in Conn, Lose(c)
       PROVE  Inv'
  <2>1. /\ lost' \subseteq Conn /\ stuck' \subseteq Conn
        /\ UNCHANGED <<pc, accepting, accepted, active, prev, cur, sendMu, open, seals>>
    <3>1. c \in Conn
      OBVIOUS
    <3>2. lost' \subseteq lost \cup {c} /\ stuck' \subseteq stuck \cup {c}
      BY <1>16 DEF Lose
    <3>3. UNCHANGED <<pc, accepting, accepted, active, prev, cur, sendMu, open, seals>>
      BY <1>16 DEF Lose
    <3> QED
      BY <3>1, <3>2, <3>3
  <2> QED
    BY <2>1
<1> QED
  BY <1>1, <1>2, <1>3, <1>4, <1>5, <1>6, <1>7, <1>8, <1>9, <1>10, <1>11, <1>12, <1>13, <1>14,
     <1>15, <1>16 DEF Next, handleConn, send

LEMMA Invariance == Spec => []Inv
BY InvInit, InvStep, PTL DEF Spec

-----------------------------------------------------------------------------

(* The TUN reader and the handlers, which all seal under the session of a  *)
(* connection, never use one of its counters twice.                        *)
THEOREM NonceSafety == Spec => []NonceUnique
<1>1. Inv => NonceUnique
  BY DEF Inv, InvSealed
<1> QED
  BY Invariance, <1>1, PTL

(* A tunnel stays the active one until another connection displaces it and *)
(* is about to close it: no handler that ends clears another's place.      *)
THEOREM Survivor == Spec => []SurvivorIsActive
<1>1. Inv => SurvivorIsActive
  BY DEF Inv, InvDisplaced, Established, SurvivorIsActive, Tunnelling, At
<1> QED
  BY Invariance, <1>1, PTL

(* A handler that has returned left neither its connection open nor itself *)
(* the active tunnel.                                                      *)
THEOREM Clean == Spec => []NothingLeft
<1>1. Inv => NothingLeft
  BY Ids DEF Inv, InvDone, InvActive, WasActive, NothingLeft, At
<1> QED
  BY Invariance, <1>1, PTL

(* A send that blocks on a displaced connection, with sendMu held, waits   *)
(* for nobody who waits for sendMu: the connection is closed by its own    *)
(* handler, past its last send, or by the one that displaced it.           *)
THEOREM BlockedFreed == Spec => []BlockedSendFreed
<1>1. Inv => BlockedSendFreed
  <2> SUFFICES ASSUME Inv, NEW t \in Sender, Blocked(t), active \notin {None, cur[t]}
               PROVE  \/ pc[cur[t]] \in {"clear", "close"}
                      \/ \E e \in Conn : pc[e] = "evict" /\ prev[e] = cur[t]
    BY DEF BlockedSendFreed, At
  <2>1. pc[t] = "send" /\ cur[t] \in open /\ cur[t] # None
    BY DEF Blocked, At, Inv, TypeOK
  <2>2. cur[t] \in Conn
    <3>1. cur[t] \in 0..accepted /\ accepted \in 0..MaxConns
      BY DEF Inv, TypeOK
    <3> QED
      BY <2>1, <3>1, Ids, TlsTunnelAssumption
  <2>3. pc[cur[t]] \in WasActive
    <3>1. CASE t = Tun
      BY <3>1, <2>1 DEF Inv, InvCur
    <3>2. CASE t \in Conn
      BY <3>2, <2>1 DEF Inv, InvCur, WasActive
    <3> QED
      BY <3>1, <3>2, Ids
  <2>4. pc[cur[t]] # "done"
    BY <2>1, <2>2 DEF Inv, InvDone
  <2>5. CASE Established(cur[t])
    BY <2>2, <2>5 DEF Inv, InvDisplaced
  <2> QED
    BY <2>1, <2>3, <2>4, <2>5 DEF WasActive, Established
<1> QED
  BY Invariance, <1>1, PTL
=============================================================================
