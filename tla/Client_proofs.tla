--------------------------- MODULE Client_proofs ----------------------------
(***************************************************************************)
(* Proofs about Client for every number of connections and records, and    *)
(* about the clock of its select loop (LinkMonitor) for every interval.    *)
(***************************************************************************)
EXTENDS Client, LinkMonitor, TLAPS

SvLabel == {"top", "choose", "handshake", "set", "lock", "seal", "send", "session",
            "wait", "clear", "close", "sleep", "done"}

InvTypes ==
    /\ pc \in [{"sv", "tun", "stop"} -> SvLabel \cup {"read", "idle"}]
    /\ pc["sv"] \in SvLabel
    /\ dialled \in 0..MaxConns
    /\ conn \in 0..MaxConns /\ sess \in 0..MaxConns /\ mine \in 0..MaxConns
    /\ state \in [Conn -> {"none", "open", "closed"}]
    /\ rx \in [Conn -> {"none", "recv", "done"}]
    /\ counter \in [Conn -> Nat]
    /\ sealed \in [Sender -> [conn : 0..MaxConns, sess : 0..MaxConns, ctr : Nat]]
    /\ out \subseteq [sess : Conn, ctr : Nat]

(* c.mu is held from the look at (conn, sess) to the end of Send.          *)
InvMutex == \A t \in Sender : mu = t <=> pc[t] \in {"seal", "send"}

(* What is sealed under c.mu stays current until it is sent.               *)
InvSealed ==
    \A t \in Sender :
        /\ pc[t] \in {"seal", "send"} => conn # None /\ sess # None
        /\ pc[t] = "send" => sealed[t] = [conn |-> conn, sess |-> sess, ctr |-> counter[sess]]

InvSent == \A o \in out : o.ctr < counter[o.sess]

(* Only the newest connection is ever open, and only while the supervisor  *)
(* is busy with it; a receiver runs only in its session.                   *)
InvConns ==
    /\ \A n \in Conn : state[n] = "open" => n = dialled /\ pc["sv"] \notin {"top", "sleep", "done"}
    /\ \A n \in Conn : rx[n] = "recv" =>
          n = dialled /\ pc["sv"] \in {"session", "wait", "lock", "seal", "send"}

Inv == InvTypes /\ InvMutex /\ InvSealed /\ InvSent /\ InvConns

LEMMA InvInit == Init => Inv
BY ClientAssumption DEF Init, Inv, InvTypes, InvMutex, InvSealed, InvSent, InvConns, SvLabel,
   Conn, Sender, None, NoRecord

(* One step for each action; each disturbs few of the conjuncts.           *)
LEMMA InvStep == Inv /\ [Next]_vars => Inv'
<1> SUFFICES ASSUME Inv, [Next]_vars
             PROVE  Inv'
  OBVIOUS
<1> USE ClientAssumption DEF Inv, InvTypes, InvMutex, InvSealed, InvSent, InvConns, SvLabel,
        Conn, Sender, None, Goto, At, stopped, swap, plan, link, tasks, seals
<1>1. CASE UNCHANGED vars
  BY <1>1 DEF vars
<1>2. CASE SeeStop
  BY <1>2 DEF SeeStop
<1>3. CASE Dial
  BY <1>3 DEF Dial
<1>4. CASE DialFails
  BY <1>4 DEF DialFails
<1>5. CASE Choose
  BY <1>5, SMTT(30) DEF Choose
<1>6. CASE HandshakeDone
  BY <1>6 DEF HandshakeDone
<1>7. CASE HandshakeFails
  BY <1>7 DEF HandshakeFails, CloseFailed, Close
<1>8. CASE setCurrent
  BY <1>8, SMTT(30) DEF setCurrent, MuFree
<1>9. CASE clearCurrent
  BY <1>9, SMTT(30) DEF clearCurrent, MuFree
<1>10. CASE Disconnect
  BY <1>10 DEF Disconnect, Close
<1>11. CASE Wake
  BY <1>11 DEF Wake
<1>12. CASE RxEnded
  BY <1>12 DEF RxEnded, ReaderDone
<1>13. CASE StopSeen \/ IdleExpire
  <2>1. pc["sv"] = "session" /\ pc' = [pc EXCEPT !["sv"] = "wait"]
    BY <1>13 DEF StopSeen, IdleExpire, Hangup
  <2>2. state' = [state EXCEPT ![dialled] = "closed"]
    BY <1>13 DEF StopSeen, IdleExpire, Hangup, Close
  <2>3. UNCHANGED <<mu, swap, plan, tasks, seals>>
    BY <1>13 DEF StopSeen, IdleExpire, Hangup
  <2> QED
    BY <2>1, <2>2, <2>3
<1>14. CASE KeepaliveTick
  BY <1>14 DEF KeepaliveTick
<1>15. ASSUME NEW n \in Conn, handshake(n)
       PROVE  Inv'
  <2>1. UNCHANGED <<pc, mu, swap, plan, link, rx, seals>>
    BY <1>15 DEF handshake, HsSend, HsRecv, HsClosed
  <2> QED
    BY <2>1
<1>16. ASSUME NEW n \in Conn, receive(n)
       PROVE  Inv'
  <2>1. rx[n] = "recv" /\ UNCHANGED <<pc, mu, swap, plan, link, seals>>
    BY <1>16 DEF receive, RxRecord, RxClosed, RxError, RxEnds
  <2>2. PICK l \in {"recv", "done"} : rx' = [rx EXCEPT ![n] = l]
    BY <1>16 DEF receive, RxRecord, RxClosed, RxError, RxEnds
  <2>3. rx' \in [Conn -> {"none", "recv", "done"}]
    BY <2>2
  <2>4. InvConns'
    BY <2>1, <2>2
  <2> QED
    BY <2>1, <2>3, <2>4
<1>17. CASE ReadPacket
  BY <1>17 DEF ReadPacket
<1>18. ASSUME NEW t \in Sender, Lock(t)
       PROVE  Inv'
  BY <1>18 DEF Lock, MuFree, Connected
<1>19. ASSUME NEW t \in Sender, Skip(t)
       PROVE  Inv'
  BY <1>19 DEF Skip, MuFree, Resume, After
<1>20. ASSUME NEW t \in Sender, Seal(t)
       PROVE  Inv'
  BY <1>20, SMTT(30) DEF Seal, Held
<1>21. ASSUME NEW t \in Sender, Send(t)
       PROVE  Inv'
  <2>1. /\ pc[t] = "send" /\ mu = t /\ conn # None /\ sess \in Conn
        /\ sealed[t] = [conn |-> conn, sess |-> sess, ctr |-> counter[sess]]
    BY <1>21 DEF Send
  <2>2. /\ counter' = [counter EXCEPT ![sess] = @ + 1]
        /\ out' = out \cup {[sess |-> sess, ctr |-> counter[sess]]}
        /\ sealed' = [sealed EXCEPT ![t] = NoRecord]
        /\ mu' = "free"
        /\ UNCHANGED <<swap, plan, link, hs, got>>
    BY <1>21, <2>1 DEF Send
  <2>3. pc' = [pc EXCEPT ![t] = After(t)]
    BY <1>21 DEF Send, Resume
  <2>4. rx' = IF t = "sv" /\ rx[dialled] = "none" THEN [rx EXCEPT ![dialled] = "recv"] ELSE rx
    BY <1>21 DEF Send, Resume
  <2>5. InvTypes'
    <3>1. /\ pc' \in [{"sv", "tun", "stop"} -> SvLabel \cup {"read", "idle"}]
          /\ pc'["sv"] \in SvLabel
      BY <2>1, <2>3 DEF After
    <3>2. rx' \in [Conn -> {"none", "recv", "done"}]
      BY <2>4
    <3>3. /\ counter' \in [Conn -> Nat]
          /\ out' \subseteq [sess : Conn, ctr : Nat]
      BY <2>1, <2>2, SMTT(30)
    <3>4. sealed' \in [Sender -> [conn : 0..MaxConns, sess : 0..MaxConns, ctr : Nat]]
      BY <2>2 DEF NoRecord
    <3> QED
      BY <2>2, <3>1, <3>2, <3>3, <3>4
  <2>6. InvMutex' /\ InvSealed'
    BY <2>1, <2>2, <2>3 DEF After
  <2>7. InvSent'
    BY <2>1, <2>2, SMTT(30)
  <2>8. InvConns'
    BY <2>1, <2>2, <2>3, <2>4 DEF After
  <2> QED
    BY <2>5, <2>6, <2>7, <2>8
<1>22. CASE StopBegins
  BY <1>22 DEF StopBegins
<1>23. CASE TunFails
  <2>1. /\ pc["tun"] = "read" /\ pc' \in [{"sv", "tun", "stop"} -> SvLabel \cup {"read", "idle"}]
        /\ pc'["sv"] = pc["sv"] /\ pc'["tun"] = "done"
    BY <1>23 DEF TunFails
  <2>2. UNCHANGED <<mu, swap, plan, link, tasks, seals>>
    BY <1>23 DEF TunFails
  <2> QED
    BY <2>1, <2>2
<1>24. CASE StopCloses
  BY <1>24, SMTT(30) DEF StopCloses, MuFree, Close
<1>25. CASE LinkDies
  BY <1>25 DEF LinkDies
<1> QED
  BY <1>1, <1>2, <1>3, <1>4, <1>5, <1>6, <1>7, <1>8, <1>9, <1>10, <1>11, <1>12, <1>13, <1>14,
     <1>15, <1>16, <1>17, <1>18, <1>19, <1>20, <1>21, <1>22, <1>23, <1>24, <1>25
     DEF Next, supervise, session, transmit

LEMMA Invariance == Spec => []Inv
BY InvInit, InvStep, PTL DEF Spec

-----------------------------------------------------------------------------

(* The supervisor and tunReader never send two records under one key with  *)
(* one counter: while one is about to send, the other is not, and whatever *)
(* left under the session has a smaller counter.                           *)
THEOREM NonceSafety == Spec => []NonceUnique
<1>1. Inv => NonceUnique
  <2> SUFFICES ASSUME Inv, NEW t \in Sender, At(t, "send")
               PROVE  /\ \A o \in out : o.sess = sealed[t].sess => o.ctr # sealed[t].ctr
                      /\ \A u \in Sender \ {t} : At(u, "send") => sealed[u] # sealed[t]
    BY DEF NonceUnique
  <2>1. sealed[t].sess = sess /\ sealed[t].ctr = counter[sess]
    BY DEF Inv, InvSealed, At
  <2>2. ASSUME NEW o \in out, o.sess = sealed[t].sess
        PROVE  o.ctr # sealed[t].ctr
    <3>1. o.ctr \in Nat /\ o.sess \in Conn /\ counter[o.sess] \in Nat
      BY DEF Inv, InvTypes
    <3> QED
      BY <2>1, <2>2, <3>1 DEF Inv, InvSent
  <2>3. ASSUME NEW u \in Sender \ {t}
        PROVE  ~At(u, "send")
    BY DEF Inv, InvMutex, At
  <2> QED
    BY <2>2, <2>3
<1> QED
  BY Invariance, <1>1, PTL

(* A record leaves on the connection, and under the session, that are      *)
(* current when it leaves: c.mu keeps a reconnection out between Seal and  *)
(* Send.                                                                   *)
THEOREM Paired == Spec => []PairedSend
<1>1. Inv => PairedSend
  BY DEF Inv, InvSealed, PairedSend, At
<1> QED
  BY Invariance, <1>1, PTL

(* However a connection was lost, it is closed before the next is dialled  *)
(* and when Run returns.                                                   *)
THEOREM NoLeak == Spec => []NoConnLeak
<1>1. Inv => NoConnLeak
  BY DEF Inv, InvConns, NoConnLeak
<1> QED
  BY Invariance, <1>1, PTL

(* At most one goroutine calls Session.Open, that of the connection the    *)
(* supervisor pumps.                                                       *)
THEOREM OneReader == Spec => []ReaderConfined
<1>1. Inv => ReaderConfined
  BY DEF Inv, InvConns, ReaderConfined
<1> QED
  BY Invariance, <1>1, PTL

-----------------------------------------------------------------------------
(* The clock of the select loop (LinkMonitor), for every keepalive         *)
(* interval, idle limit and round trip.                                    *)

(* A ticker needs a positive period (client.go:264 panics otherwise);      *)
(* durOr sees to it.                                                       *)
LEMMA KeepalivePositive ==
  Keepalive \in Nat \ {0}
  BY MonitorAssumption DEF Keepalive, durOr

(* Besides: no timer is behind the clock.                                  *)
MonitorInv ==
    /\ MonitorTypeOK
    /\ lastRecv <= now /\ now <= nextKa /\ now <= nextCheck

LEMMA MonitorInitType ==
  ASSUME MonitorInit
  PROVE  MonitorInv
  <1>1. \/ pending = {}
        \/ \E d \in 0..Rtt : pending = {[sent |-> 0, at |-> d]}
    BY DEF MonitorInit
  <1>2. pending \subseteq [sent : Nat, at : Nat]
    BY <1>1, MonitorAssumption
  <1>3. lost \in Nat /\ answered \subseteq Nat
    BY DEF MonitorInit
  <1> QED  BY <1>2, <1>3, KeepalivePositive DEF MonitorInit, MonitorInv, MonitorTypeOK

LEMMA MonitorTypeStep ==
    ASSUME MonitorInv, [MonitorNext]_monitorVars
    PROVE  MonitorInv'
  <1> USE KeepalivePositive DEF MonitorInv, MonitorTypeOK
  <1>1. CASE sendKeepalive
    <2>1. ASSUME NEW d \in 0..Rtt, Exchange(d)
          PROVE  pending' \subseteq [sent : Nat, at : Nat] /\ answered' \subseteq Nat
                 /\ lost' \in Nat
      <3>1. now + d \in Nat /\ now \in Nat
        BY MonitorAssumption
      <3>2. [sent |-> now, at |-> now + d] \in [sent : Nat, at : Nat]
        BY <3>1
      <3>3. pending \subseteq [sent : Nat, at : Nat] /\ answered \subseteq Nat
        OBVIOUS
      <3> HIDE DEF MonitorInv, MonitorTypeOK
      <3> QED  BY <2>1, <3>1, <3>2, <3>3 DEF Exchange
    <2>2. CASE Vanish
      BY <1>1, <2>2 DEF sendKeepalive, Vanish
    <2> QED  BY <1>1, <2>1, <2>2 DEF sendKeepalive
  <1>2. CASE checkIdle
    BY <1>2 DEF checkIdle
  <1>3. CASE Receive
    BY <1>3 DEF Receive, Touch
  <1>4. CASE LinkDown
    BY <1>4 DEF LinkDown
  <1>5. CASE Tick
    BY <1>5 DEF Tick
  <1>6. CASE UNCHANGED monitorVars
    BY <1>6 DEF monitorVars
  <1> QED  BY <1>1, <1>2, <1>3, <1>4, <1>5, <1>6 DEF MonitorNext

LEMMA MonitorInvariance ==
  MonitorSpec => []MonitorInv
  <1>1. MonitorInv /\ [MonitorNext]_monitorVars => MonitorInv'
    BY MonitorTypeStep
  <1> QED  BY MonitorInitType, <1>1, PTL DEF MonitorSpec

-----------------------------------------------------------------------------
(* Detection: the next check never lies further ahead than this.           *)
CheckInTime == up => nextCheck <= lastRecv + Idle + Keepalive

(* A silent link is given up within Idle and one check period.             *)
THEOREM Detection ==
  MonitorSpec => []DeadLinkDetected
  <1> USE KeepalivePositive, MonitorAssumption
  <1>1. MonitorInit => CheckInTime
    BY DEF MonitorInit, CheckInTime
  <1>2. MonitorInv /\ CheckInTime /\ [MonitorNext]_monitorVars => CheckInTime'
    <2> SUFFICES ASSUME MonitorInv, CheckInTime, [MonitorNext]_monitorVars
                 PROVE  CheckInTime'
      OBVIOUS
    <2>0. /\ nextCheck \in Nat /\ lastRecv \in Nat /\ now \in Nat /\ lastRecv <= now
          /\ Idle \in Nat /\ Keepalive \in Nat
      BY DEF MonitorInv, MonitorTypeOK
    <2>1. CASE checkIdle
      <3>1. /\ nextCheck' = now + Keepalive /\ lastRecv' = lastRecv
            /\ up' => ~(now - lastRecv > Idle)
        BY <2>1 DEF checkIdle, Expired
      <3> QED  BY <2>0, <3>1 DEF CheckInTime
    <2>2. CASE \/ sendKeepalive \/ Receive \/ LinkDown
               \/ Tick \/ UNCHANGED monitorVars
      <3>1. /\ nextCheck' = nextCheck /\ up' = up
            /\ lastRecv' = lastRecv \/ lastRecv' = now
        BY <2>2 DEF sendKeepalive, Receive, Touch, LinkDown,
           Tick, monitorVars
      <3> QED  BY <2>0, <3>1 DEF CheckInTime
    <2> QED  BY <2>1, <2>2 DEF MonitorNext
  <1>3. MonitorInv /\ CheckInTime => DeadLinkDetected
    BY DEF MonitorInv, MonitorTypeOK, CheckInTime, DeadLinkDetected
  <1> QED  BY MonitorInvariance, <1>1, <1>2, <1>3, PTL DEF MonitorSpec

-----------------------------------------------------------------------------
(* A healthy link.  Gap is the longest time between two keepalives that    *)
(* are answered.                                                           *)
Gap   == (MaxLost + 1) * Keepalive
Since == nextKa - Keepalive - lost * Keepalive      \* the last answered one

(* An answered keepalive newer than lastRecv has its answer under way.     *)
Answering ==
    /\ \A r \in pending : r.at >= now
    /\ \A t \in answered :
          /\ t <= now
          /\ t > lastRecv => \E r \in pending : r.at <= t + Rtt

(* Up to the last answered keepalive, one falls in every stretch of Gap.   *)
Covered ==
    /\ lost <= MaxLost
    /\ \A x \in Nat : x <= Since => \E t \in answered : x <= t /\ t < x + Gap

HealthyInv == alive => up /\ Answering /\ Covered

(* The products the proof meets.                                           *)
LEMMA Products ==
    ASSUME NEW l \in Nat, NEW k \in Nat, NEW m \in Nat
    PROVE  /\ l * k \in Nat
           /\ (l + 1) * k = l * k + k
           /\ l <= m => l * k <= m * k
  <1>1. l * k \in Nat /\ (l + 1) * k = l * k + k
    BY SMT
  <1>2. ASSUME l <= m PROVE l * k <= m * k
    <2>1. (m - l) * k >= 0  BY <1>2, SMT
    <2>2. (m - l) * k = m * k - l * k  BY SMT
    <2>3. m * k \in Nat /\ l * k \in Nat  BY SMT
    <2> QED  BY <2>1, <2>2, <2>3
  <1> QED  BY <1>1, <1>2

LEMMA SinceFacts ==
    ASSUME MonitorInv
    PROVE  /\ Gap \in Nat /\ Gap >= 1 /\ Since \in Int
           /\ Since <= nextKa - Keepalive
           /\ lost <= MaxLost => Since >= nextKa - Gap
  <1> DEFINE P == lost * Keepalive
             Q == MaxLost * Keepalive
  <1>1. Keepalive \in Nat /\ Keepalive >= 1 /\ lost \in Nat /\ MaxLost \in Nat
        /\ nextKa \in Nat
    BY KeepalivePositive, MonitorAssumption DEF MonitorInv, MonitorTypeOK
  <1>2. P \in Nat /\ (lost <= MaxLost => P <= Q)
    BY <1>1, Products
  <1>3. Q \in Nat /\ Gap = Q + Keepalive
    BY <1>1, Products DEF Gap
  <1>4. Since = nextKa - Keepalive - P
    BY DEF Since
  <1> HIDE DEF P, Q
  <1> QED  BY <1>1, <1>2, <1>3, <1>4

LEMMA InitHealthy ==
  ASSUME MonitorInit
  PROVE  HealthyInv
  <1>1. \/ pending = {}
        \/ \E d \in 0..Rtt : pending = {[sent |-> 0, at |-> d]}
    BY DEF MonitorInit
  <1>2. /\ up /\ now = 0 /\ lastRecv = 0 /\ nextKa = Keepalive
        /\ \/ lost = 0 /\ answered = {0}
           \/ lost = 1 /\ answered = {} /\ MaxLost > 0
    BY DEF MonitorInit
  <1>3. Answering
    BY <1>1, <1>2, MonitorAssumption DEF Answering
  <1>4. Since <= 0
    BY <1>2, MonitorInitType, SinceFacts, KeepalivePositive
  <1>5. Covered
    <2>1. \A x \in Nat : x <= Since => x = 0
      BY <1>4, MonitorInitType, SinceFacts
    <2>2. 0 < 0 + Gap
      BY MonitorInitType, SinceFacts
    <2>3. CASE lost = 0 /\ answered = {0}
      BY <2>1, <2>2, <2>3, MonitorAssumption DEF Covered
    <2>4. CASE lost = 1 /\ answered = {} /\ MaxLost > 0
      <3>1. Since < 0
        <4>1. Since = nextKa - Keepalive - 1 * Keepalive
          BY <2>4 DEF Since
        <4>2. 1 * Keepalive = Keepalive
          BY KeepalivePositive
        <4> QED  BY <1>2, <4>1, <4>2, KeepalivePositive
      <3> QED  BY <1>4, <2>4, <3>1, MonitorInitType, SinceFacts, MonitorAssumption DEF Covered
    <2> QED  BY <1>2, <2>3, <2>4
  <1> QED  BY <1>2, <1>3, <1>5 DEF HealthyInv

LEMMA HealthyStep ==
    ASSUME Gap + Rtt <= Idle, MonitorInv, HealthyInv,
           [MonitorNext]_monitorVars
    PROVE  HealthyInv'
  <1>0. SUFFICES ASSUME alive' PROVE up' /\ Answering' /\ Covered'
    BY DEF HealthyInv
  <1>1. alive
    <2>1. CASE LinkDown
      BY <1>0, <2>1 DEF LinkDown
    <2>2. CASE \/ sendKeepalive \/ checkIdle \/ Receive
               \/ Tick \/ UNCHANGED monitorVars
      <3>1. alive' = alive
        BY <2>2 DEF sendKeepalive, checkIdle, Receive, Tick,
           monitorVars
      <3> QED  BY <1>0, <3>1
    <2> QED  BY <2>1, <2>2 DEF MonitorNext
  <1>2. up /\ Answering /\ Covered
    BY <1>1 DEF HealthyInv
  <1>3. /\ now \in Nat /\ lastRecv \in Nat /\ nextKa \in Nat /\ lastRecv <= now
        /\ now <= nextKa /\ answered \subseteq Nat /\ lost \in Nat
        /\ Rtt \in Nat /\ Idle \in Nat /\ Keepalive \in Nat
        /\ \A r \in pending : r.at \in Nat
    BY MonitorAssumption, KeepalivePositive DEF MonitorInv, MonitorTypeOK
  <1>4. /\ Gap \in Nat /\ Gap >= 1 /\ Since \in Int
        /\ Since <= nextKa - Keepalive /\ Since >= nextKa - Gap
    BY <1>2, SinceFacts DEF Covered
  <1>5. Since' = nextKa' - Keepalive - lost' * Keepalive
    BY DEF Since, Keepalive
  <1>6. CASE sendKeepalive
    <2>1. /\ now = nextKa /\ nextKa' = nextKa + Keepalive
          /\ UNCHANGED <<now, up, lastRecv>>
      BY <1>6 DEF sendKeepalive
    <2>2. ASSUME NEW d \in 0..Rtt, Exchange(d)
          PROVE  Answering' /\ Covered'
      <3> DEFINE new == [sent |-> now, at |-> now + d]
      <3>1. /\ pending' = pending \cup {new} /\ answered' = answered \cup {now}
            /\ lost' = 0
        BY <2>2 DEF Exchange
      <3>2. new.at >= now /\ new.at <= now + Rtt
        BY <1>3
      <3>3. Answering'
        BY <1>2, <1>3, <2>1, <3>1, <3>2 DEF Answering
      <3>4. Since' = now
        <4>1. lost' * Keepalive = 0
          BY <1>3, <3>1
        <4> QED  BY <1>3, <1>5, <2>1, <4>1
      <3>5. Covered'
        <4> SUFFICES ASSUME NEW x \in Nat, x <= now
                     PROVE  \E t \in answered' : x <= t /\ t < x + Gap
          <5>1. lost' <= MaxLost
            BY <3>1, MonitorAssumption
          <5>2. Gap' = Gap
            BY DEF Gap, Keepalive
          <5> QED  BY <3>4, <5>1, <5>2 DEF Covered
        <4>1. CASE x <= Since
          BY <1>2, <3>1, <4>1 DEF Covered
        <4>2. CASE x > Since
          <5>1. now < x + Gap  BY <1>3, <1>4, <2>1, <4>2
          <5> QED  BY <3>1, <5>1
        <4> QED  BY <1>4, <4>1, <4>2
      <3> QED  BY <3>3, <3>5
    <2>3. ASSUME lost < MaxLost, Vanish
          PROVE  Answering' /\ Covered'
      <3>1. UNCHANGED <<pending, answered>> /\ lost' = lost + 1
        BY <2>3 DEF Vanish
      <3>2. Since' = Since
        <4> DEFINE P == lost * Keepalive
                   R == lost' * Keepalive
        <4>1. Since' = nextKa' - Keepalive - R
          BY <1>5
        <4>2. R = P + Keepalive /\ P \in Nat
          BY <1>3, <3>1, Products
        <4>3. Since = nextKa - Keepalive - P
          BY DEF Since
        <4> HIDE DEF P, R
        <4> QED  BY <1>3, <2>1, <4>1, <4>2, <4>3
      <3>3. Covered'
        BY <1>2, <1>3, <2>3, <3>1, <3>2, MonitorAssumption
           DEF Covered, Gap, Keepalive
      <3> QED  BY <1>2, <2>1, <3>1, <3>3 DEF Answering
    <2> QED  BY <1>1, <1>2, <1>6, <2>1, <2>2, <2>3 DEF sendKeepalive
  <1>7. CASE checkIdle
    <2>1. UNCHANGED <<now, lastRecv, nextKa, pending, lost, answered>> /\ up' = ~Expired
      BY <1>7 DEF checkIdle
    <2>2. Answering' /\ Covered'
      BY <1>2, <2>1 DEF Answering, Covered, Since
    <2>3. ASSUME Expired PROVE FALSE
      <3> DEFINE x == lastRecv + 1
      <3>1. x \in Nat /\ x + Gap + Rtt <= now
        BY <1>3, <1>4, <2>3 DEF Expired
      <3>2. x <= Since
        BY <1>3, <1>4, <3>1
      <3>3. PICK t \in answered : x <= t /\ t < x + Gap
        BY <1>2, <3>1, <3>2 DEF Covered
      <3>4. t > lastRecv /\ t + Rtt < now
        BY <1>3, <1>4, <3>1, <3>3
      <3>5. PICK r \in pending : r.at <= t + Rtt
        BY <1>2, <3>4 DEF Answering
      <3>6. r.at >= now
        BY <1>2 DEF Answering
      <3> QED  BY <1>3, <3>4, <3>5, <3>6
    <2> QED  BY <2>1, <2>2, <2>3
  <1>8. CASE Receive
    <2>1. /\ UNCHANGED <<now, up, nextKa, lost, answered>>
          /\ pending' \subseteq pending /\ lastRecv' = now
      BY <1>8 DEF Receive, Touch
    <2>2. Answering'
      BY <1>2, <1>3, <2>1 DEF Answering
    <2>3. Covered'
      BY <1>2, <2>1 DEF Covered, Since
    <2> QED  BY <1>2, <2>1, <2>2, <2>3
  <1>9. CASE Tick
    <2>1. /\ UNCHANGED <<up, lastRecv, nextKa, pending, lost, answered>>
          /\ now' = now + 1 /\ \A r \in pending : now < r.at
      BY <1>9 DEF Tick
    <2>2. Answering'
      BY <1>2, <1>3, <2>1 DEF Answering
    <2>3. Covered'
      BY <1>2, <2>1 DEF Covered, Since
    <2> QED  BY <1>2, <2>1, <2>2, <2>3
  <1>10. CASE UNCHANGED monitorVars
    BY <1>2, <1>10 DEF monitorVars, Answering, Covered, Since
  <1>11. CASE LinkDown
    BY <1>0, <1>11 DEF LinkDown
  <1> QED  BY <1>6, <1>7, <1>8, <1>9, <1>10, <1>11 DEF MonitorNext

(* A link that answers is never given up, provided the idle limit covers   *)
(* the keepalives that may be lost in a row and one round trip.            *)
THEOREM Healthy ==
    ASSUME Gap + Rtt <= Idle
    PROVE  MonitorSpec => []HealthyLinkKept
  <1>1. MonitorInv /\ HealthyInv /\ [MonitorNext]_monitorVars => HealthyInv'
    BY HealthyStep
  <1>2. HealthyInv => HealthyLinkKept
    BY DEF HealthyInv, HealthyLinkKept
  <1> QED  BY MonitorInvariance, InitHealthy, <1>1, <1>2, PTL DEF MonitorSpec
=============================================================================
