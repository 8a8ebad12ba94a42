-------------------------- MODULE UdpTunnel_proofs --------------------------
(***************************************************************************)
(* Proofs about UdpTunnel for every number of handshakes, sessions and     *)
(* records: no counter is used twice and an answer goes where it belongs,  *)
(* whatever the network delivers and however the two goroutines interleave.*)
(***************************************************************************)
EXTENDS UdpTunnel, TLAPS

Label == {"recv", "reply", "install", "read", "lock", "seal", "send"}
Busy  == {"seal", "send"}

(* sendMu is held by who seals, and what was read from the counter of his  *)
(* session is still the counter.                                           *)
InvMutex ==
    /\ pc \in [Sender -> Label]
    /\ \A t \in Sender : pc[t] \in Busy <=> sendMu = t
    /\ \A t \in Sender : pc[t] \in Busy => sendCounter[task[t].sess] < MaxSeals
    /\ \A t \in Sender : pc[t] = "send" => sealed[t] = sendCounter[task[t].sess]

(* Nothing is received while an answer is due, so the endpoint is that of  *)
(* the datagram being answered.                                            *)
InvNet ==
    /\ pc["net"] \in {"reply", "lock", "seal", "send"} => peer = task["net"].src
    /\ pc["net"] \in {"reply", "install"} => task["net"].sess # None
    /\ pc["net"] = "lock" => current # None

InvSent ==
    /\ sent \in [Addr -> Seq(Packets)]
    /\ \A x \in Records : Packet(x).ctr < sendCounter[Packet(x).sess]

Inv == TypeOK /\ InvMutex /\ InvNet /\ InvSent /\ NonceUnique /\ AnswersReturn

LEMMA SenderFacts ==
    /\ Sender = {"net", "tun"} /\ "free" \notin Sender
    /\ \A t \in Sender : Kind[t] \in {"data", "keepalive"}
  BY DEF Sender, Kind

(* What a datagram that is sent adds to the history.                       *)
LEMMA PutAdds ==
  ASSUME sent \in [Addr -> Seq(Packets)], NEW t, NEW p \in Packets, Put(t, p)
  PROVE  /\ sent' \in [Addr -> Seq(Packets)]
         /\ \E y : \A x \in Places' : \/ x = y /\ Packet(x)' = p
                                      \/ x \in Places /\ Packet(x)' = Packet(x)
<1>1. sent' = [sent EXCEPT ![peer] = Append(@, p)]
  BY DEF Put
<1>2. sent' \in [Addr -> Seq(Packets)]
  <2>1. \A a \in Addr : Append(sent[a], p) \in Seq(Packets)
    OBVIOUS
  <2>2. QED
    BY <1>1, <2>1
<1> DEFINE y == <<peer, Len(sent[peer]) + 1>>
<1>3. ASSUME NEW a \in Addr, NEW i \in DOMAIN sent'[a]
      PROVE  \/ <<a, i>> = y /\ sent'[a][i] = p
             \/ i \in DOMAIN sent[a] /\ sent'[a][i] = sent[a][i]
  <2>1. CASE a = peer
    <3>1. sent'[a] = Append(sent[a], p) /\ sent[a] \in Seq(Packets)
      BY <1>1, <2>1
    <3>2. QED
      BY <2>1, <3>1
  <2>2. CASE a # peer
    BY <1>1, <2>2
  <2>3. QED
    BY <2>1, <2>2
<1>4. ASSUME NEW x \in Places'
      PROVE  \/ x = y /\ Packet(x)' = p
             \/ x \in Places /\ Packet(x)' = Packet(x)
  <2>1. PICK a \in Addr : \E i \in DOMAIN sent'[a] : x = <<a, i>>
    BY DEF Places
  <2>2. PICK i \in DOMAIN sent'[a] : x = <<a, i>>
    BY <2>1
  <2>3. x[1] = a /\ x[2] = i
    BY <2>2
  <2>4. QED
    BY <1>3, <2>2, <2>3 DEF Places, Packet
<1>5. QED
  BY <1>2, <1>4

(* An m2 has no counter.                                                   *)
LEMMA PutReply ==
  ASSUME InvSent, NonceUnique, NEW t, NEW p \in Packets, p.typ = "m2", Put(t, p),
         UNCHANGED sendCounter
  PROVE  InvSent' /\ NonceUnique'
<1>1. PICK y : \A x \in Places' : \/ x = y /\ Packet(x)' = p
                                  \/ x \in Places /\ Packet(x)' = Packet(x)
  BY PutAdds DEF InvSent
<1>2. sent' \in [Addr -> Seq(Packets)]
  BY PutAdds DEF InvSent
<1>3. \A x \in Records' : x \in Records /\ Packet(x)' = Packet(x)
  BY <1>1 DEF Records
<1>4. QED
  BY <1>2, <1>3 DEF InvSent, NonceUnique

(* A record leaves under the counter of its session, which then grows.     *)
LEMMA PutRecord ==
  ASSUME InvSent, NonceUnique, NEW t, NEW p \in Packets, Put(t, p),
         sendCounter \in [Session -> Nat], p.ctr = sendCounter[p.sess],
         sendCounter' = [sendCounter EXCEPT ![p.sess] = @ + 1]
  PROVE  InvSent' /\ NonceUnique'
<1>1. PICK y : \A x \in Places' : \/ x = y /\ Packet(x)' = p
                                  \/ x \in Places /\ Packet(x)' = Packet(x)
  BY PutAdds DEF InvSent
<1>2. sent' \in [Addr -> Seq(Packets)]
  BY PutAdds DEF InvSent
<1>3. \A x \in Records' : \/ x = y /\ Packet(x)' = p
                          \/ x \in Records /\ Packet(x)' = Packet(x)
  BY <1>1 DEF Records
<1>4. p.sess \in Session
  BY DEF Packets
<1>5. ASSUME NEW x \in Records
      PROVE  Packet(x) \in Packets
  <2>1. PICK a \in Addr : \E i \in DOMAIN sent[a] : x = <<a, i>>
    BY DEF Records, Places
  <2>2. PICK i \in DOMAIN sent[a] : x = <<a, i>>
    BY <2>1
  <2>3. sent[a] \in Seq(Packets) /\ Packet(x) = sent[a][i]
    BY <2>2 DEF InvSent, Packet
  <2>4. QED
    BY <2>2, <2>3
<1>6. \A x \in Records : Packet(x).sess \in Session
  BY <1>5 DEF Packets
<1>7. \A n \in Session : sendCounter'[n] = IF n = p.sess THEN sendCounter[n] + 1 ELSE sendCounter[n]
  OBVIOUS
<1>8. \A x \in Records : Packet(x).ctr \in Nat
  BY <1>5 DEF Packets
<1>9. p.ctr < sendCounter'[p.sess]
  BY <1>4, <1>7
<1>10. \A x \in Records : Packet(x).ctr < sendCounter'[Packet(x).sess]
  BY <1>6, <1>7, <1>8 DEF InvSent
<1>11. InvSent'
  BY <1>2, <1>3, <1>9, <1>10 DEF InvSent
<1>12. \A x \in Records : Packet(x).sess = p.sess => Packet(x).ctr # p.ctr
  BY <1>4, <1>6, <1>8 DEF InvSent
<1>13. NonceUnique'
  BY <1>3, <1>12 DEF NonceUnique
<1>14. QED
  BY <1>11, <1>13

(* A step that sends nothing.                                              *)
LEMMA SentSame ==
  ASSUME InvSent, NonceUnique, UNCHANGED <<sent, sendCounter>>
  PROVE  InvSent' /\ NonceUnique'
BY DEF InvSent, NonceUnique, Records, Places, Packet

(* What TypeOK says of the history.                                        *)
LEMMA SentTyped ==
  ASSUME NEW f \in [Addr -> Seq(Packets)]
  PROVE  \A a \in Addr : \A i \in DOMAIN f[a] : f[a][i] \in Packets
<1> SUFFICES ASSUME NEW a \in Addr, NEW i \in DOMAIN f[a]
             PROVE  f[a][i] \in Packets
  OBVIOUS
<1>1. f[a] \in Seq(Packets)
  OBVIOUS
<1>2. QED
  BY <1>1

(* A step that touches neither the history nor the lock.                   *)
LEMMA Apart ==
  ASSUME Inv, UNCHANGED <<sent, sendCounter, answers, sendMu, sealed>>, TypeOK', InvNet',
         pc' \in [Sender -> Label],
         \A t \in Sender : /\ pc'[t] \in Busy <=> pc[t] \in Busy
                           /\ pc[t] \in Busy => pc'[t] = pc[t] /\ task'[t] = task[t]
  PROVE  Inv'
<1>1. InvMutex'
  BY DEF Inv, InvMutex, Busy
<1>2. InvSent' /\ NonceUnique'
  BY SentSame DEF Inv
<1>3. AnswersReturn'
  BY DEF Inv, AnswersReturn
<1>4. QED
  BY <1>1, <1>2, <1>3 DEF Inv

LEMMA DialStep ==
  ASSUME Inv, Dial
  PROVE  Inv'
<1>1. inits \in Nat /\ inits' = inits + 1 /\ inits' <= MaxInits
  BY UdpTunnelAssumption DEF Dial, Inv, TypeOK, UdpTunnelAssumption
<1>2. 0..inits \subseteq 0..inits'
  BY <1>1
<1>3. TypeOK'
  BY <1>1, <1>2, UdpTunnelAssumption DEF Dial, Inv, TypeOK, UdpTunnelAssumption
<1>4. InvNet'
  BY DEF Dial, Inv, InvNet
<1>5. QED
  BY <1>3, <1>4, Apart DEF Dial, Inv, InvMutex

LEMMA TaskTypes ==
  ASSUME NEW m \in Nat, NEW n \in Nat, m <= n, NEW i \in Nat
  PROVE  [sess : 0..m, src : 0..i] \subseteq [sess : 0..n, src : 0..i]
<1>1. 0..m \subseteq 0..n
  OBVIOUS
<1>2. QED
  BY <1>1

LEMMA RecvInitStep ==
  ASSUME Inv, NEW k \in Addr, RecvInit(k)
  PROVE  Inv'
<1>1. made \in 0..MaxSessions /\ made' = made + 1 /\ made' \in Session /\ k \in 0..inits
  BY UdpTunnelAssumption DEF RecvInit, Inv, TypeOK, UdpTunnelAssumption, Session, Addr
<1>2. 0..made \subseteq 0..made' /\ made \in Nat /\ made' \in Nat /\ made <= made'
  BY <1>1
<1>3. /\ pc' = [pc EXCEPT !["net"] = "reply"] /\ pc["net"] = "recv"
      /\ task' = [task EXCEPT !["net"] = [sess |-> made', src |-> k]] /\ peer' = k
      /\ UNCHANGED <<sent, sendCounter, answers, sendMu, sealed, inits, accepted, current>>
  BY DEF RecvInit, Recv, Learnt, Goto, At
<1> DEFINE Tasks(m) == [sess : 0..m, src : 0..inits]
<1>4. task' \in [Sender -> Tasks(made')]
  <2>1. [sess |-> made', src |-> k] \in Tasks(made')
    BY <1>1, <1>2
  <2>2. task \in [Sender -> Tasks(made)] /\ inits \in Nat
    BY UdpTunnelAssumption DEF Inv, TypeOK, UdpTunnelAssumption
  <2>3. Tasks(made) \subseteq Tasks(made')
    BY <1>2, <2>2, TaskTypes
  <2> HIDE DEF Tasks
  <2>4. task \in [Sender -> Tasks(made')]
    BY <2>2, <2>3
  <2>5. QED
    BY <1>3, <2>1, <2>4
<1>5. /\ pc'["net"] = "reply" /\ pc'["tun"] = pc["tun"]
      /\ task'["net"] = [sess |-> made', src |-> k] /\ task'["tun"] = task["tun"]
      /\ pc' \in [Sender -> Label]
  BY <1>3, SenderFacts DEF Inv, InvMutex, TypeOK, Label
<1>6. from' \in [Session -> 0..inits]
  BY <1>1 DEF RecvInit, Inv, TypeOK
<1>7. TypeOK'
  <2>1. \A t \in Sender : pc'[t] \in Busy => task'[t].sess # None
    BY <1>5, SenderFacts DEF Inv, TypeOK, Busy
  <2>2. current \in 0..made' /\ peer' \in 0..inits /\ made' \in 0..MaxSessions
    BY <1>1, <1>2, <1>3 DEF Inv, TypeOK, Session
  <2>3. QED
    BY <1>3, <1>4, <1>5, <1>6, <2>1, <2>2 DEF Inv, TypeOK, Busy
<1>8. InvNet'
  BY <1>1, <1>3, <1>5 DEF InvNet, None, Session
<1>9. QED
  BY <1>3, <1>5, <1>7, <1>8, Apart, SenderFacts DEF Busy

LEMMA SendReplyStep ==
  ASSUME Inv, SendReply
  PROVE  Inv'
<1> DEFINE p == [typ |-> "m2", sess |-> task["net"].sess, ctr |-> 0]
<1>1. /\ pc["net"] = "reply" /\ pc' = [pc EXCEPT !["net"] = "install"]
      /\ Put("net", p) /\ answers' = answers \cup {[src |-> task["net"].src, to |-> peer]}
      /\ UNCHANGED <<learn, sendCounter, current, peer, sendMu, task, sealed>>
  BY DEF SendReply, At, Goto, Answered
<1>2. task["net"].sess \in Session
  BY <1>1, SenderFacts, UdpTunnelAssumption, SMTT(30)
     DEF Inv, InvNet, TypeOK, Session, None, UdpTunnelAssumption
<1>3. p \in Packets /\ p.typ = "m2"
  BY <1>2, UdpTunnelAssumption DEF Packets, UdpTunnelAssumption
<1>4. InvSent' /\ NonceUnique'
  BY <1>1, <1>3, PutReply DEF Inv
<1>5. AnswersReturn'
  BY <1>1 DEF Inv, AnswersReturn, InvNet
<1>6. pc'["net"] = "install" /\ pc'["tun"] = pc["tun"] /\ pc' \in [Sender -> Label]
  BY <1>1, SenderFacts DEF Inv, InvMutex, Label
<1>7. TypeOK'
  BY <1>1, <1>4, <1>6, SenderFacts, SentTyped DEF Inv, InvSent, TypeOK, learn
<1>8. InvNet'
  BY <1>1, <1>6 DEF Inv, InvNet
<1>9. InvMutex'
  BY <1>1, <1>6, SenderFacts DEF Inv, InvMutex, Busy
<1>10. QED
  BY <1>4, <1>5, <1>7, <1>8, <1>9 DEF Inv

(* A step of the receiving goroutine that leaves it with no answer due.    *)
LEMMA InstallStep ==
  ASSUME Inv, Install
  PROVE  Inv'
<1>1. /\ pc["net"] = "install" /\ pc' = [pc EXCEPT !["net"] = "recv"]
      /\ current' = task["net"].sess /\ task' = [task EXCEPT !["net"] = NoTask]
      /\ UNCHANGED <<learn, sendCounter, peer, sendMu, sealed, sent, answers>>
  BY DEF Install, At, Goto
<1>2. /\ pc'["net"] = "recv" /\ pc'["tun"] = pc["tun"] /\ pc' \in [Sender -> Label]
      /\ task'["tun"] = task["tun"]
  BY <1>1, SenderFacts DEF Inv, InvMutex, TypeOK, Label
<1>3. NoTask \in [sess : 0..made, src : 0..inits]
  BY UdpTunnelAssumption DEF Inv, TypeOK, NoTask, None, UdpTunnelAssumption
<1>4. task' \in [Sender -> [sess : 0..made, src : 0..inits]] /\ current' \in 0..made
  BY <1>1, <1>3, SenderFacts DEF Inv, TypeOK
<1>5. TypeOK'
  BY <1>1, <1>2, <1>4, SenderFacts DEF Inv, TypeOK, learn
<1>6. InvNet'
  BY <1>2 DEF InvNet
<1>7. QED
  BY <1>1, <1>2, <1>5, <1>6, Apart, SenderFacts DEF Busy

LEMMA ReplyFailsStep ==
  ASSUME Inv, ReplyFails
  PROVE  Inv'
<1>1. /\ pc["net"] = "reply" /\ pc' = [pc EXCEPT !["net"] = "recv"]
      /\ task' = [task EXCEPT !["net"] = NoTask]
      /\ UNCHANGED <<learn, sendCounter, current, peer, sendMu, sealed, sent, answers>>
  BY DEF ReplyFails, At, Goto
<1>2. /\ pc'["net"] = "recv" /\ pc'["tun"] = pc["tun"] /\ pc' \in [Sender -> Label]
      /\ task'["tun"] = task["tun"]
  BY <1>1, SenderFacts DEF Inv, InvMutex, TypeOK, Label
<1>3. NoTask \in [sess : 0..made, src : 0..inits]
  BY UdpTunnelAssumption DEF Inv, TypeOK, NoTask, None, UdpTunnelAssumption
<1>4. task' \in [Sender -> [sess : 0..made, src : 0..inits]]
  BY <1>1, <1>3, SenderFacts DEF Inv, TypeOK
<1>5. TypeOK'
  BY <1>1, <1>2, <1>4, SenderFacts DEF Inv, TypeOK, learn
<1>6. InvNet'
  BY <1>2 DEF InvNet
<1>7. QED
  BY <1>1, <1>2, <1>5, <1>6, Apart, SenderFacts DEF Busy

(* A datagram that changes what the filter holds, or nothing but the peer. *)
LEMMA RecvDataStep ==
  ASSUME Inv, NEW src \in Addr,
         \/ RecvDropped(src)
         \/ \E n \in Session, c \in 0..MaxCtr : RecvData(n, c, src)
  PROVE  Inv'
<1>1. /\ pc["net"] = "recv" /\ peer' = src
      /\ UNCHANGED <<inits, made, from, sendCounter, current, pc, sendMu, task, sealed, sent,
                     answers>>
  BY DEF RecvData, RecvDropped, Recv, Learnt, At, learn
<1>2. accepted' \in [Session -> SUBSET (0..MaxCtr)] /\ peer' \in 0..inits
  <2>1. CASE RecvDropped(src)
    BY <1>1, <2>1, UdpTunnelAssumption
       DEF RecvDropped, Inv, TypeOK, learn, Addr, UdpTunnelAssumption
  <2>2. ASSUME NEW n \in Session, NEW c \in 0..MaxCtr, RecvData(n, c, src)
        PROVE  accepted' \in [Session -> SUBSET (0..MaxCtr)] /\ peer' \in 0..inits
    BY <1>1, <2>2 DEF RecvData, Arrives, Inv, TypeOK
  <2>3. QED
    BY <2>1, <2>2
<1>3. TypeOK'
  BY <1>1, <1>2 DEF Inv, TypeOK
<1>4. InvNet'
  BY <1>1 DEF InvNet
<1>5. QED
  BY <1>1, <1>3, <1>4, Apart DEF Inv, InvMutex

LEMMA RecvKeepaliveStep ==
  ASSUME Inv, NEW n \in Session, NEW c \in 0..MaxCtr, NEW src \in Addr,
         RecvKeepalive(n, c, src)
  PROVE  Inv'
<1>1. /\ pc["net"] = "recv" /\ peer' = src /\ src = from[n] /\ n \in 1..made /\ n = current
      /\ pc' = [pc EXCEPT !["net"] = "lock"]
      /\ task' = [task EXCEPT !["net"] = [sess |-> n, src |-> src]]
      /\ UNCHANGED <<inits, made, from, sendCounter, current, sendMu, sealed, sent, answers>>
  BY DEF RecvKeepalive, Recv, Learnt, At, Arrives, Opens, Goto
<1>2. accepted' \in [Session -> SUBSET (0..MaxCtr)]
  BY DEF RecvKeepalive, Inv, TypeOK
<1>3. /\ pc'["net"] = "lock" /\ pc'["tun"] = pc["tun"] /\ pc' \in [Sender -> Label]
      /\ task'["tun"] = task["tun"] /\ task'["net"] = [sess |-> n, src |-> src]
  BY <1>1, SenderFacts DEF Inv, InvMutex, TypeOK, Label
<1>4. src \in 0..inits /\ n \in 0..made /\ n # None
  BY <1>1 DEF Inv, TypeOK, None
<1>5. task' \in [Sender -> [sess : 0..made, src : 0..inits]]
  <2>1. [sess |-> n, src |-> src] \in [sess : 0..made, src : 0..inits]
    BY <1>4
  <2>2. QED
    BY <1>1, <2>1 DEF Inv, TypeOK
<1>6. TypeOK'
  BY <1>1, <1>2, <1>3, <1>4, <1>5, SenderFacts DEF Inv, TypeOK
<1>7. InvNet'
  BY <1>1, <1>3, <1>4 DEF InvNet
<1>8. QED
  BY <1>1, <1>3, <1>6, <1>7, Apart, SenderFacts DEF Busy

LEMMA ReadPacketStep ==
  ASSUME Inv, ReadPacket
  PROVE  Inv'
<1>1. /\ pc["tun"] = "read" /\ pc' = [pc EXCEPT !["tun"] = "lock"]
      /\ UNCHANGED <<learn, sendCounter, current, peer, sendMu, task, sealed, sent, answers>>
  BY DEF ReadPacket, At, Goto
<1>2. pc'["tun"] = "lock" /\ pc'["net"] = pc["net"] /\ pc' \in [Sender -> Label]
  BY <1>1, SenderFacts DEF Inv, InvMutex, Label
<1>3. TypeOK'
  BY <1>1, <1>2, SenderFacts DEF Inv, TypeOK, learn
<1>4. InvNet'
  BY <1>1, <1>2 DEF Inv, InvNet
<1>5. QED
  BY <1>1, <1>2, <1>3, <1>4, Apart, SenderFacts DEF Busy

(* Who takes the lock finds it free, and no answer is dropped: a keepalive *)
(* opens only under the current session.                                   *)
LEMMA LockStep ==
  ASSUME Inv, NEW t \in Sender, Lock(t)
  PROVE  Inv'
<1>1. /\ pc[t] = "lock" /\ sendMu = "free"
      /\ UNCHANGED <<learn, sendCounter, current, peer, sealed, sent, answers>>
  BY DEF Lock, At, Free
<1>2. CASE current = None
  <2>1. pc' = [pc EXCEPT ![t] = "read"] /\ UNCHANGED <<sendMu, task>>
    BY <1>2 DEF Lock, HasSession, Goto
  <2>2. t = "tun"
    BY <1>1, <1>2, SenderFacts DEF Inv, InvNet
  <2>3. pc'["tun"] = "read" /\ pc'["net"] = pc["net"] /\ pc' \in [Sender -> Label]
    BY <2>1, <2>2, SenderFacts DEF Inv, InvMutex, Label
  <2>4. TypeOK'
    BY <1>1, <2>1, <2>3, SenderFacts DEF Inv, TypeOK, learn
  <2>5. InvNet'
    BY <1>1, <2>1, <2>3 DEF Inv, InvNet
  <2>6. QED
    BY <1>1, <2>1, <2>2, <2>3, <2>4, <2>5, Apart, SenderFacts DEF Busy
<1>3. CASE current # None
  <2>1. /\ sendMu' = t /\ pc' = [pc EXCEPT ![t] = "seal"]
        /\ task' = [task EXCEPT ![t].sess = current] /\ sendCounter[current] < MaxSeals
    BY <1>3 DEF Lock, HasSession, Goto, MaySeal
  <2>2. \A u \in Sender : pc[u] \notin Busy
    BY <1>1, SenderFacts DEF Inv, InvMutex
  <2>3. /\ pc'[t] = "seal" /\ pc' \in [Sender -> Label]
        /\ \A u \in Sender : u # t => pc'[u] = pc[u]
    BY <2>1 DEF Inv, InvMutex, Label
  <2>4. /\ task[t] \in [sess : 0..made, src : 0..inits] /\ current \in 0..made
        /\ task' = [task EXCEPT ![t] = [@ EXCEPT !.sess = current]]
    BY <2>1 DEF Inv, TypeOK
  <2>5. /\ [task[t] EXCEPT !.sess = current] \in [sess : 0..made, src : 0..inits]
        /\ [task[t] EXCEPT !.sess = current].sess = current
        /\ [task[t] EXCEPT !.sess = current].src = task[t].src
    BY <2>4
  <2>6. /\ task' \in [Sender -> [sess : 0..made, src : 0..inits]]
        /\ task'[t].sess = current /\ task'[t].src = task[t].src
        /\ \A u \in Sender : u # t => task'[u] = task[u]
    BY <2>4, <2>5 DEF Inv, TypeOK
  <2>7. TypeOK'
    <3>1. \A u \in Sender : pc'[u] \in Busy => task'[u].sess # None
      BY <1>3, <2>2, <2>3, <2>6
    <3>2. pc'["net"] \in {"recv", "reply", "install", "lock", "seal", "send"}
      BY <2>3, SenderFacts DEF Inv, TypeOK
    <3>3. pc'["tun"] \in {"read", "lock", "seal", "send"}
      BY <2>3, SenderFacts DEF Inv, TypeOK
    <3>4. QED
      BY <1>1, <2>1, <2>6, <3>1, <3>2, <3>3, SenderFacts DEF Inv, TypeOK, learn, Busy
  <2>8. InvMutex'
    <3>1. \A u \in Sender : pc'[u] \in Busy <=> sendMu' = u
      BY <2>1, <2>2, <2>3 DEF Busy
    <3>2. \A u \in Sender : pc'[u] \in Busy => u = t
      BY <2>2, <2>3
    <3>3. QED
      BY <1>1, <2>1, <2>3, <2>6, <3>1, <3>2 DEF InvMutex, Busy
  <2>9. InvNet'
    BY <1>1, <2>3, <2>6, SenderFacts DEF Inv, InvNet
  <2>10. InvSent' /\ NonceUnique' /\ AnswersReturn'
    BY <1>1, SentSame DEF Inv, AnswersReturn
  <2>11. QED
    BY <2>7, <2>8, <2>9, <2>10 DEF Inv
<1>4. QED
  BY <1>2, <1>3

LEMMA SealStep ==
  ASSUME Inv, NEW t \in Sender, Seal(t)
  PROVE  Inv'
<1>1. /\ pc[t] = "seal" /\ pc' = [pc EXCEPT ![t] = "send"]
      /\ sealed' = [sealed EXCEPT ![t] = sendCounter[task[t].sess]]
      /\ UNCHANGED <<learn, sendCounter, current, peer, sendMu, task, sent, answers>>
  BY DEF Seal, At, Goto
<1>2. /\ pc'[t] = "send" /\ pc' \in [Sender -> Label]
      /\ \A u \in Sender : u # t => pc'[u] = pc[u]
  BY <1>1 DEF Inv, InvMutex, Label
<1>3. task[t].sess \in Session
  BY <1>1, UdpTunnelAssumption DEF Inv, TypeOK, Session, None, UdpTunnelAssumption
<1>4. /\ sealed' \in [Sender -> 0..MaxSeals] /\ sealed'[t] = sendCounter[task[t].sess]
      /\ \A u \in Sender : u # t => sealed'[u] = sealed[u]
  BY <1>1, <1>3 DEF Inv, TypeOK
<1>5. TypeOK'
  <2>1. pc'["net"] \in {"recv", "reply", "install", "lock", "seal", "send"}
    BY <1>2, SenderFacts DEF Inv, TypeOK
  <2>2. pc'["tun"] \in {"read", "lock", "seal", "send"}
    BY <1>2, SenderFacts DEF Inv, TypeOK
  <2>3. \A u \in Sender : pc'[u] \in Busy => pc[u] \in Busy
    BY <1>1, <1>2 DEF Busy
  <2>4. QED
    BY <1>1, <1>4, <2>1, <2>2, <2>3 DEF Inv, TypeOK, learn, Busy
<1>6. InvMutex'
  BY <1>1, <1>2, <1>4 DEF Inv, InvMutex, Busy
<1>7. InvNet'
  BY <1>1, <1>2, SenderFacts DEF Inv, InvNet
<1>8. InvSent' /\ NonceUnique' /\ AnswersReturn'
  BY <1>1, SentSame DEF Inv, AnswersReturn
<1>9. QED
  BY <1>5, <1>6, <1>7, <1>8 DEF Inv

LEMMA SendStep ==
  ASSUME Inv, NEW t \in Sender, Send(t)
  PROVE  Inv'
<1> DEFINE s == task[t].sess
           p == [typ |-> Kind[t], sess |-> s, ctr |-> sealed[t]]
           l == IF t = "tun" THEN "read" ELSE "recv"
<1>1. /\ pc[t] = "send" /\ pc' = [pc EXCEPT ![t] = l]
      /\ sendCounter' = [sendCounter EXCEPT ![s] = @ + 1] /\ Put(t, p)
      /\ task' = [task EXCEPT ![t] = NoTask] /\ sealed' = [sealed EXCEPT ![t] = 0]
      /\ sendMu' = "free" /\ UNCHANGED <<learn, current, peer>>
  BY DEF Send, At, Goto
<1>2. /\ pc' \in [Sender -> Label] /\ pc'[t] = l
      /\ \A u \in Sender : u # t => /\ pc'[u] = pc[u] /\ pc[u] \notin Busy
                                    /\ task'[u] = task[u]
  BY <1>1, SMTT(30) DEF Inv, InvMutex, TypeOK, Label, Busy
<1>3. s \in Session
  BY <1>1, UdpTunnelAssumption DEF Inv, TypeOK, Session, None, UdpTunnelAssumption
<1>4. sealed[t] = sendCounter[s] /\ sendCounter[s] < MaxSeals
  BY <1>1 DEF Inv, InvMutex, Busy
<1>5. p \in Packets /\ p.sess = s /\ p.ctr = sendCounter[p.sess]
  BY <1>3, <1>4, SenderFacts DEF Packets, Inv, TypeOK
<1>6. sendCounter \in [Session -> Nat]
  BY DEF Inv, TypeOK
<1>7. InvSent' /\ NonceUnique'
  <2>1. sendCounter' = [sendCounter EXCEPT ![p.sess] = @ + 1]
    BY <1>1, <1>5
  <2> HIDE DEF p
  <2>2. QED
    BY <1>1, <1>5, <1>6, <2>1, PutRecord DEF Inv
<1>8. AnswersReturn'
  <2>1. CASE t = "net"
    <3>1. answers' = answers \cup {[src |-> task[t].src, to |-> peer]}
      BY <2>1 DEF Send, Answered
    <3>2. QED
      BY <1>1, <2>1, <3>1 DEF Inv, InvNet, AnswersReturn
  <2>2. CASE t # "net"
    BY <2>2 DEF Send, Inv, AnswersReturn
  <2>3. QED
    BY <2>1, <2>2
<1>9. InvMutex'
  BY <1>1, <1>2, SenderFacts DEF InvMutex, Busy
<1>10. InvNet'
  BY <1>1, <1>2, SenderFacts DEF Inv, InvNet
<1>11. TypeOK'
  <2>1. sendCounter' \in [Session -> 0..MaxSeals]
    BY <1>1, <1>3, <1>4, UdpTunnelAssumption DEF Inv, TypeOK, UdpTunnelAssumption
  <2>2. NoTask \in [sess : 0..made, src : 0..inits]
    BY UdpTunnelAssumption DEF Inv, TypeOK, NoTask, None, UdpTunnelAssumption
  <2>3. task' \in [Sender -> [sess : 0..made, src : 0..inits]]
    BY <1>1, <2>2 DEF Inv, TypeOK
  <2>4. sealed' \in [Sender -> 0..MaxSeals]
    BY <1>1, UdpTunnelAssumption DEF Inv, TypeOK, UdpTunnelAssumption
  <2>5. /\ pc'["net"] \in {"recv", "reply", "install", "lock", "seal", "send"}
        /\ pc'["tun"] \in {"read", "lock", "seal", "send"}
    BY <1>2, SenderFacts DEF Inv, TypeOK
  <2>6. \A u \in Sender : pc'[u] \notin Busy
    BY <1>2 DEF Busy
  <2>7. \A a \in Addr : \A i \in DOMAIN sent'[a] : sent'[a][i] \in Packets
    BY <1>7, SentTyped DEF InvSent
  <2>8. QED
    BY <1>1, <2>1, <2>3, <2>4, <2>5, <2>6, <2>7 DEF Inv, TypeOK, learn, Busy
<1>12. QED
  BY <1>7, <1>8, <1>9, <1>10, <1>11 DEF Inv

LEMMA InvInit == Init => Inv
<1> SUFFICES ASSUME Init
             PROVE  Inv
  OBVIOUS
<1>1. /\ pc \in [Sender -> Label] /\ pc["net"] = "recv" /\ pc["tun"] = "read"
      /\ \A t \in Sender : pc[t] \notin Busy
  BY SenderFacts DEF Init, Label, Busy
<1>2. NoTask \in [sess : 0..0, src : 0..0]
  BY DEF NoTask, None
<1>3. \A a \in Addr : sent[a] = <<>>
  BY DEF Init
<1>4. TypeOK
  <2>1. /\ inits = 0 /\ made = 0 /\ current = 0 /\ peer = 0
        /\ sendMu \in Sender \cup {"free"}
        /\ task \in [Sender -> [sess : 0..0, src : 0..0]]
    BY <1>2 DEF Init, None
  <2>2. /\ from \in [Session -> 0..0] /\ accepted \in [Session -> SUBSET (0..MaxCtr)]
        /\ sendCounter \in [Session -> 0..MaxSeals] /\ sealed \in [Sender -> 0..MaxSeals]
    BY UdpTunnelAssumption DEF Init, None, UdpTunnelAssumption
  <2>3. 0 \in 0..MaxInits /\ 0 \in 0..MaxSessions
    BY UdpTunnelAssumption DEF UdpTunnelAssumption
  <2>4. QED
    BY <1>1, <1>3, <2>1, <2>2, <2>3 DEF TypeOK, Busy
<1>5. Records = {}
  BY <1>3 DEF Records, Places
<1>6. InvMutex /\ InvNet
  BY <1>1, SenderFacts DEF Init, InvMutex, InvNet, Busy
<1>7. InvSent /\ NonceUnique /\ AnswersReturn
  BY <1>5 DEF Init, InvSent, NonceUnique, AnswersReturn
<1>8. QED
  BY <1>4, <1>6, <1>7 DEF Inv

(* The lock, the endpoint and the counters fit together at every step of   *)
(* the two goroutines (tunnel.go:40-141).                                  *)
THEOREM Invariance == Spec => []Inv
<1>1. Inv /\ [Next]_vars => Inv'
  <2> SUFFICES ASSUME Inv, [Next]_vars
               PROVE  Inv'
    OBVIOUS
  <2>1. CASE UNCHANGED vars
    BY <2>1, Apart DEF vars, learn, Inv, InvMutex, TypeOK, InvNet
  <2>2. CASE Dial
    BY <2>2, DialStep
  <2>3. CASE handleHandshake
    BY <2>3, SendReplyStep, ReplyFailsStep, InstallStep, RecvInitStep DEF handleHandshake
  <2>4. CASE receive
    BY <2>4, RecvDataStep, RecvKeepaliveStep DEF receive
  <2>5. CASE ReadPacket
    BY <2>5, ReadPacketStep
  <2>6. ASSUME NEW t \in Sender, send(t)
        PROVE  Inv'
    BY <2>6, LockStep, SealStep, SendStep DEF send
  <2>7. QED
    BY <2>1, <2>2, <2>3, <2>4, <2>5, <2>6 DEF Next
<1>2. QED
  BY InvInit, <1>1, PTL DEF Spec

(* The values of the variables are always of the right sort.               *)
THEOREM TypeCorrect == Spec => []TypeOK
<1>1. Inv => TypeOK
  BY DEF Inv
<1>2. QED
  BY <1>1, Invariance, PTL

(* NonceUnique: send holds sendMu from the look at the session to the      *)
(* increment (tunnel.go:40-51), so keepalives and packets share counters, *)
(* also when the session is replaced in between.                           *)
THEOREM NonceSafety == Spec => []NonceUnique
<1>1. Inv => NonceUnique
  BY DEF Inv
<1>2. QED
  BY <1>1, Invariance, PTL

(* AnswersReturn: UDPServer answers the last source it saw, and that is    *)
(* the one to be answered, since the same goroutine receives and answers.  *)
THEOREM AnswersAreReturned == Spec => []AnswersReturn
<1>1. Inv => AnswersReturn
  BY DEF Inv
<1>2. QED
  BY <1>1, Invariance, PTL
=============================================================================
