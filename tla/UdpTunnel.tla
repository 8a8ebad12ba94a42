----------------------------- MODULE UdpTunnel ------------------------------
(***************************************************************************)
(* The datagram half of cmd/mirage/tunnel.go: serverTunnel over UDPServer, *)
(* which answers whoever it received the last datagram from.               *)
(*                                                                         *)
(* The network goroutine receives, shakes hands, opens records and answers *)
(* keepalives; the TUN goroutine seals what it reads under the current     *)
(* session.  Both send to the learnt endpoint.  Sessions are numbered; a   *)
(* session knows the handshake it came from, and every handshake comes     *)
(* from a socket of its own, because the client dials again for each.      *)
(*                                                                         *)
(* The network delivers a datagram that was sent any number of times, late *)
(* or never; handshakes and records differ in their first byte.  A record  *)
(* whose Send fails is lost like any other.  After an error of the TUN or  *)
(* of the socket the process ends, at whatever step it stands.             *)
(***************************************************************************)
EXTENDS Integers, Sequences, FiniteSets

CONSTANTS MaxInits,      \* handshakes clients begin; each has its own socket
          MaxSessions,   \* sessions the server makes
          MaxCtr,        \* largest client counter
          MaxSeals,      \* records the server seals per session
          KeepaliveAt    \* client counters that carry a keepalive

ASSUME UdpTunnelAssumption ==
    /\ MaxInits \in Nat /\ MaxSessions \in Nat
    /\ MaxCtr \in Nat /\ MaxSeals \in Nat
    /\ KeepaliveAt \subseteq 0..MaxCtr

None    == 0
Addr    == 1..MaxInits             \* the socket of handshake k is address k
Session == 1..MaxSessions
Sender  == {"net", "tun"}

VARIABLES
    inits,       \* handshakes begun
    made,        \* sessions made
    from,        \* the handshake a session answers
    accepted,    \* counters each session's replay filter has accepted
    sendCounter,
    current,
    peer,        \* UDPServer.peer
    pc, sendMu,
    task,        \* net: the session and source being served; tun: the session
    sealed,
    sent,        \* what was sent to each address, in order
    answers      \* history: where a datagram came from and its answer went

learn == <<inits, made, from, accepted>>
vars  == <<learn, sendCounter, current, peer, pc, sendMu, task, sealed, sent, answers>>

NoTask == [sess |-> None, src |-> None]

Init ==
    /\ inits = 0 /\ made = 0
    /\ from = [n \in Session |-> None]
    /\ accepted = [n \in Session |-> {}]
    /\ sendCounter = [n \in Session |-> 0]
    /\ current = None /\ peer = None
    /\ pc = [net |-> "recv", tun |-> "read"]
    /\ sendMu = "free"
    /\ task = [t \in Sender |-> NoTask]
    /\ sealed = [t \in Sender |-> 0]
    /\ sent = [a \in Addr |-> <<>>]
    /\ answers = {}

Goto(t, l) == pc' = [pc EXCEPT ![t] = l]
At(t, l)   == pc[t] = l

Dial ==                     \* a client begins a handshake from a new socket
    /\ inits < MaxInits
    /\ inits' = inits + 1
    /\ UNCHANGED <<made, from, accepted, sendCounter, current, peer, pc, sendMu, task, sealed, sent, answers>>

Learnt_First(src) == IF peer = None THEN src ELSE peer           \* mutant
Learnt(src) == src

Recv(src) == At("net", "recv") /\ peer' = Learnt(src)

Put(t, packet) == sent' = [sent EXCEPT ![peer] = Append(@, packet)]
Answered(src)  == answers' = answers \cup {[src |-> src, to |-> peer]}

-----------------------------------------------------------------------------
(* handleHandshake                                                         *)

RecvInit(k) ==              \* m1 of handshake k: a session is made
    /\ Recv(k) /\ k <= inits
    /\ made < MaxSessions
    /\ made' = made + 1
    /\ from' = [from EXCEPT ![made'] = k]
    /\ task' = [task EXCEPT !["net"] = [sess |-> made', src |-> k]]
    /\ Goto("net", "reply")
    /\ UNCHANGED <<inits, accepted, sendCounter, current, sendMu, sealed, sent, answers>>

SendReply ==
    /\ At("net", "reply")
    /\ Put("net", [typ |-> "m2", sess |-> task["net"].sess, ctr |-> 0])
    /\ Answered(task["net"].src)
    /\ Goto("net", "install")
    /\ UNCHANGED <<learn, sendCounter, current, peer, sendMu, task, sealed>>

ReplyFails ==               \* Send returned an error: the session is dropped
    /\ At("net", "reply")
    /\ task' = [task EXCEPT !["net"] = NoTask]
    /\ Goto("net", "recv")
    /\ UNCHANGED <<learn, sendCounter, current, peer, sendMu, sealed, sent, answers>>

Install ==
    /\ At("net", "install")
    /\ current' = task["net"].sess
    /\ task' = [task EXCEPT !["net"] = NoTask]
    /\ Goto("net", "recv")
    /\ UNCHANGED <<learn, sendCounter, peer, sendMu, sealed, sent, answers>>

-----------------------------------------------------------------------------
(* Transport records                                                       *)

Arrives(n, c, src) == n \in 1..made /\ c \in 0..MaxCtr /\ src = from[n]

Opens(n, c) == n = current /\ c \notin accepted[n]

RecvData(n, c, src) ==      \* written to the TUN, or of a type that is ignored
    /\ Recv(src) /\ Arrives(n, c, src) /\ Opens(n, c) /\ c \notin KeepaliveAt
    /\ accepted' = [accepted EXCEPT ![n] = @ \cup {c}]
    /\ UNCHANGED <<inits, made, from, sendCounter, current, pc, sendMu, task, sealed, sent, answers>>

RecvKeepalive(n, c, src) ==
    /\ Recv(src) /\ Arrives(n, c, src) /\ Opens(n, c) /\ c \in KeepaliveAt
    /\ accepted' = [accepted EXCEPT ![n] = @ \cup {c}]
    /\ task' = [task EXCEPT !["net"] = [sess |-> n, src |-> src]]
    /\ Goto("net", "lock")
    /\ UNCHANGED <<inits, made, from, sendCounter, current, sendMu, sealed, sent, answers>>

(* Empty, a handshake that fails, a record that does not open: dropped,    *)
(* but its source was learnt.                                              *)
RecvDropped(src) ==
    /\ Recv(src) /\ src <= inits
    /\ UNCHANGED <<learn, sendCounter, current, pc, sendMu, task, sealed, sent, answers>>

-----------------------------------------------------------------------------
(* send, and the TUN goroutine                                             *)

ReadPacket ==
    /\ At("tun", "read")
    /\ Goto("tun", "lock")
    /\ UNCHANGED <<learn, sendCounter, current, peer, sendMu, task, sealed, sent, answers>>

Free_Always == TRUE                                              \* mutant
Free == sendMu = "free"

HasSession == current # None

MaySeal == current # None => sendCounter[current] < MaxSeals

(* The lock is taken, and then the current session is looked up; without   *)
(* one, send returns.                                                      *)
Lock(t) ==
    /\ At(t, "lock") /\ Free /\ MaySeal
    /\ IF ~HasSession
       THEN Goto(t, "read") /\ UNCHANGED <<sendMu, task>>
       ELSE /\ sendMu' = t
            /\ task' = [task EXCEPT ![t].sess = current]
            /\ Goto(t, "seal")
    /\ UNCHANGED <<learn, sendCounter, current, peer, sealed, sent, answers>>

Seal(t) ==
    /\ At(t, "seal")
    /\ sealed' = [sealed EXCEPT ![t] = sendCounter[task[t].sess]]
    /\ Goto(t, "send")
    /\ UNCHANGED <<learn, sendCounter, current, peer, sendMu, task, sent, answers>>

Kind == [net |-> "keepalive", tun |-> "data"]

Send(t) ==
    /\ At(t, "send")
    /\ sendCounter' = [sendCounter EXCEPT ![task[t].sess] = @ + 1]
    /\ Put(t, [typ |-> Kind[t], sess |-> task[t].sess, ctr |-> sealed[t]])
    /\ IF t = "net" THEN Answered(task[t].src) ELSE UNCHANGED answers
    /\ task' = [task EXCEPT ![t] = NoTask]
    /\ sealed' = [sealed EXCEPT ![t] = 0]
    /\ sendMu' = "free"
    /\ Goto(t, IF t = "tun" THEN "read" ELSE "recv")
    /\ UNCHANGED <<learn, current, peer>>

-----------------------------------------------------------------------------

handleHandshake == SendReply \/ ReplyFails \/ Install \/ \E k \in Addr : RecvInit(k)

receive ==
    \E src \in Addr :
        \/ RecvDropped(src)
        \/ \E n \in Session, c \in 0..MaxCtr : RecvData(n, c, src) \/ RecvKeepalive(n, c, src)

send(t) == Lock(t) \/ Seal(t) \/ Send(t)

Next ==
    \/ Dial \/ handleHandshake \/ receive
    \/ ReadPacket \/ \E t \in Sender : send(t)

Spec == Init /\ [][Next]_vars

-----------------------------------------------------------------------------
(* Properties                                                              *)

Packets == [typ : {"m2", "data", "keepalive"}, sess : Session, ctr : 0..MaxSeals]

(* Sessions and addresses that are referred to exist, and who is about to  *)
(* seal has a session.                                                     *)
TypeOK ==
    /\ \A t \in Sender : pc[t] \in {"seal", "send"} => task[t].sess # None
    /\ inits \in 0..MaxInits /\ made \in 0..MaxSessions
    /\ from \in [Session -> 0..inits]
    /\ accepted \in [Session -> SUBSET (0..MaxCtr)]
    /\ sendCounter \in [Session -> 0..MaxSeals]
    /\ current \in 0..made /\ peer \in 0..inits
    /\ pc["net"] \in {"recv", "reply", "install", "lock", "seal", "send"}
    /\ pc["tun"] \in {"read", "lock", "seal", "send"}
    /\ sendMu \in Sender \cup {"free"}
    /\ task \in [Sender -> [sess : 0..made, src : 0..inits]]
    /\ sealed \in [Sender -> 0..MaxSeals]
    /\ \A a \in Addr : \A i \in DOMAIN sent[a] : sent[a][i] \in Packets

(* The places in `sent' that hold a record, and the packet at a place.     *)
Places  == UNION {{<<a, i>> : i \in DOMAIN sent[a]} : a \in Addr}
Packet(x) == sent[x[1]][x[2]]
Records == {x \in Places : Packet(x).typ # "m2"}

(* No two records leave under one key with one counter, although a session *)
(* may be replaced while a goroutine waits to seal under it.               *)
NonceUnique ==
    \A x, y \in Records :
        Packet(x).sess = Packet(y).sess /\ Packet(x).ctr = Packet(y).ctr => x = y

(* An answer goes to the address of the datagram it answers, also when it  *)
(* had to wait for the other goroutine before it could be sent.            *)
AnswersReturn == \A x \in answers : x.src = x.to

(* A client that begins a handshake is answered with m2 before anything    *)
(* else: whatever comes first is what it takes for m2.                     *)
ReplyComesFirst == \A a \in Addr : sent[a] # <<>> => sent[a][1].typ = "m2"
=============================================================================
