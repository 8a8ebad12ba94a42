-------------------------- MODULE MultiPeerServer --------------------------
(***************************************************************************)
(* server/server.go: one UDP socket, many clients, one TUN device.         *)
(*                                                                         *)
(* Two goroutines share the registry of sessions and the sending side of   *)
(* each session: Serve (receives, authenticates, writes to the TUN and     *)
(* answers keepalives) and tunReader (routes TUN packets to peers).        *)
(* A session is a number in 1..made; the number also stands for the keys   *)
(* its handshake derived, so a record opens under a session if and only if *)
(* it was sealed by the client that completed that handshake.              *)
(*                                                                         *)
(* The network delivers any record a client may have sealed, from any      *)
(* address, any number of times and in any order, or never.  A datagram    *)
(* the code drops without touching its state (garbage, an unknown id, a    *)
(* record that does not authenticate, a repeated counter, an unknown peer, *)
(* a TUN packet for nobody) is a step that changes nothing.  An error of   *)
(* the open socket ends Serve and with it the process (main.go).           *)
(***************************************************************************)
EXTENDS Integers, FiniteSets

CONSTANTS Key,          \* static keys clients may have
          Peer,         \* the keys in peersByKey
          IP, TunnelIP, \* tunnel addresses and the peer's own one
          Addr,         \* UDP endpoints
          Id,           \* session ids (32 bits in the code)
          IdsCollide,   \* may randIndex return an id already in use?
          EarlyStop,    \* may Stop run before Serve has stored the socket?
          KeepaliveAt,  \* client counters that carry a keepalive, not data
          Window,       \* anti-replay window
          MaxSessions, MaxClientCtr, MaxServerCtr      \* bounds

NoSession == 0
Ref      == 1..MaxSessions
Counter  == 0..MaxClientCtr
Thread   == {"serve", "tun"}

ASSUME ServerAssumption ==
    /\ Peer \subseteq Key
    /\ TunnelIP \in [Peer -> IP]
    /\ NoSession \notin Id
    /\ IdsCollide \in BOOLEAN /\ EarlyStop \in BOOLEAN
    /\ KeepaliveAt \subseteq Counter
    /\ Window \in Nat \ {0}
    /\ MaxSessions \in Nat /\ MaxClientCtr \in Nat /\ MaxServerCtr \in Nat

VARIABLES
    made,       \* sessions created so far
    id, peer,   \* peerSession.id and .peer, by session
    ep,         \* peerSession.ep
    accepted,   \* counters Session.Open has accepted (the replay filter)
    sendCounter,
    byID, byIP, byPeer,
    sendMu,     \* the thread that holds it, or "free"
    pc,         \* where each goroutine is
    cur,        \* the *peerSession each goroutine works on
    loaded,     \* counter and endpoint read inside sendTo
    conn,       \* s.conn: "nil", "open" or "closed"
    stopped,
    out,        \* records the server has sent
    tunLog,     \* how often each client record was written to the TUN
    newest      \* source of the highest counter accepted in each session

table  == <<made, id, peer>>
maps   == <<byID, byIP, byPeer>>
rx     == <<ep, accepted, tunLog, newest>>
tx     == <<sendCounter, sendMu, loaded, out>>
ctl    == <<conn, stopped>>
vars   == <<table, maps, rx, tx, pc, cur, ctl>>

Made   == 1..made

Nothing == [ctr |-> 0, to |-> NoSession]

Init ==
    /\ made = 0
    /\ id = [r \in Ref |-> NoSession]
    /\ peer = [r \in Ref |-> NoSession]
    /\ ep = [r \in Ref |-> NoSession]
    /\ accepted = [r \in Ref |-> {}]
    /\ sendCounter = [r \in Ref |-> 0]
    /\ byID = [i \in Id |-> NoSession]
    /\ byIP = [a \in IP |-> NoSession]
    /\ byPeer = [p \in Peer |-> NoSession]
    /\ sendMu = "free"
    /\ pc = [t \in Thread |-> "start"]
    /\ cur = [t \in Thread |-> NoSession]
    /\ loaded = [t \in Thread |-> Nothing]
    /\ conn = "nil" /\ stopped = FALSE
    /\ out = {}
    /\ tunLog = [r \in Ref |-> [c \in Counter |-> 0]]
    /\ newest = [r \in Ref |-> NoSession]

Goto(t, l) == pc' = [pc EXCEPT ![t] = l]

-----------------------------------------------------------------------------
(* Serve                                                                   *)

Serve ==                  \* stores conn and dev, starts tunReader
    /\ pc["serve"] = "start"
    /\ conn' = "open"
    /\ pc' = [serve |-> "recv", tun |-> "read"]
    /\ UNCHANGED <<table, maps, rx, tx, cur, stopped>>

(* RecvFrom fails only on a closed socket.                                 *)
RecvFails ==
    /\ pc["serve"] = "recv" /\ conn = "closed"
    /\ Goto("serve", "done")
    /\ UNCHANGED <<table, maps, rx, tx, cur, ctl>>

Fresh(r, c) == /\ c \notin accepted[r]
               /\ \A a \in accepted[r] : a - c < Window

(* A record that clears every check: its id is registered, it was sealed   *)
(* under that session's keys, and its counter is fresh.                    *)
Opens_AnyKey(r, c) == byID[id[r]] # NoSession /\ Fresh(r, c)      \* mutant
Opens(r, c) == byID[id[r]] = r /\ Fresh(r, c)

Accept(r, c, src) ==
    /\ pc["serve"] = "recv" /\ conn = "open"
    /\ r \in Made /\ Opens(r, c)
    /\ accepted' = [accepted EXCEPT ![r] = @ \cup {c}]
    /\ ep' = [ep EXCEPT ![r] = src]
    /\ newest' = IF \A a \in accepted[r] : a < c THEN [newest EXCEPT ![r] = src]
                                                  ELSE newest

ServeData(r, c, src) ==   \* write the packet to the TUN
    /\ Accept(r, c, src) /\ c \notin KeepaliveAt
    /\ tunLog' = [tunLog EXCEPT ![r][c] = @ + 1]
    /\ UNCHANGED <<table, maps, tx, pc, cur, ctl>>

(* Of a type that Serve ignores, or WritePacket failed: the counter is     *)
(* taken and the endpoint moves all the same.                              *)
ServeOther(r, c, src) ==
    /\ Accept(r, c, src) /\ c \notin KeepaliveAt
    /\ UNCHANGED <<table, maps, tx, tunLog, pc, cur, ctl>>

ServeKeepalive(r, c, src) ==        \* answer it: sendTo(ms, keepalive)
    /\ Accept(r, c, src) /\ c \in KeepaliveAt
    /\ Goto("serve", "lock")
    /\ cur' = [cur EXCEPT !["serve"] = r]
    /\ UNCHANGED <<table, maps, tx, tunLog, ctl>>

-----------------------------------------------------------------------------
(* handleHandshake: the reply leaves before the session is registered      *)

randIndex == IF IdsCollide THEN Id
             ELSE {i \in Id : byID[i] = NoSession}

Known(p) == p \in Peer

HandshakeReply(p, src, i) ==
    /\ pc["serve"] = "recv" /\ conn = "open"
    /\ Known(p)
    /\ made < MaxSessions
    /\ i \in randIndex
    /\ made' = made + 1
    /\ id' = [id EXCEPT ![made + 1] = i]
    /\ peer' = [peer EXCEPT ![made + 1] = p]
    /\ ep' = [ep EXCEPT ![made + 1] = src]
    /\ newest' = [newest EXCEPT ![made + 1] = src]
    /\ cur' = [cur EXCEPT !["serve"] = made + 1]
    /\ Goto("serve", "register")
    /\ UNCHANGED <<maps, accepted, tunLog, tx, ctl>>

Evict_Not(m, old) == m                                           \* mutant
Evict(m, old) == IF old = NoSession THEN m ELSE [m EXCEPT ![id[old]] = NoSession]

Register ==
    /\ pc["serve"] = "register"
    /\ LET r == cur["serve"]
           p == peer[r]
       IN  /\ byID' = [Evict(byID, byPeer[p]) EXCEPT ![id[r]] = r]
           /\ byIP' = [byIP EXCEPT ![TunnelIP[p]] = r]
           /\ byPeer' = [byPeer EXCEPT ![p] = r]
    /\ Goto("serve", "recv")
    /\ cur' = [cur EXCEPT !["serve"] = NoSession]
    /\ UNCHANGED <<table, rx, tx, ctl>>

-----------------------------------------------------------------------------
(* tunReader and sendTo                                                    *)

ReadPacket(dst) ==
    /\ pc["tun"] = "read"
    /\ byIP[dst] # NoSession
    /\ sendCounter[byIP[dst]] < MaxServerCtr
    /\ cur' = [cur EXCEPT !["tun"] = byIP[dst]]
    /\ Goto("tun", "lock")
    /\ UNCHANGED <<table, maps, rx, tx, ctl>>

TunError ==               \* ReadPacket fails: the goroutine ends, Serve goes on
    /\ pc["tun"] = "read"
    /\ Goto("tun", "done")
    /\ UNCHANGED <<table, maps, rx, tx, cur, ctl>>

Free_Never == TRUE                                               \* mutant
Free == sendMu = "free"

Lock(t) ==
    /\ pc[t] = "lock" /\ Free
    /\ sendMu' = t
    /\ Goto(t, "seal")
    /\ UNCHANGED <<table, maps, rx, sendCounter, loaded, out, cur, ctl>>

SealBegin(t) ==           \* ep.Load(); counter := s.sendCounter
    /\ pc[t] = "seal"
    /\ loaded' = [loaded EXCEPT ![t] = [ctr |-> sendCounter[cur[t]], to |-> ep[cur[t]]]]
    /\ Goto(t, "send")
    /\ UNCHANGED <<table, maps, rx, sendCounter, sendMu, out, cur, ctl>>

Kind == [serve |-> "keepalive", tun |-> "data"]
Idle == [serve |-> "recv", tun |-> "read"]

Unlocked_Leak == sendMu                                          \* mutant
Unlocked == "free"

SealSend(t) ==            \* Encrypt; s.sendCounter++; SendTo; unlock
    /\ pc[t] = "send"
    /\ sendCounter' = [sendCounter EXCEPT ![cur[t]] = @ + 1]
    /\ out' = IF conn = "open"
              THEN out \cup {[ref |-> cur[t], ctr |-> loaded[t].ctr,
                             to |-> loaded[t].to, typ |-> Kind[t]]}
              ELSE out
    /\ sendMu' = Unlocked
    /\ Goto(t, Idle[t])
    /\ cur' = [cur EXCEPT ![t] = NoSession]
    /\ loaded' = [loaded EXCEPT ![t] = Nothing]
    /\ UNCHANGED <<table, maps, rx, ctl>>

-----------------------------------------------------------------------------

Stop ==                   \* close(stop), then close the socket if there is one
    /\ ~stopped
    /\ EarlyStop \/ conn # "nil"
    /\ stopped' = TRUE
    /\ conn' = IF conn = "open" THEN "closed" ELSE conn
    /\ UNCHANGED <<table, maps, rx, tx, pc, cur>>

Receive ==
    \E src \in Addr :
        \/ \E r \in Ref, c \in Counter :
              ServeData(r, c, src) \/ ServeOther(r, c, src) \/ ServeKeepalive(r, c, src)
        \/ \E p \in Key, i \in Id : HandshakeReply(p, src, i)

sendTo(t) == Lock(t) \/ SealBegin(t) \/ SealSend(t)

tunReader == TunError \/ \E dst \in IP : ReadPacket(dst)

Next ==
    \/ Serve \/ Receive \/ Register \/ RecvFails
    \/ tunReader
    \/ \E t \in Thread : sendTo(t)
    \/ Stop

(* Both goroutines are scheduled.  Locking is strongly fair: a Go mutex    *)
(* hands itself to a waiter that has waited long enough.                   *)
Fairness ==
    /\ WF_vars(Serve) /\ WF_vars(Register) /\ WF_vars(RecvFails)
    /\ \A t \in Thread : /\ SF_vars(Lock(t))
                         /\ WF_vars(SealBegin(t))
                         /\ WF_vars(SealSend(t))

Spec == Init /\ [][Next]_vars /\ Fairness

-----------------------------------------------------------------------------
(* Properties                                                              *)

Label == {"start", "recv", "read", "register", "lock", "seal", "send", "done"}

(* Every map holds sessions that exist, and sendMu names a goroutine.      *)
TypeOK ==
    /\ made \in 0..MaxSessions
    /\ id \in [Ref -> Id \cup {NoSession}]
    /\ peer \in [Ref -> Peer \cup {NoSession}]
    /\ ep \in [Ref -> Addr \cup {NoSession}]
    /\ newest \in [Ref -> Addr \cup {NoSession}]
    /\ accepted \in [Ref -> SUBSET Counter]
    /\ sendCounter \in [Ref -> Nat]
    /\ byID \in [Id -> Made \cup {NoSession}]
    /\ byIP \in [IP -> Made \cup {NoSession}]
    /\ byPeer \in [Peer -> Made \cup {NoSession}]
    /\ sendMu \in Thread \cup {"free"}
    /\ pc \in [Thread -> Label]
    /\ cur \in [Thread -> Made \cup {NoSession}]
    /\ loaded \in [Thread -> [ctr : Nat, to : Addr \cup {NoSession}]]
    /\ conn \in {"nil", "open", "closed"} /\ stopped \in BOOLEAN
    /\ out \subseteq [ref : Made, ctr : Nat, to : Addr \cup {NoSession},
                     typ : {"keepalive", "data"}]
    /\ tunLog \in [Ref -> [Counter -> Nat]]

(* No two records leave with the same key and counter, although the        *)
(* keepalive reply and the routed packet are sealed by two goroutines.     *)
NonceUnique ==
    \A a, b \in out : a.ref = b.ref /\ a.ctr = b.ctr => a = b

(* The three maps agree between registrations: a peer's current session is *)
(* reachable by its id and by its tunnel address, and no id leads to a     *)
(* session that was replaced.                                              *)
RegistryConsistent ==
    /\ \A p \in Peer : byPeer[p] # NoSession =>
          /\ byID[id[byPeer[p]]] = byPeer[p]
          /\ byIP[TunnelIP[p]] = byPeer[p]
          /\ peer[byPeer[p]] = p
    /\ \A i \in Id : byID[i] # NoSession => byPeer[peer[byID[i]]] = byID[i]

(* Seen from outside, the three maps, the filter and the lock amount to    *)
(* the Relay: one session for each peer, packets of replaced sessions are  *)
(* dead even after their id was handed out again, nothing is written to    *)
(* the TUN twice and no counter is used twice.                             *)
Issued == IF pc["serve"] = "register" THEN Made \ {cur["serve"]} ELSE Made

RY == INSTANCE Relay WITH Peer <- Peer, Session <- Ref, Counter <- Counter,
                          None <- NoSession, current <- byPeer, issued <- Issued,
                          delivered <- tunLog, sent <- out
ImplementsRelay == RY!Spec

(* After Stop, Serve returns: no lock and no read can hold it for ever.    *)
StopEndsServe == stopped ~> (pc["serve"] = "done")

(* Packets go where the client was when it sealed its newest record.       *)
EndpointIsNewest == \A r \in Made : ep[r] = newest[r]
=============================================================================
