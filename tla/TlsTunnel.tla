----------------------------- MODULE TlsTunnel ------------------------------
(***************************************************************************)
(* The stream half of cmd/mirage/tunnel.go: runServerTunnelTLS accepts     *)
(* connections and starts a goroutine for each; at most one of them is the *)
(* active tunnel; one goroutine reads the TUN and sends to the active one. *)
(*                                                                         *)
(* Connections are numbered in the order they are accepted; the session of *)
(* a connection has its number.  A connection may be lost (its peer closed *)
(* it) or stuck (its peer is silent and the send buffer is full, so a Send *)
(* blocks until the connection is closed on this side).                    *)
(***************************************************************************)
EXTENDS Integers, FiniteSets

CONSTANTS MaxConns,      \* connections accepted
          MaxRecords,    \* once as many have left, nobody begins to send
          InlineAccept   \* tlsobfs: Accept itself runs the TLS handshake

ASSUME TlsTunnelAssumption ==
    /\ MaxConns \in Nat /\ MaxRecords \in Nat
    /\ InlineAccept \in BOOLEAN

None   == 0
Conn   == 1..MaxConns
Tun    == -1                       \* the goroutine that reads the TUN
Sender == Conn \cup {Tun}          \* who calls send: handlers and Tun

VARIABLES
    pc,           \* where the handler of each connection and the TUN reader are
    accepting,    \* "loop", or "failed": the server process has ended
    accepted,     \* connections accepted so far
    active,       \* t.conn and t.sess: set and cleared together
    prev,         \* local of setActive
    cur,          \* the connection a send is for
    sendMu,
    open,         \* connections not closed on this side
    lost, stuck,  \* what the network did to a connection while it is open
    counter, sealed, out     \* see Client

net   == <<lost, stuck>>
seals == <<counter, sealed, out>>
vars  == <<pc, accepting, accepted, active, prev, cur, sendMu, open, net, seals>>

Init ==
    /\ pc = [t \in Sender |-> IF t = Tun THEN "read" ELSE "none"]
    /\ accepting = "loop" /\ accepted = 0
    /\ active = None
    /\ prev = [c \in Conn |-> None]
    /\ cur = [t \in Sender |-> None]
    /\ sendMu = None
    /\ open = {} /\ lost = {} /\ stuck = {}
    /\ counter = [c \in Conn |-> 0]
    /\ sealed = [t \in Sender |-> 0]
    /\ out = {}

Goto(t, l) == pc' = [pc EXCEPT ![t] = l]
At(t, l)   == pc[t] = l

Close(cs) ==
    /\ open' = open \ cs
    /\ lost' = lost \ cs /\ stuck' = stuck \ cs

-----------------------------------------------------------------------------
(* The accept loop                                                         *)

Accept ==
    /\ accepted < MaxConns
    /\ accepted' = accepted + 1
    /\ open' = open \cup {accepted'}
    /\ Goto(accepted', "init")
    /\ UNCHANGED <<accepting, active, prev, cur, sendMu, net, seals>>

(* A client gave up during the TLS handshake: tlsobfs.Listener.Accept      *)
(* returns the error, runServerTunnelTLS returns it and main exits.  The   *)
(* Reality listener handles it in a goroutine.                             *)
TlsHandshakeFails ==
    /\ InlineAccept
    /\ accepting' = "failed"
    /\ UNCHANGED <<pc, accepted, active, prev, cur, sendMu, open, net, seals>>

-----------------------------------------------------------------------------
(* handleConn: the handshake                                               *)

RecvInit(c) ==              \* m1 arrives and is one of ours, or it does not
    /\ At(c, "init")
    /\ \/ c \notin lost \cup stuck /\ Goto(c, "reply")
       \/ Goto(c, "close")
    /\ UNCHANGED <<accepting, accepted, active, prev, cur, sendMu, open, net, seals>>

(* A write may succeed although the peer has already closed.               *)
SendReply(c) ==
    /\ At(c, "reply") /\ c \notin stuck
    /\ \/ Goto(c, "set")
       \/ c \in lost /\ Goto(c, "close")
    /\ UNCHANGED <<accepting, accepted, active, prev, cur, sendMu, open, net, seals>>

-----------------------------------------------------------------------------
(* setActive, clearIf and the deferred calls of handleConn                 *)

setActive(c) ==
    /\ At(c, "set")
    /\ prev' = [prev EXCEPT ![c] = active]
    /\ active' = c
    /\ Goto(c, "evict")
    /\ UNCHANGED <<accepting, accepted, cur, sendMu, open, net, seals>>

Displaced_Kept(c) == {}                                          \* mutant
Displaced(c) == {prev[c]}

EvictPrev(c) ==             \* prev.Close(), after t.mu was released
    /\ At(c, "evict")
    /\ Close(Displaced(c))
    /\ prev' = [prev EXCEPT ![c] = None]
    /\ Goto(c, "recv")
    /\ UNCHANGED <<accepting, accepted, active, cur, sendMu, seals>>

Own_Any(c) == TRUE                                               \* mutant
Own(c) == active = c

clearIf(c) ==
    /\ At(c, "clear")
    /\ active' = IF Own(c) THEN None ELSE active
    /\ Goto(c, "close")
    /\ UNCHANGED <<accepting, accepted, prev, cur, sendMu, open, net, seals>>

Closing_Forgotten(c) == {}                                       \* mutant
Closing(c) == {c}

CloseOwn(c) ==
    /\ At(c, "close")
    /\ Close(Closing(c))
    /\ Goto(c, "done")
    /\ UNCHANGED <<accepting, accepted, active, prev, cur, sendMu, seals>>

-----------------------------------------------------------------------------
(* handleConn: network to TUN                                              *)

MaySend == Cardinality(out) < MaxRecords

RecvKeepalive(c) ==         \* answered on the connection it came from
    /\ At(c, "recv") /\ c \in open /\ c \notin lost \cup stuck
    /\ MaySend
    /\ cur' = [cur EXCEPT ![c] = c]
    /\ Goto(c, "lock")
    /\ UNCHANGED <<accepting, accepted, active, prev, sendMu, open, net, seals>>

(* Closed on either side, or WritePacket failed on a data record.          *)
RecvEnds(c) ==
    /\ At(c, "recv")
    /\ Goto(c, "clear")
    /\ UNCHANGED <<accepting, accepted, active, prev, cur, sendMu, open, net, seals>>

RecvFails(c)  == (c \notin open \/ c \in lost) /\ RecvEnds(c)
WriteFails(c) == c \in open /\ c \notin lost /\ RecvEnds(c)

-----------------------------------------------------------------------------
(* TUN to network, and send                                                *)

HasSession == active # None

ReadPacket ==               \* t.current(); no session, no packet
    /\ At(Tun, "read") /\ HasSession
    /\ MaySend
    /\ cur' = [cur EXCEPT ![Tun] = active]
    /\ Goto(Tun, "lock")
    /\ UNCHANGED <<accepting, accepted, active, prev, sendMu, open, net, seals>>

TunError ==
    /\ At(Tun, "read")
    /\ Goto(Tun, "done")
    /\ UNCHANGED <<accepting, accepted, active, prev, cur, sendMu, open, net, seals>>

Free_Always == TRUE                                              \* mutant
Free == sendMu = None

Lock(t) ==
    /\ At(t, "lock") /\ Free
    /\ sendMu' = t
    /\ Goto(t, "seal")
    /\ UNCHANGED <<accepting, accepted, active, prev, cur, open, net, seals>>

Seal(t) ==                  \* counter := s.sendCounter
    /\ At(t, "seal")
    /\ sealed' = [sealed EXCEPT ![t] = counter[cur[t]]]
    /\ Goto(t, "send")
    /\ UNCHANGED <<accepting, accepted, active, prev, cur, sendMu, open, net, counter, out>>

Blocked(t) == At(t, "send") /\ cur[t] \in open \cap stuck

Send(t) ==                  \* sendCounter++, conn.Send, unlock
    /\ At(t, "send") /\ ~Blocked(t)
    /\ counter' = [counter EXCEPT ![cur[t]] = @ + 1]
    /\ out' = out \cup {[sess |-> cur[t], ctr |-> sealed[t], by |-> t]}
    /\ sealed' = [sealed EXCEPT ![t] = 0]
    /\ cur' = [cur EXCEPT ![t] = None]
    /\ sendMu' = None
    /\ Goto(t, IF t = Tun THEN "read" ELSE "recv")
    /\ UNCHANGED <<accepting, accepted, active, prev, open, net>>

-----------------------------------------------------------------------------

Lose(c) ==                  \* the peer closes, or goes silent
    /\ c \in open /\ c \notin lost \cup stuck
    /\ \/ lost' = lost \cup {c} /\ UNCHANGED stuck
       \/ stuck' = stuck \cup {c} /\ UNCHANGED lost
    /\ UNCHANGED <<pc, accepting, accepted, active, prev, cur, sendMu, open, seals>>

handleConn(c) ==
    \/ RecvInit(c) \/ SendReply(c)
    \/ setActive(c) \/ EvictPrev(c) \/ clearIf(c) \/ CloseOwn(c)
    \/ RecvKeepalive(c) \/ RecvFails(c) \/ WriteFails(c)

send(t) == Lock(t) \/ Seal(t) \/ Send(t)

Next ==
    /\ accepting = "loop"
    /\ \/ Accept \/ TlsHandshakeFails
       \/ \E c \in Conn : handleConn(c) \/ Lose(c)
       \/ ReadPacket \/ TunError
       \/ \E t \in Sender : send(t)

Spec == Init /\ [][Next]_vars

-----------------------------------------------------------------------------
(* Properties                                                              *)

Label == {"none", "init", "reply", "set", "evict", "recv", "lock", "seal", "send",
          "clear", "close", "done", "read"}

(* Every reference names an accepted connection, and who is about to seal  *)
(* has one.                                                                *)
TypeOK ==
    /\ \A t \in Sender : pc[t] \in {"lock", "seal", "send"} => cur[t] # None
    /\ pc \in [Sender -> Label]
    /\ accepting \in {"loop", "failed"} /\ accepted \in 0..MaxConns
    /\ active \in 0..accepted
    /\ prev \in [Conn -> 0..accepted]
    /\ cur \in [Sender -> 0..accepted]
    /\ sendMu \in Sender \cup {None}
    /\ open \subseteq 1..accepted
    /\ lost \subseteq Conn /\ stuck \subseteq Conn
    /\ counter \in [Conn -> Nat] /\ sealed \in [Sender -> Nat]
    /\ out \subseteq [sess : Conn, ctr : Nat, by : Sender]

(* The TUN reader and the handlers never send two records with one key and *)
(* counter, whichever connection was active when each took its session.    *)
NonceUnique ==
    \A a, b \in out : a.sess = b.sess /\ a.ctr = b.ctr => a = b

Tunnelling(c) == pc[c] \in {"recv", "lock", "seal", "send"} /\ c \in open

(* A tunnel that nobody displaced is the active one, so two never last:    *)
(* the handler of a connection that ends takes nobody else's place away,   *)
(* and who is displaced is being closed by the handler that displaced it.  *)
SurvivorIsActive ==
    \A c \in Conn : Tunnelling(c) =>
        active = c \/ \E e \in Conn : At(e, "evict") /\ prev[e] = c

(* A handler that has returned leaves neither an open connection nor an    *)
(* active one behind.                                                      *)
NothingLeft == \A c \in Conn : At(c, "done") => c \notin open /\ active # c

(* A send that blocks on a displaced connection, with sendMu held and      *)
(* every other send waiting for it, is about to be freed: its own handler  *)
(* or the one that displaced it has still to close it, without any lock.   *)
BlockedSendFreed ==
    \A t \in Sender : Blocked(t) /\ active \notin {None, cur[t]} =>
        \/ pc[cur[t]] \in {"clear", "close"}
        \/ \E e \in Conn : At(e, "evict") /\ prev[e] = cur[t]

(* The connection that displaces another one is the newer one.             *)
NewestWins ==
    [][active # None /\ active' # None => active' >= active]_vars

(* One client that gives up does not end the service for the others.       *)
KeepsAccepting == accepting = "loop"
=============================================================================
