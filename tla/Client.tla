------------------------------- MODULE Client -------------------------------
(***************************************************************************)
(* client/client.go: the supervisor that dials, shakes hands, pumps one    *)
(* connection and redials; the goroutines it starts; and Stop.             *)
(*                                                                         *)
(* Connections are numbered in the order they are dialled; the session a   *)
(* handshake yields has the number of the connection it ran on.  The       *)
(* mutex c.mu covers sealing, sending and the swap of (conn, sess).        *)
(* Delays are abstracted: a backoff ends, a ticker ticks and the idle      *)
(* check expires when scheduled (LinkMonitor has the clock).               *)
(***************************************************************************)
EXTENDS Integers, FiniteSets

CONSTANTS MaxConns,      \* connections dialled
          MaxCtr         \* packets are read while a session sealed fewer records,
                         \* keepalives while it sealed no more

ASSUME ClientAssumption == MaxConns \in Nat /\ MaxCtr \in Nat

None   == 0
Conn   == 1..MaxConns
Sender == {"sv", "tun"}            \* goroutines that seal and send

VARIABLES
    pc,             \* where supervise ("sv"), tunReader ("tun") and Stop are
    mu,             \* holder of c.mu, or "free"
    conn, sess,     \* c.conn, c.sess
    dialled,        \* supervise: the newest connection
    mine,           \* supervise: the session it goes on with
    needHandshake,
    state,          \* of each connection: "none", "open", "closed"
    dead,           \* open connections whose link carries nothing any more
    full,           \* dead streams whose send buffer is full
    hs,             \* handshake goroutine: "none", "send", "recv", "ok", "err"
    rx,             \* receive goroutine: "none", "recv", "done"
    got,            \* the connection being pumped, if it delivered a valid record
    counter,        \* next counter of each session
    sealed,         \* record between Seal and Send, by goroutine
    out             \* records sent

swap  == <<conn, sess>>
link  == <<state, dead, full>>
tasks == <<hs, rx, got>>
seals == <<counter, sealed, out>>
plan  == <<dialled, mine, needHandshake>>
vars  == <<pc, mu, swap, plan, link, tasks, seals>>

NoRecord == [conn |-> None, sess |-> None, ctr |-> 0]

Init ==
    /\ pc = [sv |-> "top", tun |-> "read", stop |-> "idle"]
    /\ mu = "free"
    /\ conn = None /\ sess = None
    /\ dialled = None /\ mine = None /\ needHandshake = TRUE
    /\ state = [n \in Conn |-> "none"]
    /\ dead = {} /\ full = {}
    /\ hs = [n \in Conn |-> "none"]
    /\ rx = [n \in Conn |-> "none"]
    /\ got = {}
    /\ counter = [n \in Conn |-> 0]
    /\ sealed = [t \in Sender |-> NoRecord]
    /\ out = {}

stopped == pc["stop"] # "idle"

MaySeal(s, max) == s # None => counter[s] < max

Goto(t, l) == pc' = [pc EXCEPT ![t] = l]
At(t, l)   == pc[t] = l
Close_Forgotten(n) == UNCHANGED link                             \* mutant
Close(n) ==
    /\ state' = [state EXCEPT ![n] = "closed"]
    /\ dead' = dead \ {n}
    /\ full' = full \ {n}

-----------------------------------------------------------------------------
(* supervise                                                               *)

SeeStop ==
    /\ At("sv", "top") /\ stopped
    /\ Goto("sv", "done")
    /\ UNCHANGED <<mu, swap, plan, link, tasks, seals>>

Dial ==
    /\ At("sv", "top") /\ ~stopped
    /\ dialled < MaxConns
    /\ dialled' = dialled + 1
    /\ state' = [state EXCEPT ![dialled'] = "open"]
    /\ Goto("sv", "choose")
    /\ UNCHANGED <<mu, swap, mine, needHandshake, dead, full, tasks, seals>>

DialFails ==
    /\ At("sv", "top") /\ ~stopped
    /\ Goto("sv", "sleep")
    /\ UNCHANGED <<mu, swap, plan, link, tasks, seals>>

Choose ==                    \* currentSess; needHandshake || sess == nil
    /\ At("sv", "choose") /\ mu = "free"
    /\ mine' = sess
    /\ IF needHandshake \/ sess = None
       THEN Goto("sv", "handshake") /\ hs' = [hs EXCEPT ![dialled] = "send"]
       ELSE Goto("sv", "set") /\ UNCHANGED hs
    /\ UNCHANGED <<mu, swap, dialled, needHandshake, link, rx, got, seals>>

HandshakeDone ==
    /\ At("sv", "handshake") /\ hs[dialled] = "ok"
    /\ mine' = dialled
    /\ Goto("sv", "set")
    /\ UNCHANGED <<mu, swap, dialled, needHandshake, link, tasks, seals>>

CloseFailed_Leak(n) == UNCHANGED link                            \* mutant
CloseFailed(n) == Close(n)

HandshakeFails ==            \* an error, the timeout, or Stop
    /\ At("sv", "handshake")
    /\ CloseFailed(dialled)
    /\ Goto("sv", "sleep")
    /\ UNCHANGED <<mu, swap, plan, tasks, seals>>

MuFree_Always == TRUE                                            \* mutant
MuFree == mu = "free"

setCurrent ==
    /\ At("sv", "set") /\ MuFree
    /\ conn' = dialled /\ sess' = mine
    /\ Goto("sv", "lock")                       \* sendKeepalive
    /\ UNCHANGED <<mu, plan, link, tasks, seals>>

clearCurrent ==
    /\ At("sv", "clear") /\ MuFree
    /\ conn' = None /\ sess' = None
    /\ Goto("sv", "close")
    /\ UNCHANGED <<mu, plan, link, tasks, seals>>

Disconnect ==
    /\ At("sv", "close")
    /\ Close(dialled)
    /\ needHandshake' = (dialled \notin got)
    /\ got' = {}
    /\ Goto("sv", IF stopped THEN "done" ELSE "sleep")
    /\ UNCHANGED <<mu, swap, dialled, mine, hs, rx, seals>>

Wake ==                      \* the backoff ends, or Stop ends it
    /\ At("sv", "sleep")
    /\ Goto("sv", IF stopped THEN "done" ELSE "top")
    /\ UNCHANGED <<mu, swap, plan, link, tasks, seals>>

-----------------------------------------------------------------------------
(* session: the select loop of one connection                              *)

ReaderDone_Ignored == TRUE                                       \* mutant
ReaderDone == rx[dialled] = "done"

RxEnded ==
    /\ \/ At("sv", "session") /\ rx[dialled] = "done"
       \/ At("sv", "wait") /\ ReaderDone       \* <-done after conn.Close()
    /\ Goto("sv", "clear")
    /\ UNCHANGED <<mu, swap, plan, link, tasks, seals>>

Hangup(cond) ==
    /\ At("sv", "session") /\ cond
    /\ Close(dialled)
    /\ Goto("sv", "wait")
    /\ UNCHANGED <<mu, swap, plan, tasks, seals>>

StopSeen   == Hangup(stopped)
IdleExpire_Never == FALSE                                        \* mutant
IdleExpire == Hangup(TRUE)

KeepaliveTick ==
    /\ At("sv", "session")
    /\ MaySeal(mine, MaxCtr + 1)
    /\ Goto("sv", "lock")
    /\ UNCHANGED <<mu, swap, plan, link, tasks, seals>>
-----------------------------------------------------------------------------
(* The goroutine of handshake(conn): send m1, receive m2                   *)

Stuck(n) == n \in full

Becomes(n, l) == hs' = [hs EXCEPT ![n] = l]

HsSend(n) ==
    /\ hs[n] = "send" /\ ~Stuck(n)
    /\ Becomes(n, IF state[n] = "open" THEN "recv" ELSE "err")
    /\ UNCHANGED <<pc, mu, swap, plan, link, rx, got, seals>>

HsRecv(n) ==                 \* m2, or something that is not m2
    /\ hs[n] = "recv"
    /\ state[n] = "open" /\ n \notin dead
    /\ Becomes(n, "ok") \/ Becomes(n, "err")
    /\ UNCHANGED <<pc, mu, swap, plan, link, rx, got, seals>>

HsClosed(n) ==
    /\ hs[n] = "recv" /\ state[n] = "closed"
    /\ Becomes(n, "err")
    /\ UNCHANGED <<pc, mu, swap, plan, link, rx, got, seals>>

-----------------------------------------------------------------------------
(* The receive goroutine of session                                        *)

RxRecord(n) ==               \* a record opens; RecordClose also ends the loop
    /\ rx[n] = "recv" /\ state[n] = "open" /\ n \notin dead
    /\ got' = got \cup {n}
    /\ \E l \in {"recv", "done"} : rx' = [rx EXCEPT ![n] = l]
    /\ UNCHANGED <<pc, mu, swap, plan, link, hs, seals>>

RxEnds(n) ==
    /\ rx[n] = "recv"
    /\ rx' = [rx EXCEPT ![n] = "done"]
    /\ UNCHANGED <<pc, mu, swap, plan, link, hs, got, seals>>

RxClosed(n) == state[n] = "closed" /\ RxEnds(n)
RxError(n)  == state[n] = "open" /\ RxEnds(n)   \* reset, unreachable

-----------------------------------------------------------------------------
(* Sealing and sending: sendKeepalive and tunReader                        *)

ReadPacket ==
    /\ At("tun", "read")
    /\ MaySeal(sess, MaxCtr)
    /\ Goto("tun", "lock")
    /\ UNCHANGED <<mu, swap, plan, link, tasks, seals>>

After(t) == IF t = "tun" THEN "read" ELSE "session"

(* The first keepalive is sent before session starts the receiver.         *)
Resume(t) ==
    /\ Goto(t, After(t))
    /\ rx' = IF t = "sv" /\ rx[dialled] = "none" THEN [rx EXCEPT ![dialled] = "recv"]
                                                ELSE rx

Connected == sess # None /\ conn # None

Lock(t) ==
    /\ At(t, "lock") /\ MuFree
    /\ Connected
    /\ mu' = t
    /\ Goto(t, "seal")
    /\ UNCHANGED <<swap, plan, link, tasks, seals>>

Skip(t) ==                   \* no connection: the packet is dropped
    /\ At(t, "lock") /\ MuFree
    /\ ~Connected
    /\ Resume(t)
    /\ UNCHANGED <<mu, swap, plan, link, hs, got, seals>>

Held_Released(t) == mu' = "free"                                 \* mutant
Held(t) == mu' = t

Seal(t) ==
    /\ At(t, "seal")
    /\ sealed' = [sealed EXCEPT ![t] = [conn |-> conn, sess |-> sess, ctr |-> counter[sess]]]
    /\ Held(t)
    /\ Goto(t, "send")
    /\ UNCHANGED <<swap, plan, link, tasks, counter, out>>

Send(t) ==
    /\ At(t, "send") /\ ~Stuck(conn)
    /\ counter' = [counter EXCEPT ![sealed[t].sess] = @ + 1]
    /\ out' = out \cup {[sess |-> sealed[t].sess, ctr |-> sealed[t].ctr]}
    /\ sealed' = [sealed EXCEPT ![t] = NoRecord]
    /\ mu' = "free"
    /\ Resume(t)
    /\ UNCHANGED <<swap, plan, link, hs, got>>

-----------------------------------------------------------------------------
(* Stop                                                                    *)

StopBegins ==                \* close(c.stop)
    /\ At("stop", "idle")
    /\ Goto("stop", "lock")
    /\ UNCHANGED <<mu, swap, plan, link, tasks, seals>>

TunFails ==                  \* tunReader ends and calls Stop itself
    /\ At("tun", "read")
    /\ pc' = [pc EXCEPT !["tun"] = "done",
                        !["stop"] = IF stopped THEN @ ELSE "lock"]
    /\ UNCHANGED <<mu, swap, plan, link, tasks, seals>>

StopCloses ==
    /\ At("stop", "lock") /\ MuFree
    /\ IF conn = None THEN UNCHANGED link ELSE Close(conn)
    /\ Goto("stop", "done")
    /\ UNCHANGED <<mu, swap, plan, tasks, seals>>

LinkDies ==                  \* nothing passes n any more; a stream also fills up
    \E n \in Conn :
        /\ state[n] = "open"
        /\ dead' = dead \cup {n}
        /\ full' \in {full, full \cup {n}}
        /\ UNCHANGED <<pc, mu, swap, plan, state, tasks, seals>>

supervise ==
    \/ SeeStop \/ Dial \/ DialFails \/ Choose
    \/ HandshakeDone \/ HandshakeFails
    \/ setCurrent \/ clearCurrent \/ Disconnect \/ Wake

session == RxEnded \/ StopSeen \/ IdleExpire \/ KeepaliveTick

handshake(n) == HsSend(n) \/ HsRecv(n) \/ HsClosed(n)

receive(n) == RxRecord(n) \/ RxClosed(n) \/ RxError(n)

transmit(t) == Lock(t) \/ Skip(t) \/ Seal(t) \/ Send(t)

Next ==
    \/ supervise \/ session
    \/ \E n \in Conn : handshake(n) \/ receive(n)
    \/ ReadPacket \/ \E t \in Sender : transmit(t)
    \/ StopBegins \/ TunFails \/ StopCloses
    \/ LinkDies

(* Every goroutine is scheduled; a Go mutex is granted to who waits; select *)
(* picks at random among the ready cases, so a case that stays ready is     *)
(* taken.  Nothing obliges the network, the TUN or a caller of Stop.        *)
Fairness ==
    /\ WF_vars(SeeStop \/ Dial \/ DialFails \/ HandshakeDone \/ HandshakeFails \/ Disconnect \/ Wake)
    /\ SF_vars(Choose \/ setCurrent \/ clearCurrent)
    /\ SF_vars(RxEnded) /\ SF_vars(StopSeen)
    /\ SF_vars(dialled \in dead /\ IdleExpire)
    /\ \A n \in Conn : WF_vars(HsSend(n) \/ HsClosed(n)) /\ WF_vars(RxClosed(n))
    /\ \A t \in Sender : SF_vars(Lock(t) \/ Skip(t)) /\ WF_vars(Seal(t) \/ Send(t))
    /\ SF_vars(StopCloses)

Spec == Init /\ [][Next]_vars /\ Fairness
-----------------------------------------------------------------------------
(* Properties                                                              *)

(* The supervisor's keepalives and tunReader's packets never share a key   *)
(* and counter, although both seal on the same session.                    *)
NonceUnique ==
    \A t \in Sender : At(t, "send") =>
        /\ \A o \in out : o.sess = sealed[t].sess => o.ctr # sealed[t].ctr
        /\ \A u \in Sender \ {t} : At(u, "send") => sealed[u] # sealed[t]

(* A record leaves on the connection that was current together with the    *)
(* session it was sealed under: a reconnection never comes between the two *)
(* and never sends it under the next connection.                           *)
PairedSend ==
    \A t \in Sender : At(t, "send") => <<sealed[t].conn, sealed[t].sess>> = <<conn, sess>>

(* When the supervisor is about to dial again or has returned, every       *)
(* connection it ever opened is closed.                                    *)
NoConnLeak ==
    pc["sv"] \in {"top", "sleep", "done"} => \A n \in Conn : state[n] # "open"

(* Session.Open is not safe for concurrent use: a receiver runs only while *)
(* session pumps its connection, and is gone before the next dial.         *)
ReaderConfined ==
    \A n \in Conn : rx[n] = "recv" =>
        /\ n = dialled
        /\ pc["sv"] \in {"session", "wait", "lock", "seal", "send"}

(* A Send on a full stream keeps c.mu, and the supervisor, which closes    *)
(* the connection without it as long as session waits, needs it: for a     *)
(* keepalive, or in clearCurrent after a record of type close.             *)
Wedged ==
    /\ \E t \in Sender : At(t, "send") /\ Stuck(conn)
    /\ pc["sv"] \in {"lock", "send", "clear"}

(* After Stop, both Stop and Run return, whatever goroutine waits for what *)
(* at that moment: a packet that blocks tunReader is freed by the          *)
(* supervisor, unless that is Wedged itself.                               *)
StopCompletes == stopped ~> (Wedged \/ (pc["sv"] = "done" /\ pc["stop"] = "done"))

(* A connection whose link died is given up, also when tunReader or the    *)
(* handshake is stuck on it, with the same exception.                      *)
DeadLinkLeft == (conn \in dead) ~> (Wedged \/ conn \notin dead)

(* Without the exception: not so over a stream, see the README.            *)
StopAlwaysCompletes == stopped ~> (pc["sv"] = "done" /\ pc["stop"] = "done")

(* A connection that carried traffic is followed by roaming, not by        *)
(* another handshake.                                                      *)
RoamsAfterTraffic == pc["sv"] = "handshake" => needHandshake
=============================================================================
