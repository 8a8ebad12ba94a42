----------------------------- MODULE Handshake ------------------------------
(***************************************************************************)
(* internal/session (session.go, handshake_frame.go) as the client and the *)
(* server drive it: one Noise_IK exchange per connection attempt over a    *)
(* network that loses, repeats and delays datagrams.                       *)
(*                                                                         *)
(* An ephemeral key is the number of the attempt or of the server session  *)
(* that made it, and so are the random indices.  A Noise message opens if  *)
(* its receiver has the transcript its sender had: the same server key and *)
(* prologue, and the ephemerals exchanged so far.  A datagram that does    *)
(* not open changes nothing on the server.  Each attempt has a socket of   *)
(* its own, so that only answers to it can reach it.                       *)
(*                                                                         *)
(* The network does harm at most MaxFaults times; after that it delivers   *)
(* before a handshake times out, so a client can be expected to connect.   *)
(***************************************************************************)
EXTENDS Integers, FiniteSets

CONSTANTS Client,        \* each has its static key
          Config,        \* the server key and prologue of each client
          Server,        \* the server's own: [pub, prologue]
          MaxAttempts, MaxSessions, MaxFaults          \* bounds

ASSUME HandshakeAssumption ==
    /\ Server = [pub |-> Server.pub, prologue |-> Server.prologue]
    /\ Config \in [Client -> [pub : {Server.pub, "other"}, prologue : {Server.prologue, "old"}]]
    /\ MaxAttempts \in Nat /\ MaxSessions \in Nat /\ MaxFaults \in Nat

None    == 0
Attempt == 1..MaxAttempts
Resp    == 1..MaxSessions            \* server sessions

VARIABLES
    attempt,     \* number of the current attempt of each client
    phase,       \* of each client: "idle", "waiting" for m2, or "up"
    csess,       \* the client's session
    init,        \* init[c][a]: copies of the m1 of attempt a in flight
    resp,        \* m2 frames in flight
    made, ssess, \* sessions the server has made
    pending,     \* the session handleHandshake has answered for
    byPeer,      \* the current session of each client on the server
    faults

net    == <<init, resp>>
server == <<made, ssess, pending, byPeer>>
vars   == <<attempt, phase, csess, net, server, faults>>

NoSession == [send |-> <<>>, recv |-> <<>>, local |-> None, remote |-> None]

Init ==
    /\ attempt = [c \in Client |-> 0]
    /\ phase = [c \in Client |-> "idle"]
    /\ csess = [c \in Client |-> NoSession]
    /\ init = [c \in Client |-> [a \in Attempt |-> 0]]
    /\ resp = {}
    /\ made = 0 /\ ssess = [r \in Resp |-> NoSession]
    /\ pending = None
    /\ byPeer = [c \in Client |-> None]
    /\ faults = 0

-----------------------------------------------------------------------------
(* Messages and keys                                                       *)

(* A transcript: who, under which prologue, with which ephemerals.         *)
Transcript_OneKey(c, prologue, a, r) ==                          \* mutant
    [static |-> c, prologue |-> prologue, e |-> a, ee |-> None]
Transcript(c, prologue, a, r) == [static |-> c, prologue |-> prologue, e |-> a, ee |-> r]

newSession_OneWay(initiator, t, local, remote) ==                \* mutant
    [send |-> <<t, "cs0">>, recv |-> <<t, "cs1">>, local |-> local, remote |-> remote]
newSession(initiator, t, local, remote) ==
    IF initiator
    THEN [send |-> <<t, "cs0">>, recv |-> <<t, "cs1">>, local |-> local, remote |-> remote]
    ELSE [send |-> <<t, "cs1">>, recv |-> <<t, "cs0">>, local |-> local, remote |-> remote]

(* MAC1 is keyed with the receiver's public key; Noise then compares the   *)
(* transcripts.                                                            *)
MAC1(c)  == Config[c].pub = Server.pub
Noise(c) == Config[c].prologue = Server.prologue

(* The m2 frame of session r.                                              *)
M2(r) == [r |-> r, index |-> ssess'[r].local, t |-> ssess'[r].send[1], mac |-> ssess'[r].send[1].static]

-----------------------------------------------------------------------------
(* The client: handshake() and the ends of a session                       *)

Begin(c) ==              \* a new socket, FramedWrite, Send
    /\ phase[c] = "idle" /\ attempt[c] < MaxAttempts
    /\ attempt' = [attempt EXCEPT ![c] = @ + 1]
    /\ init' = [init EXCEPT ![c][attempt'[c]] = @ + 1]
    /\ phase' = [phase EXCEPT ![c] = "waiting"]
    /\ UNCHANGED <<csess, resp, server, faults>>

(* FramedRead of a frame that reached the socket of this attempt.          *)
Opens(c, f) ==
    /\ f.mac = c
    /\ f.t = Transcript(c, Config[c].prologue, attempt[c], f.r)

RecvReply(c) ==
    /\ phase[c] = "waiting"
    /\ \E f \in resp :
          /\ Opens(c, f)
          /\ csess' = [csess EXCEPT ![c] = newSession(TRUE, f.t, attempt[c], f.index)]
          /\ resp' = resp \ {f}
    /\ phase' = [phase EXCEPT ![c] = "up"]
    /\ UNCHANGED <<attempt, init, server, faults>>

GiveUp(c) ==             \* handshakeTimeout; the socket is closed
    /\ phase[c] = "waiting"
    /\ phase' = [phase EXCEPT ![c] = "idle"]

UnderWay(c) == \/ init[c][attempt[c]] > 0 /\ MAC1(c) /\ Noise(c)
               \/ \E f \in resp : Opens(c, f)

Timeout(c) ==            \* nothing will come any more
    /\ GiveUp(c) /\ ~UnderWay(c)
    /\ UNCHANGED <<attempt, csess, net, server, faults>>

TimeoutEarly(c) ==       \* the answer is late
    /\ GiveUp(c) /\ UnderWay(c)
    /\ faults < MaxFaults /\ faults' = faults + 1
    /\ UNCHANGED <<attempt, csess, net, server>>

(* The idle check: the server no longer answers under this session.        *)
Silent_Never(c) == FALSE                                         \* mutant
Silent(c) == csess[c].remote \notin {pending, byPeer[c]}

IdleExpire(c) ==
    /\ phase[c] = "up" /\ Silent(c)
    /\ phase' = [phase EXCEPT ![c] = "idle"]
    /\ csess' = [csess EXCEPT ![c] = NoSession]
    /\ UNCHANGED <<attempt, net, server, faults>>

-----------------------------------------------------------------------------
(* The server: handleHandshake                                             *)

RecvInit(c, a) ==        \* FramedRead, FramedWrite, and the reply leaves
    /\ pending = None /\ init[c][a] > 0
    /\ MAC1(c) /\ Noise(c)
    /\ made < MaxSessions
    /\ made' = made + 1
    /\ ssess' = [ssess EXCEPT ![made'] =
                    newSession(FALSE, Transcript(c, Server.prologue, a, made'), made', a)]
    /\ init' = [init EXCEPT ![c][a] = @ - 1]
    /\ resp' = resp \cup {M2(made')}
    /\ pending' = made'
    /\ UNCHANGED <<attempt, phase, csess, byPeer, faults>>

RecvForeign(c, a) ==     \* dropped without an answer
    /\ pending = None /\ init[c][a] > 0
    /\ ~(MAC1(c) /\ Noise(c))
    /\ init' = [init EXCEPT ![c][a] = @ - 1]
    /\ UNCHANGED <<attempt, phase, csess, resp, server, faults>>

Register ==
    /\ pending # None
    /\ LET c == ssess[pending].send[1].static
       IN  byPeer' = [byPeer EXCEPT ![c] = pending]
    /\ pending' = None
    /\ UNCHANGED <<attempt, phase, csess, net, made, ssess, faults>>

-----------------------------------------------------------------------------
(* The network                                                             *)

Closed(f) == \E c \in Client : f.mac = c /\ ~(phase[c] = "waiting" /\ Opens(c, f))

DropReply ==             \* its socket is closed, or m2 was taken before
    /\ \E f \in resp : Closed(f) /\ resp' = resp \ {f}
    /\ UNCHANGED <<attempt, phase, csess, init, server, faults>>

Harm ==                  \* a frame is lost, or an m1 repeated
    /\ faults < MaxFaults /\ faults' = faults + 1
    /\ \/ \E f \in resp : resp' = resp \ {f} /\ UNCHANGED init
       \/ \E c \in Client, a \in Attempt :
             /\ init[c][a] > 0
             /\ \E n \in {init[c][a] - 1, init[c][a] + 1} : init' = [init EXCEPT ![c][a] = n]
             /\ UNCHANGED resp
    /\ UNCHANGED <<attempt, phase, csess, server>>

client(c) == Begin(c) \/ RecvReply(c) \/ Timeout(c) \/ TimeoutEarly(c) \/ IdleExpire(c)

handleHandshake ==
    Register \/ \E c \in Client, a \in Attempt : RecvInit(c, a) \/ RecvForeign(c, a)

Next == handleHandshake \/ DropReply \/ Harm \/ \E c \in Client : client(c)

(* Client and server go on, and a datagram left alone arrives.             *)
Fairness ==
    /\ \A c \in Client : /\ WF_vars(Begin(c)) /\ WF_vars(RecvReply(c))
                         /\ WF_vars(Timeout(c)) /\ WF_vars(IdleExpire(c))
                         /\ \A a \in Attempt : WF_vars(RecvInit(c, a)) /\ WF_vars(RecvForeign(c, a))
    /\ WF_vars(Register)

Spec == Init /\ [][Next]_vars /\ Fairness

-----------------------------------------------------------------------------
(* Properties                                                              *)

Able(c) == Config[c] = Server

(* Numbers stay in range.                                                  *)
TypeOK ==
    /\ attempt \in [Client -> 0..MaxAttempts]
    /\ phase \in [Client -> {"idle", "waiting", "up"}]
    /\ made \in 0..MaxSessions /\ pending \in 0..made /\ faults \in 0..MaxFaults
    /\ init \in [Client -> [Attempt -> Nat]]
    /\ \A f \in resp : f.r \in 1..made
    /\ byPeer \in [Client -> 0..made]

(* A session the client holds has its counterpart on the server: what one  *)
(* seals the other opens, and each sends the index the other expects.  And *)
(* a session the server has registered was made with the peer it is        *)
(* registered for, who has the right settings.                             *)
Agreement ==
    \A c \in Client :
        /\ phase[c] = "up" =>
              \E r \in 1..made : /\ csess[c].send = ssess[r].recv /\ csess[c].recv = ssess[r].send
                                 /\ csess[c].local = ssess[r].remote
                                 /\ csess[c].remote = ssess[r].local
        /\ byPeer[c] # None => ssess[byPeer[c]].send[1].static = c /\ Able(c)

(* No two sessions on the server share a key, also when one m1 arrived     *)
(* twice: counters that start at 0 again never meet a used key.            *)
FreshKeys ==
    \A r, q \in 1..made : {ssess[r].send, ssess[r].recv} \cap {ssess[q].send, ssess[q].recv} # {}
                          => r = q

(* Whatever was lost, late or repeated, in the end the client holds the    *)
(* session the server has for it.                                          *)
Settles ==
    \A c \in Client : Able(c) => <>[](phase[c] = "up" /\ byPeer[c] = csess[c].remote)

(* A session is replaced only by a handshake the client began later.       *)
NewestHandshakeWins ==
    [][\A c \in Client : byPeer[c] # None /\ byPeer'[c] # byPeer[c] =>
          ssess[byPeer'[c]].remote > ssess[byPeer[c]].remote]_vars
=============================================================================
