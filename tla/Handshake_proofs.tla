-------------------------- MODULE Handshake_proofs --------------------------
(***************************************************************************)
(* Proofs about internal/session, the stream it runs over and its          *)
(* ephemeral keys: Handshake for every number of clients, attempts,        *)
(* sessions and faults, StreamConn for every set of records, Elligator2    *)
(* for every field and curve that meet EllAssumption.                      *)
(***************************************************************************)
EXTENDS HandshakeKeys, StreamConn, SequenceTheorems, FiniteSetTheorems, WellFoundedInduction, TLAPS

(* Session r of the server answers attempt a of client c.                  *)
Answers(r, c, a) ==
    ssess[r] = newSession(FALSE, Transcript(c, Server.prologue, a, r), r, a)

InvTypes ==
    /\ attempt \in [Client -> 0..MaxAttempts]
    /\ phase \in [Client -> {"idle", "waiting", "up"}]
    /\ DOMAIN csess = Client /\ DOMAIN ssess = Resp
    /\ made \in 0..MaxSessions /\ pending \in 0..made /\ faults \in 0..MaxFaults
    /\ init \in [Client -> [Attempt -> Nat]]
    /\ byPeer \in [Client -> 0..made]

(* Every session of the server is one with a client that has its settings. *)
InvServer ==
    \A r \in 1..made : \E c \in Client, a \in Attempt : Answers(r, c, a) /\ MAC1(c) /\ Noise(c)

InvReplies ==
    \A f \in resp : f.r \in 1..made /\ f.index = f.r /\ f.t = ssess[f.r].send[1]

(* A client that is up has the other half of a session of the server.      *)
Counterpart(r, c) ==
    /\ Answers(r, c, attempt[c])
    /\ csess[c] = newSession(TRUE, Transcript(c, Server.prologue, attempt[c], r), attempt[c], r)
InvClient == \A c \in Client : phase[c] = "up" => \E r \in 1..made : Counterpart(r, c)

InvPeers ==
    \A c \in Client : byPeer[c] # None =>
        \E a \in Attempt : Answers(byPeer[c], c, a) /\ MAC1(c) /\ Noise(c)

Inv == InvTypes /\ InvServer /\ InvReplies /\ InvClient /\ InvPeers

LEMMA InvInit == Init => Inv
BY HandshakeAssumption DEF Init, Inv, InvTypes, InvServer, InvReplies, InvClient, Counterpart,
   InvPeers, None

-----------------------------------------------------------------------------
(* Keys                                                                    *)

(* A transcript determines who exchanged it, and in which session.         *)
LEMMA TranscriptInjective ==
  ASSUME NEW c, NEW p, NEW a, NEW r, NEW d, NEW q, NEW b, NEW s,
         Transcript(c, p, a, r) = Transcript(d, q, b, s)
  PROVE  c = d /\ p = q /\ a = b /\ r = s
BY DEF Transcript

(* The parts of a session on the server, which it has from the transcript. *)
LEMMA AnswerParts ==
  ASSUME NEW r, NEW c, NEW a, Answers(r, c, a)
  PROVE  /\ ssess[r].send = <<Transcript(c, Server.prologue, a, r), "cs1">>
         /\ ssess[r].recv = <<Transcript(c, Server.prologue, a, r), "cs0">>
         /\ ssess[r].send[1] = Transcript(c, Server.prologue, a, r)
         /\ ssess[r].local = r /\ ssess[r].remote = a
BY DEF Answers, newSession

(* As long as no session is made, what was said of the sessions stays true. *)
LEMMA AnswersStay ==
  ASSUME UNCHANGED ssess
  PROVE  \A r, c, a : Answers(r, c, a)' <=> Answers(r, c, a)
BY DEF Answers

(* The sessions there are after one more was made.                         *)
LEMMA OneMore ==
  ASSUME NEW m \in Nat
  PROVE  /\ 1..m \subseteq 1..(m + 1) /\ 0..m \subseteq 0..(m + 1)
         /\ m + 1 \in 1..(m + 1) /\ \A r \in 1..(m + 1) : r \in 1..m \/ r = m + 1
OBVIOUS

LEMMA InvStep == Inv /\ [Next]_vars => Inv'
<1> SUFFICES ASSUME Inv, [Next]_vars
             PROVE  Inv'
  OBVIOUS
<1> USE HandshakeAssumption DEF Inv, InvTypes, net, server
<1>1. CASE UNCHANGED vars
  BY <1>1, AnswersStay DEF vars, InvServer, InvReplies, InvClient, Counterpart, InvPeers
<1>2. ASSUME NEW c \in Client, Begin(c)
      PROVE  Inv'
  <2>1. /\ phase[c] = "idle" /\ phase' = [phase EXCEPT ![c] = "waiting"]
        /\ attempt[c] < MaxAttempts /\ attempt' = [attempt EXCEPT ![c] = @ + 1]
        /\ init' = [init EXCEPT ![c][attempt'[c]] = @ + 1]
        /\ UNCHANGED <<csess, resp, server, faults>>
    BY <1>2 DEF Begin
  <2>2. attempt'[c] \in Attempt
    BY <2>1 DEF Attempt
  <2>3. InvTypes'
    BY <2>1, <2>2
  <2>4. InvServer' /\ InvReplies' /\ InvPeers'
    BY <2>1, AnswersStay DEF InvServer, InvReplies, InvPeers
  <2>5. InvClient'
    BY <2>1, AnswersStay DEF InvClient, Counterpart
  <2> QED
    BY <2>3, <2>4, <2>5
<1>3. ASSUME NEW c \in Client, RecvReply(c)
      PROVE  Inv'
  <2>1. PICK f \in resp :
          /\ f.t = Transcript(c, Config[c].prologue, attempt[c], f.r)
          /\ csess' = [csess EXCEPT ![c] = newSession(TRUE, f.t, attempt[c], f.index)]
          /\ resp' = resp \ {f}
    BY <1>3 DEF RecvReply, Opens
  <2>2. /\ phase' = [phase EXCEPT ![c] = "up"]
        /\ UNCHANGED <<attempt, init, server, faults>>
    BY <1>3 DEF RecvReply
  <2>3. f.r \in 1..made /\ f.index = f.r /\ f.t = ssess[f.r].send[1]
    BY DEF InvReplies
  <2>4. Answers(f.r, c, attempt[c]) /\ f.t = Transcript(c, Server.prologue, attempt[c], f.r)
    <3>1. PICK d \in Client, a \in Attempt : Answers(f.r, d, a)
      BY <2>3 DEF InvServer
    <3>2. f.t = Transcript(d, Server.prologue, a, f.r)
      BY <2>3, <3>1, AnswerParts
    <3>3. Transcript(d, Server.prologue, a, f.r)
            = Transcript(c, Config[c].prologue, attempt[c], f.r)
      BY <2>1, <3>2
    <3>4. d = c /\ a = attempt[c]
      BY <3>3, TranscriptInjective
    <3> QED
      BY <3>1, <3>2, <3>4
  <2>5. InvTypes'
    BY <2>1, <2>2
  <2>6. InvServer' /\ InvReplies' /\ InvPeers'
    BY <2>1, <2>2, AnswersStay DEF InvServer, InvReplies, InvPeers
  <2>7. InvClient'
    BY <2>1, <2>2, <2>3, <2>4, AnswersStay DEF InvClient, Counterpart
  <2> QED
    BY <2>5, <2>6, <2>7
<1>4. ASSUME NEW c \in Client, Timeout(c) \/ TimeoutEarly(c) \/ IdleExpire(c)
      PROVE  Inv'
  <2>1. /\ phase' = [phase EXCEPT ![c] = "idle"]
        /\ DOMAIN csess' = Client /\ \A d \in Client \ {c} : csess'[d] = csess[d]
        /\ faults' \in 0..MaxFaults
        /\ UNCHANGED <<attempt, net, server>>
    BY <1>4 DEF Timeout, TimeoutEarly, GiveUp, IdleExpire
  <2>2. InvTypes'
    BY <2>1
  <2>3. InvServer' /\ InvReplies' /\ InvPeers'
    BY <2>1, AnswersStay DEF InvServer, InvReplies, InvPeers
  <2>4. InvClient'
    BY <2>1, AnswersStay DEF InvClient, Counterpart
  <2> QED
    BY <2>2, <2>3, <2>4
<1>5. ASSUME NEW c \in Client, NEW a \in Attempt, RecvInit(c, a)
      PROVE  Inv'
  <2>1. PICK n \in Resp : n = made + 1
    BY <1>5 DEF RecvInit, Resp
  <2>2. /\ made' = n /\ pending' = n
        /\ ssess' = [ssess EXCEPT ![n] =
                        newSession(FALSE, Transcript(c, Server.prologue, a, n), n, a)]
        /\ init' = [init EXCEPT ![c][a] = @ - 1] /\ init[c][a] > 0
        /\ resp' = resp \cup {M2(n)}
        /\ UNCHANGED <<attempt, phase, csess, byPeer, faults>>
        /\ MAC1(c) /\ Noise(c)
    BY <1>5, <2>1 DEF RecvInit
  <2>3. Answers(n, c, a)'
    BY <2>1, <2>2 DEF Answers
  <2>4. \A r \in 1..made : ssess'[r] = ssess[r]
    <3>1. \A r \in 1..made : r \in Resp /\ r # n
      BY <2>1 DEF Resp
    <3> QED
      BY <2>2, <3>1
  <2>5. /\ 1..made \subseteq 1..made' /\ 0..made \subseteq 0..made'
         /\ n \in 1..made' /\ \A r \in 1..made' : r \in 1..made \/ r = n
    <3>1. made \in Nat /\ made' = made + 1 /\ n = made'
      BY <2>1, <2>2
    <3> QED
      BY <3>1, OneMore
  <2>6. \A r \in 1..made : \A d, b : Answers(r, d, b)' <=> Answers(r, d, b)
    BY <2>4 DEF Answers
  <2>7. M2(n).r = n /\ M2(n).index = n /\ M2(n).t = ssess'[n].send[1]
    BY <2>1, <2>2 DEF M2, newSession
  <2>8. InvTypes'
    BY <2>1, <2>2 DEF Resp
  <2>9. InvServer'
    BY <2>2, <2>3, <2>6, <2>5 DEF InvServer
  <2>10. InvReplies'
    <3>1. ASSUME NEW f \in resp
          PROVE  f.r \in 1..made' /\ f.index = f.r /\ f.t = ssess'[f.r].send[1]
      BY <2>4, <2>5 DEF InvReplies
    <3> QED
      BY <2>2, <2>7, <2>5, <3>1 DEF InvReplies
  <2>11. InvClient'
    <3>1. \A r \in 1..made, d \in Client : Counterpart(r, d) => Counterpart(r, d)'
      BY <2>2, <2>4 DEF Counterpart, Answers
    <3> QED
      BY <2>2, <2>5, <3>1 DEF InvClient
  <2>12. InvPeers'
    <3>1. ASSUME NEW d \in Client, byPeer[d] # None
          PROVE  byPeer[d] \in 1..made
      BY <3>1 DEF None
    <3> QED
      BY <2>2, <2>6, <3>1 DEF InvPeers
  <2> QED
    BY <2>8, <2>9, <2>10, <2>11, <2>12
<1>6. ASSUME NEW c \in Client, NEW a \in Attempt, RecvForeign(c, a)
      PROVE  Inv'
  <2>1. /\ init' = [init EXCEPT ![c][a] = @ - 1] /\ init[c][a] > 0
        /\ UNCHANGED <<attempt, phase, csess, resp, server, faults>>
    BY <1>6 DEF RecvForeign
  <2>2. InvTypes'
    BY <2>1
  <2> QED
    BY <2>1, <2>2, AnswersStay, ZenonT(30) DEF InvServer, InvReplies, InvClient, Counterpart, InvPeers
<1>7. CASE Register
  <2> DEFINE d == ssess[pending].send[1].static
  <2>1. /\ pending \in 1..made /\ pending' = None
        /\ byPeer' = [byPeer EXCEPT ![d] = pending]
        /\ UNCHANGED <<attempt, phase, csess, net, made, ssess, faults>>
    BY <1>7 DEF Register, None
  <2>2. PICK c \in Client, a \in Attempt : Answers(pending, c, a) /\ MAC1(c) /\ Noise(c)
    BY <2>1 DEF InvServer
  <2>3. d = c
    <3>1. ssess[pending].send[1] = Transcript(c, Server.prologue, a, pending)
      BY <2>2, AnswerParts
    <3> QED
      BY <3>1 DEF Transcript
  <2>4. InvTypes'
    BY <2>1, <2>3 DEF None
  <2>5. InvServer' /\ InvReplies' /\ InvClient'
    BY <2>1, AnswersStay DEF InvServer, InvReplies, InvClient, Counterpart
  <2>6. InvPeers'
    BY <2>1, <2>2, <2>3, AnswersStay DEF InvPeers
  <2> QED
    BY <2>4, <2>5, <2>6
<1>8. CASE DropReply
  BY <1>8, AnswersStay DEF DropReply, InvServer, InvReplies, InvClient, Counterpart, InvPeers
<1>9. CASE Harm
  <2>1. /\ resp' \subseteq resp
        /\ faults' \in 0..MaxFaults
        /\ UNCHANGED <<attempt, phase, csess, server>>
    BY <1>9 DEF Harm
  <2>2. init' \in [Client -> [Attempt -> Nat]]
    <3>1. ASSUME NEW c \in Client, NEW a \in Attempt, init[c][a] > 0,
                 NEW n \in {init[c][a] - 1, init[c][a] + 1},
                 init' = [init EXCEPT ![c][a] = n]
          PROVE  init' \in [Client -> [Attempt -> Nat]]
      <4>1. init[c][a] \in Nat
        OBVIOUS
      <4> QED
        BY <3>1, <4>1
    <3> QED
      BY <1>9, <3>1 DEF Harm
  <2>3. InvTypes'
    BY <2>1, <2>2
  <2> QED
    BY <2>1, <2>3, AnswersStay DEF InvServer, InvReplies, InvClient, Counterpart, InvPeers
<1> QED
  BY <1>1, <1>2, <1>3, <1>4, <1>5, <1>6, <1>7, <1>8, <1>9 DEF Next, handleHandshake, client

LEMMA Invariance == Spec => []Inv
BY InvInit, InvStep, PTL DEF Spec

-----------------------------------------------------------------------------

(* Numbers stay in range.                                                  *)
THEOREM TypeCorrect == Spec => []TypeOK
<1>1. Inv => TypeOK
  BY DEF Inv, InvTypes, InvReplies, TypeOK
<1> QED
  BY Invariance, <1>1, PTL

(* Whatever was lost, repeated or late: what a client seals a session of   *)
(* the server opens, and the other way round; and a peer is registered     *)
(* with a session that was made for it, under the server's own key and     *)
(* prologue.                                                               *)
THEOREM EndsAgree == Spec => []Agreement
<1>1. Inv => Agreement
  <2> SUFFICES ASSUME Inv, NEW c \in Client
               PROVE  /\ phase[c] = "up" =>
                            \E r \in 1..made : /\ csess[c].send = ssess[r].recv
                                               /\ csess[c].recv = ssess[r].send
                                               /\ csess[c].local = ssess[r].remote
                                               /\ csess[c].remote = ssess[r].local
                      /\ byPeer[c] # None => ssess[byPeer[c]].send[1].static = c /\ Able(c)
    BY DEF Agreement
  <2>1. ASSUME phase[c] = "up"
        PROVE  \E r \in 1..made : /\ csess[c].send = ssess[r].recv
                                  /\ csess[c].recv = ssess[r].send
                                  /\ csess[c].local = ssess[r].remote
                                  /\ csess[c].remote = ssess[r].local
    <3>1. PICK r \in 1..made : Counterpart(r, c)
      BY <2>1 DEF Inv, InvClient
    <3> QED
      BY <3>1, AnswerParts DEF Counterpart, newSession
  <2>2. ASSUME byPeer[c] # None
        PROVE  ssess[byPeer[c]].send[1].static = c /\ Able(c)
    <3>1. PICK a \in Attempt : Answers(byPeer[c], c, a) /\ MAC1(c) /\ Noise(c)
      BY <2>2 DEF Inv, InvPeers
    <3>2. ssess[byPeer[c]].send[1] = Transcript(c, Server.prologue, a, byPeer[c])
      BY <3>1, AnswerParts
    <3>3. ssess[byPeer[c]].send[1].static = c
      BY <3>2 DEF Transcript
    <3>4. Config[c] = [pub |-> Server.pub, prologue |-> Server.prologue]
      BY <3>1, HandshakeAssumption DEF MAC1, Noise
    <3> QED
      BY <3>3, <3>4, HandshakeAssumption DEF Able
  <2> QED
    BY <2>1, <2>2
<1> QED
  BY Invariance, <1>1, PTL

(* Two sessions of the server never share a key, so their counters may     *)
(* both start at 0: each has an ephemeral key of its own in its transcript. *)
THEOREM KeysAreFresh == Spec => []FreshKeys
<1>1. Inv => FreshKeys
  <2> SUFFICES ASSUME Inv, NEW r \in 1..made, NEW q \in 1..made,
                      {ssess[r].send, ssess[r].recv} \cap {ssess[q].send, ssess[q].recv} # {}
               PROVE  r = q
    BY DEF FreshKeys
  <2>1. PICK c \in Client, a \in Attempt : Answers(r, c, a)
    BY DEF Inv, InvServer
  <2>2. PICK d \in Client, b \in Attempt : Answers(q, d, b)
    BY DEF Inv, InvServer
  <2>3. Transcript(c, Server.prologue, a, r) = Transcript(d, Server.prologue, b, q)
    BY <2>1, <2>2, AnswerParts
  <2> QED
    BY <2>3, TranscriptInjective
<1> QED
  BY Invariance, <1>1, PTL

-----------------------------------------------------------------------------
(* StreamConn                                                              *)

Records == Seq(Seq(Int))

(* A record as it goes on the wire.                                        *)
Frame(r) == BigEndian(Len(r)) \o r

(* The frame of the j-th record of s begins behind byte beg[j], counted    *)
(* from the next one to be read; beg[Len(s) + 1] is where the next goes.   *)
Adjacent(beg, s) == \A j \in 1..Len(s) : beg[j + 1] = beg[j] + 2 + Len(s[j])
Ordered(beg, s)  == \A i, j \in 1..(Len(s) + 1) : i <= j => beg[i] <= beg[j]
Offsets(beg, s)  == Adjacent(beg, s) /\ Ordered(beg, s)

(* The bytes w under way are those of frames of s.                         *)
Carries(beg, w, s) ==
    \A i \in 1..Len(w) : \E j \in 1..Len(s) :
        i - beg[j] \in DOMAIN Frame(s[j]) /\ w[i] = Frame(s[j])[i - beg[j]]

LEMMA Coded ==
  ASSUME NEW n \in Nat
  PROVE  Decode(BigEndian(n)) = n
BY StreamAssumption DEF Decode, BigEndian

LEMMA CodeFacts ==
  ASSUME NEW n \in Nat
  PROVE  BigEndian(n) \in Seq(Int) /\ Len(BigEndian(n)) = 2
BY StreamAssumption DEF BigEndian

LEMMA ConcatFacts ==
  ASSUME NEW w \in Seq(Int), NEW v \in Seq(Int)
  PROVE  /\ w \o v \in Seq(Int) /\ Len(w \o v) = Len(w) + Len(v)
         /\ DOMAIN (w \o v) = 1..(Len(w) + Len(v))
         /\ \A i \in 1..Len(w) : (w \o v)[i] = w[i]
         /\ \A i \in 1..Len(v) : (w \o v)[Len(w) + i] = v[i]
OBVIOUS

LEMMA LenNat == ASSUME NEW S, NEW r \in Seq(S) PROVE Len(r) \in Nat
OBVIOUS

LEMMA FrameFacts ==
  ASSUME NEW r \in Seq(Int)
  PROVE  /\ Frame(r) \in Seq(Int) /\ Len(Frame(r)) = 2 + Len(r)
         /\ DOMAIN Frame(r) = 1..(2 + Len(r))
         /\ \A i \in 1..2 : Frame(r)[i] = BigEndian(Len(r))[i]
         /\ \A i \in 1..Len(r) : Frame(r)[2 + i] = r[i]
<1>1. BigEndian(Len(r)) \in Seq(Int) /\ Len(BigEndian(Len(r))) = 2
  BY CodeFacts, LenNat
<1> DEFINE b == BigEndian(Len(r))
<1>2. /\ b \o r \in Seq(Int) /\ Len(b \o r) = Len(b) + Len(r)
      /\ DOMAIN (b \o r) = 1..(Len(b) + Len(r))
      /\ \A i \in 1..Len(b) : (b \o r)[i] = b[i]
      /\ \A i \in 1..Len(r) : (b \o r)[Len(b) + i] = r[i]
  <2>1. b \in Seq(Int)
    BY <1>1
  <2> HIDE DEF b
  <2> QED
    BY <2>1, ConcatFacts, Zenon
<1>3. b = BigEndian(Len(r)) /\ Len(b) = 2
  BY <1>1
<1>4. Frame(r) = b \o r
  BY DEF Frame
<1> DEFINE f == b \o r
<1>5. /\ f \in Seq(Int) /\ Len(f) = Len(b) + Len(r) /\ DOMAIN f = 1..(Len(b) + Len(r))
      /\ \A i \in 1..Len(b) : f[i] = b[i]
      /\ \A i \in 1..Len(r) : f[Len(b) + i] = r[i]
  BY <1>2
<1>6. Frame(r) = f
  BY <1>4
<1> HIDE DEF b, f
<1>7. PICK n : n = Len(b)
  OBVIOUS
<1>8. n = 2
  BY <1>3, <1>7, Zenon
<1>9. /\ f \in Seq(Int) /\ Len(f) = n + Len(r) /\ DOMAIN f = 1..(n + Len(r))
      /\ \A i \in 1..n : f[i] = b[i]
      /\ \A i \in 1..Len(r) : f[n + i] = r[i]
  BY <1>5, <1>7, Zenon
<1>10. /\ f \in Seq(Int) /\ Len(f) = 2 + Len(r) /\ DOMAIN f = 1..(2 + Len(r))
       /\ \A i \in 1..2 : f[i] = b[i]
       /\ \A i \in 1..Len(r) : f[2 + i] = r[i]
  BY <1>8, <1>9, Zenon
<1>11. b = BigEndian(Len(r))
  BY <1>3
<1>12. QED
  BY <1>6, <1>10, <1>11, Zenon

(* Small facts about numbers, to be cited where the terms are large.       *)
LEMMA IndexFacts ==
  ASSUME NEW n \in Nat, NEW j \in 1..n
  PROVE  /\ j \in Nat /\ j + 1 \in Nat /\ j \in Int /\ j <= n
         /\ j \in 1..(n + 1) /\ j + 1 \in 1..(n + 1)
<1>1. j \in Nat /\ j + 1 \in Nat /\ j \in Int /\ j <= n
  OBVIOUS
<1>2. j \in 1..(n + 1)
  OBVIOUS
<1>3. j + 1 \in 1..(n + 1)
  OBVIOUS
<1>4. QED
  BY <1>1, <1>2, <1>3

LEMMA Between ==
  ASSUME NEW i \in Int, NEW b \in Int, NEW l \in Nat, i - b \in 1..(2 + l)
  PROVE  b < i /\ i <= b + 2 + l
OBVIOUS

LEMMA Contradiction ==
  ASSUME NEW a \in Int, NEW b \in Int, NEW c \in Int, a < b, b <= c, c <= a
  PROVE  FALSE
OBVIOUS

LEMMA Lower ==
  ASSUME NEW n \in Nat, NEW j \in 1..n, NEW k \in 1..(n + 1), k <= j
  PROVE  k \in 1..n
OBVIOUS

LEMMA Before ==
  ASSUME NEW n \in Nat, NEW j \in 1..(n + 1), j # n + 1
  PROVE  j \in 1..n /\ j + 1 # n + 2
OBVIOUS

LEMMA Earlier ==
  ASSUME NEW n \in Nat, NEW j \in 1..(n + 2), NEW i \in 1..(n + 2), i <= j, j # n + 2
  PROVE  i \in 1..(n + 1) /\ j \in 1..(n + 1) /\ i # n + 2
OBVIOUS

LEMMA Beyond ==
  ASSUME NEW n \in Nat, NEW j \in 1..(n + 1)
  PROVE  j \in Nat /\ j # n + 2
OBVIOUS

LEMMA Further ==
  ASSUME NEW a \in Int, NEW l \in Nat
  PROVE  a <= a + 2 + l
OBVIOUS

LEMMA NotLast ==
  ASSUME NEW n \in Nat, NEW i \in 1..(n + 2), i # n + 2
  PROVE  i \in 1..(n + 1) /\ n + 1 \in 1..(n + 1) /\ i <= n + 1
OBVIOUS

LEMMA Behind ==
  ASSUME NEW n \in Nat, NEW m \in Nat, NEW i \in 1..(n + m), i \notin 1..n
  PROVE  \E k \in 1..m : i = n + k
<1>1. i - n \in 1..m /\ i = n + (i - n)
  OBVIOUS
<1>2. QED
  BY <1>1

LEMMA Within ==
  ASSUME NEW d \in Nat, NEW m \in Nat, NEW n \in Nat, d + m <= n, NEW k \in 1..m
  PROVE  d + k \in 1..n
OBVIOUS

LEMMA Difference ==
  ASSUME NEW z \in Int, NEW d \in Int, NEW k \in Int
  PROVE  ((z + d) + k) - z = d + k
OBVIOUS

LEMMA Shift ==
  ASSUME NEW a \in Int, NEW d \in Int, NEW l \in Int
  PROVE  (a + 2 + l) - d = (a - d) + 2 + l
OBVIOUS

LEMMA Onward ==
  ASSUME NEW n \in Nat, NEW k \in 0..n
  PROVE  k \in 0..(n + 1) /\ k + 1 \in 1..(n + 1) /\ n + 1 \in 1..(n + 1)
<1>1. k \in 0..(n + 1)
  OBVIOUS
<1>2. k + 1 \in 1..(n + 1)
  OBVIOUS
<1>3. QED
  BY <1>1, <1>2

LEMMA Reduced ==
  ASSUME NEW a \in Int, NEW b \in Int, NEW d \in Int
  PROVE  (d + a = b => a = b - d) /\ (d + a = b + 2 => a = (b - d) + 2)
OBVIOUS

LEMMA Comparable ==
  ASSUME NEW a \in Int, NEW b \in Int
  PROVE  a <= b \/ b + 1 <= a
OBVIOUS

LEMMA RecordFacts ==
  ASSUME NEW s \in Records
  PROVE  Len(s) \in Nat /\ \A j \in 1..Len(s) : s[j] \in Seq(Int) /\ Len(s[j]) \in Nat
BY DEF Records

LEMMA AppendFacts ==
  ASSUME NEW s \in Records, NEW x \in Seq(Int)
  PROVE  /\ Append(s, x) \in Records /\ Len(Append(s, x)) = Len(s) + 1
         /\ Append(s, x)[Len(s) + 1] = x
         /\ \A j \in 1..Len(s) : Append(s, x)[j] = s[j]
BY DEF Records

(* A byte of the k-th frame, or of a later one.                            *)
LEMMA Located ==
  ASSUME NEW s \in Records, NEW w \in Seq(Int), NEW beg \in [Nat -> Int],
         Offsets(beg, s), Carries(beg, w, s),
         NEW k \in 1..(Len(s) + 1), NEW i \in 1..Len(w), beg[k] < i
  PROVE  /\ k \in 1..Len(s)
         /\ i <= beg[k + 1] => w[i] = Frame(s[k])[i - beg[k]]
<1>1. PICK j \in 1..Len(s) :
         i - beg[j] \in DOMAIN Frame(s[j]) /\ w[i] = Frame(s[j])[i - beg[j]]
  BY DEF Carries
<1>2. Len(s) \in Nat
  BY RecordFacts
<1>3. j \in Nat /\ j + 1 \in Nat /\ j \in Int /\ j \in 1..(Len(s) + 1) /\ j + 1 \in 1..(Len(s) + 1)
  BY <1>1, <1>2, IndexFacts, Zenon
<1>4. k \in Nat /\ k + 1 \in Nat /\ k \in Int /\ i \in Int
  BY <1>2
<1>5. /\ beg[j] \in Int /\ beg[j + 1] \in Int /\ beg[k] \in Int /\ beg[k + 1] \in Int
  BY <1>3, <1>4
<1>6. beg[j] < i /\ i <= beg[j + 1]
  <2>1. s[j] \in Seq(Int) /\ beg[j + 1] = beg[j] + 2 + Len(s[j]) /\ Len(s[j]) \in Nat
    BY <1>1, RecordFacts DEF Offsets, Adjacent
  <2>2. i - beg[j] \in 1..(2 + Len(s[j]))
    BY <1>1, <2>1, FrameFacts
  <2>3. beg[j] < i /\ i <= beg[j] + 2 + Len(s[j])
    BY <1>4, <1>5, <2>1, <2>2, Between, Zenon
  <2>4. QED
    BY <2>1, <2>3, Zenon
<1>7. \A m, n \in 1..(Len(s) + 1) : m <= n => beg[m] <= beg[n]
  BY DEF Offsets, Ordered
<1>8. k <= j
  <2>1. ASSUME j + 1 <= k
        PROVE  FALSE
    <3>1. beg[j + 1] <= beg[k]
      BY <1>3, <1>7, <2>1, Zenon
    <3>2. QED
      BY <1>4, <1>5, <1>6, <3>1, Contradiction, Zenon
  <2>2. QED
    BY <1>3, <1>4, <2>1, Comparable, Zenon
<1>9. k \in 1..Len(s)
  BY <1>1, <1>2, <1>8, Lower, Zenon
<1>10. ASSUME i <= beg[k + 1]
       PROVE  j = k
  <2>1. ASSUME k + 1 <= j
        PROVE  FALSE
    <3>1. k + 1 \in 1..(Len(s) + 1)
      BY <1>2, <1>9, IndexFacts, Zenon
    <3>2. beg[k + 1] <= beg[j]
      BY <1>3, <1>7, <2>1, <3>1, Zenon
    <3>3. QED
      BY <1>4, <1>5, <1>6, <1>10, <3>2, Contradiction, Zenon
  <2>2. j <= k
    BY <1>3, <1>4, <2>1, Comparable, Zenon
  <2>3. QED
    BY <1>3, <1>4, <1>8, <2>2
<1>11. QED
  BY <1>1, <1>9, <1>10

(* A new record gets a frame behind the others.                            *)
LEMMA SendOffsets ==
  ASSUME NEW s \in Records, NEW x \in Seq(Int), NEW beg \in [Nat -> Int], Offsets(beg, s)
  PROVE  \E new \in [Nat -> Int] : /\ Offsets(new, Append(s, x))
                                   /\ \A j \in 1..(Len(s) + 1) : new[j] = beg[j]
<1>1. PICK n \in Nat : n = Len(s)
  BY RecordFacts
<1>2. PICK l \in Nat : l = Len(x)
  OBVIOUS
<1>3. PICK z \in Int : z = beg[n + 1] + 2 + l
  BY <1>1, <1>2
<1>4. PICK t \in Records : t = Append(s, x)
  BY AppendFacts
<1>5. Len(t) = n + 1 /\ t[n + 1] = x
  BY <1>1, <1>4, AppendFacts
<1>6. \A j \in 1..n : t[j] = s[j]
  BY <1>1, <1>4, AppendFacts
<1>7. PICK new \in [Nat -> Int] : new = [beg EXCEPT ![n + 2] = z]
  BY <1>1, <1>3
<1>8. new[n + 2] = z
  BY <1>1, <1>7
<1>9. \A j \in Nat : j # n + 2 => new[j] = beg[j]
  BY <1>1, <1>7
<1>10. Adjacent(new, t)
  <2> SUFFICES ASSUME NEW j \in 1..(n + 1)
               PROVE  new[j + 1] = new[j] + 2 + Len(t[j])
    BY <1>5 DEF Adjacent
  <2>1. j \in Nat /\ j # n + 2 /\ new[j] = beg[j]
    BY <1>9, Beyond, Zenon
  <2>2. CASE j = n + 1
    <3>1. j + 1 = n + 2 /\ t[j] = x
      BY <1>1, <1>5, <2>2
    <3>2. new[j + 1] = beg[j] + 2 + l
      BY <1>3, <1>8, <2>2, <3>1
    <3>3. QED
      BY <1>2, <2>1, <3>1, <3>2
  <2>3. CASE j # n + 1
    <3>1. j \in 1..n /\ j + 1 \in Nat /\ j + 1 # n + 2
      <4>1. j \in 1..n /\ j + 1 # n + 2
        BY <2>3, Before, Zenon
      <4>2. QED
        BY <2>1, <4>1
    <3>2. new[j + 1] = beg[j + 1] /\ t[j] = s[j]
      BY <1>6, <1>9, <3>1
    <3>3. beg[j + 1] = beg[j] + 2 + Len(s[j])
      BY <1>1, <3>1 DEF Offsets, Adjacent
    <3>4. QED
      BY <2>1, <3>2, <3>3
  <2>4. QED
    BY <2>2, <2>3
<1>11. Ordered(new, t)
  <2> SUFFICES ASSUME NEW i \in 1..(n + 2), NEW j \in 1..(n + 2), i <= j
               PROVE  new[i] <= new[j]
    BY <1>1, <1>5 DEF Ordered
  <2>1. i \in Nat /\ j \in Nat /\ beg[i] \in Int /\ beg[j] \in Int
    BY <1>1
  <2>2. CASE j # n + 2
    <3>1. i \in 1..(n + 1) /\ j \in 1..(n + 1)
      BY <2>2, Earlier, Zenon
    <3>2. i # n + 2
      BY <2>2, Earlier, Zenon
    <3>3. new[i] = beg[i] /\ new[j] = beg[j]
      BY <1>9, <2>1, <2>2, <3>2
    <3>4. beg[i] <= beg[j]
      BY <1>1, <3>1 DEF Offsets, Ordered
    <3>5. QED
      BY <3>3, <3>4
  <2>3. CASE i = n + 2
    <3>1. i = j
      BY <2>1, <2>3
    <3>2. QED
      BY <1>3, <1>8, <2>3, <3>1
  <2>4. CASE i # n + 2 /\ j = n + 2
    <3>1. i \in 1..(n + 1) /\ n + 1 \in 1..(n + 1) /\ i <= n + 1
      BY <2>4, NotLast, Zenon
    <3>2. beg[i] <= beg[n + 1] /\ beg[n + 1] \in Int
      <4>1. \A a, b \in 1..(n + 1) : a <= b => beg[a] <= beg[b]
        BY <1>1 DEF Offsets, Ordered
      <4>2. n + 1 \in Nat
        BY <3>1
      <4>3. beg[n + 1] \in Int
        BY <4>2
      <4>4. QED
        BY <3>1, <4>1, <4>3, Zenon
    <3>3. beg[n + 1] <= z
      BY <1>3, <3>2, Further, Zenon
    <3>4. new[i] = beg[i] /\ new[j] = z
      BY <1>8, <1>9, <2>1, <2>4
    <3>5. QED
      BY <2>1, <3>2, <3>3, <3>4
  <2>5. QED
    BY <2>2, <2>3, <2>4
<1>12. \A j \in 1..(n + 1) : new[j] = beg[j]
  BY <1>1, <1>9
<1>13. QED
  BY <1>1, <1>4, <1>10, <1>11, <1>12 DEF Offsets

(* Bytes that are those of frames stay so when a record is added.          *)
LEMMA SendCarries ==
  ASSUME NEW s \in Records, NEW x \in Seq(Int), NEW beg \in [Nat -> Int],
         NEW new \in [Nat -> Int], NEW w \in Seq(Int),
         \A j \in 1..(Len(s) + 1) : new[j] = beg[j], Carries(beg, w, s)
  PROVE  Carries(new, w, Append(s, x))
<1>1. PICK t \in Records : t = Append(s, x)
  BY AppendFacts
<1>2. Len(s) \in Nat /\ Len(t) = Len(s) + 1
  BY <1>1, AppendFacts, RecordFacts
<1>3. \A j \in 1..Len(s) : t[j] = s[j]
  BY <1>1, AppendFacts
<1>4. ASSUME NEW i \in 1..Len(w)
      PROVE  \E j \in 1..Len(t) :
                i - new[j] \in DOMAIN Frame(t[j]) /\ w[i] = Frame(t[j])[i - new[j]]
  <2>1. PICK j \in 1..Len(s) :
           i - beg[j] \in DOMAIN Frame(s[j]) /\ w[i] = Frame(s[j])[i - beg[j]]
    BY DEF Carries
  <2>0. j \in 1..(Len(s) + 1)
    BY <1>2, <2>1, IndexFacts, Zenon
  <2>2. j \in 1..Len(t)
    BY <1>2, <2>0, Zenon
  <2>3. t[j] = s[j]
    BY <1>3, <2>1
  <2>4. new[j] = beg[j]
    BY <2>0, Zenon
  <2>5. QED
    BY <2>1, <2>2, <2>3, <2>4
<1>5. QED
  BY <1>1, <1>4 DEF Carries

(* Bytes of the last frame are appended where what was written ends.       *)
LEMMA WriteCarries ==
  ASSUME NEW s \in Records, NEW beg \in [Nat -> Int], NEW w \in Seq(Int), NEW v \in Seq(Int),
         Carries(beg, w, s), NEW j \in 1..Len(s), NEW d \in Nat, Len(w) = beg[j] + d,
         d + Len(v) <= Len(Frame(s[j])), \A i \in 1..Len(v) : v[i] = Frame(s[j])[d + i]
  PROVE  Carries(beg, w \o v, s)
<1>1. PICK u \in Seq(Int) : u = w \o v
  BY ConcatFacts
<1>2. PICK f \in Seq(Int) : f = Frame(s[j])
  BY RecordFacts, FrameFacts
<1>3. PICK z \in Int : z = beg[j]
  BY RecordFacts
<1>4. Len(w) \in Nat /\ Len(v) \in Nat /\ Len(f) \in Nat
  BY LenNat, Zenon
<1>5. /\ Len(u) = Len(w) + Len(v)
      /\ \A i \in 1..Len(w) : u[i] = w[i]
      /\ \A i \in 1..Len(v) : u[Len(w) + i] = v[i]
  <2>1. /\ Len(w \o v) = Len(w) + Len(v)
        /\ \A i \in 1..Len(w) : (w \o v)[i] = w[i]
        /\ \A i \in 1..Len(v) : (w \o v)[Len(w) + i] = v[i]
    BY ConcatFacts, Zenon
  <2>2. QED
    BY <1>1, <2>1, Zenon
<1>6. Len(w) = z + d /\ d + Len(v) <= Len(f) /\ \A i \in 1..Len(v) : v[i] = f[d + i]
  BY <1>2, <1>3, Zenon
<1>7. ASSUME NEW i \in 1..Len(u)
      PROVE  \E k \in 1..Len(s) :
                i - beg[k] \in DOMAIN Frame(s[k]) /\ u[i] = Frame(s[k])[i - beg[k]]
  <2>1. CASE i \in 1..Len(w)
    <3>1. u[i] = w[i]
      BY <1>5, <2>1
    <3>2. PICK k \in 1..Len(s) :
             i - beg[k] \in DOMAIN Frame(s[k]) /\ w[i] = Frame(s[k])[i - beg[k]]
      BY <2>1 DEF Carries
    <3>3. QED
      BY <3>1, <3>2, Zenon
  <2>2. CASE i \notin 1..Len(w)
    <3>1. i \in 1..(Len(w) + Len(v))
      BY <1>5, Zenon
    <3>2. PICK m \in 1..Len(v) : i = Len(w) + m
      BY <1>4, <2>2, <3>1, Behind, Zenon
    <3>3. u[i] = f[d + m]
      BY <1>5, <1>6, <3>2, Zenon
    <3>4. d + m \in 1..Len(f)
      BY <1>4, <1>6, Within, Zenon
    <3>5. DOMAIN f = 1..Len(f)
      OBVIOUS
    <3>6. i \in Int /\ m \in Int /\ d \in Int /\ Len(w) \in Int
      BY <1>4, <3>2
    <3>7. i - z = d + m
      <4>1. i = (z + d) + m
        BY <1>6, <3>2, Zenon
      <4>2. ((z + d) + m) - z = d + m
        BY <3>6, Difference, Zenon
      <4>3. QED
        BY <4>1, <4>2, Zenon
    <3>8. i - beg[j] \in DOMAIN Frame(s[j]) /\ u[i] = Frame(s[j])[i - beg[j]]
      BY <1>2, <1>3, <3>3, <3>4, <3>5, <3>7, Zenon
    <3>9. QED
      BY <3>8
  <2>3. QED
    BY <2>1, <2>2
<1>8. QED
  BY <1>1, <1>7 DEF Carries

(* v is what follows the first d bytes of w.                               *)
Rest(w, v, d) == /\ v \in Seq(Int) /\ Len(w) = d + Len(v)
                 /\ \A i \in 1..Len(v) : v[i] = w[d + i]

Shifted(new, beg, d) == \A j \in Nat : new[j] = beg[j] - d

(* What is left after d bytes were read, and where the frames are then.    *)
LEMMA ReadOffsets ==
  ASSUME NEW s \in Records, NEW beg \in [Nat -> Int], NEW w \in Seq(Int), NEW v,
         NEW d \in Nat, Offsets(beg, s), Carries(beg, w, s), Rest(w, v, d)
  PROVE  \E new \in [Nat -> Int] : Offsets(new, s) /\ Carries(new, v, s) /\ Shifted(new, beg, d)
<1>1. PICK new \in [Nat -> Int] : new = [j \in Nat |-> beg[j] - d]
  <2>1. \A j \in Nat : beg[j] - d \in Int
    OBVIOUS
  <2>2. QED
    BY <2>1, Zenon
<1>2. \A j \in Nat : new[j] = beg[j] - d /\ beg[j] \in Int
  BY <1>1
<1>3. Adjacent(new, s)
  <2> SUFFICES ASSUME NEW j \in 1..Len(s)
               PROVE  new[j + 1] = new[j] + 2 + Len(s[j])
    BY DEF Adjacent
  <2>1. j \in Nat /\ j + 1 \in Nat
    BY RecordFacts
  <2>2. PICK l \in Nat : l = Len(s[j])
    BY RecordFacts
  <2>3. beg[j + 1] = beg[j] + 2 + l
    BY <2>2 DEF Offsets, Adjacent
  <2>4. /\ beg[j] \in Int /\ beg[j + 1] \in Int /\ d \in Int /\ l \in Int
    BY <1>2, <2>1
  <2>5. new[j] = beg[j] - d /\ new[j + 1] = beg[j + 1] - d
    BY <1>2, <2>1, Zenon
  <2>6. beg[j + 1] - d = (beg[j] - d) + 2 + l
    <3>1. (beg[j] + 2 + l) - d = (beg[j] - d) + 2 + l
      <4>1. \A a \in Int : (a + 2 + l) - d = (a - d) + 2 + l
        BY <2>4, Shift
      <4>2. QED
        BY <2>4, <4>1, Zenon
    <3>2. QED
      BY <2>3, <3>1, Zenon
  <2>7. QED
    BY <2>2, <2>5, <2>6, Zenon
<1>4. Ordered(new, s)
  <2> SUFFICES ASSUME NEW i \in 1..(Len(s) + 1), NEW j \in 1..(Len(s) + 1), i <= j
               PROVE  new[i] <= new[j]
    BY DEF Ordered
  <2>1. i \in Nat /\ j \in Nat /\ beg[i] <= beg[j]
    BY RecordFacts DEF Offsets, Ordered
  <2>2. QED
    BY <1>2, <2>1
<1>5. ASSUME NEW i \in 1..Len(v)
      PROVE  \E j \in 1..Len(s) :
                i - new[j] \in DOMAIN Frame(s[j]) /\ v[i] = Frame(s[j])[i - new[j]]
  <2>1. PICK m \in 1..Len(w) : m = d + i /\ v[i] = w[m]
    <3>1. v \in Seq(Int) /\ Len(w) = d + Len(v) /\ v[i] = w[d + i]
      BY DEF Rest
    <3>2. d + i \in 1..(d + Len(v))
      BY <3>1
    <3>3. QED
      BY <3>1, <3>2, Zenon
  <2>2. PICK j \in 1..Len(s) :
           m - beg[j] \in DOMAIN Frame(s[j]) /\ w[m] = Frame(s[j])[m - beg[j]]
    BY <2>1 DEF Carries
  <2>3. j \in Nat
    BY <2>2, RecordFacts
  <2>4. m - beg[j] = i - new[j]
    <3>1. \A b \in Int : (d + i) - b = i - (b - d)
      BY Nat \subseteq Int
    <3>2. new[j] = beg[j] - d /\ beg[j] \in Int
      BY <1>2, <2>3, Zenon
    <3>3. QED
      BY <2>1, <3>1, <3>2, Zenon
  <2>5. QED
    BY <2>1, <2>2, <2>4
<1>6. QED
  BY <1>2, <1>3, <1>4, <1>5 DEF Offsets, Carries, Shifted

(* The stream is cut off.                                                  *)
LEMMA CutCarries ==
  ASSUME NEW s \in Records, NEW beg \in [Nat -> Int], NEW w \in Seq(Int), NEW n \in 0..Len(w),
         Carries(beg, w, s)
  PROVE  Carries(beg, SubSeq(w, 1, n), s)
<1>1. Len(SubSeq(w, 1, n)) = n
  OBVIOUS
<1>2. \A i \in 1..n : SubSeq(w, 1, n)[i] = w[i]
  OBVIOUS
<1>3. \A i \in 1..n : i \in 1..Len(w)
  OBVIOUS
<1>4. QED
  BY <1>1, <1>2, <1>3 DEF Carries

-----------------------------------------------------------------------------
(* One direction of the connection: s was sent, w is under way, k records  *)
(* were received, c says whether the connection is closed.                 *)

(* Nothing will come any more.                                             *)
Dead(w, c) == c = TRUE /\ w = <<>>

(* Recv stands at `at`, with n in its field len and h in hdr: before the   *)
(* next record, behind one byte of its header, or behind all of it.        *)
Current(beg, s, k, d) == k + 1 \in 1..Len(s) /\ beg[k + 1] = 0 - d
Byte1(s, k, h) == h[1] = BigEndian(Len(s[k + 1]))[1]
Byte2(s, k, h) == h[2] = BigEndian(Len(s[k + 1]))[2]
Reading(beg, s, w, k, c, at, n, h) ==
    /\ k \in 0..Len(s)
    /\ at = "idle" \/ (at = "header" /\ n = 0) => Dead(w, c) \/ beg[k + 1] = 0
    /\ at = "header" => n \in {0, 1}
    /\ at = "header" /\ n = 1 => Current(beg, s, k, 1) /\ Byte1(s, k, h)
    /\ at = "decode" => Current(beg, s, k, 2) /\ Byte1(s, k, h) /\ Byte2(s, k, h)
    /\ at = "body" => Current(beg, s, k, 2) /\ n = Len(s[k + 1])

(* Send stands at `at` with record r and h in hdr: what it has still to    *)
(* write belongs where the bytes under way end.                            *)
Writing(beg, s, w, c, at, r, h) ==
    /\ at # "idle" => Len(s) \in 1..Len(s) /\ r = s[Len(s)]
    /\ at = "header" => h = BigEndian(Len(r))
    /\ c = FALSE =>
        /\ at = "idle" => Len(w) = beg[Len(s) + 1]
        /\ at \in {"put", "header"} => Len(w) = beg[Len(s)]
        /\ at = "body" => Len(w) = beg[Len(s)] + 2

Flow(beg, s, w) == beg \in [Nat -> Int] /\ Offsets(beg, s) /\ Carries(beg, w, s)

(* Send is called.                                                         *)
LEMMA SendFlow ==
  ASSUME NEW s \in Records, NEW x \in Seq(Int), NEW w \in Seq(Int), NEW beg, Flow(beg, s, w),
         NEW k, NEW c, NEW at, NEW n, NEW h, Reading(beg, s, w, k, c, at, n, h),
         NEW r, NEW g, Writing(beg, s, w, c, "idle", r, g)
  PROVE  \E new : /\ Flow(new, Append(s, x), w)
                  /\ Reading(new, Append(s, x), w, k, c, at, n, h)
                  /\ Writing(new, Append(s, x), w, c, "put", x, g)
<1>1. beg \in [Nat -> Int] /\ Offsets(beg, s) /\ Carries(beg, w, s)
  BY DEF Flow
<1>2. PICK new \in [Nat -> Int] : /\ Offsets(new, Append(s, x))
                                  /\ \A j \in 1..(Len(s) + 1) : new[j] = beg[j]
  BY <1>1, SendOffsets
<1>3. Carries(new, w, Append(s, x))
  BY <1>1, <1>2, SendCarries
<1> DEFINE t == Append(s, x)
<1>4. /\ t \in Records /\ Len(t) = Len(s) + 1 /\ t[Len(s) + 1] = x
      /\ \A j \in 1..Len(s) : t[j] = s[j]
  BY AppendFacts
<1> HIDE DEF t
<1>5. Len(s) \in Nat
  BY RecordFacts
<1>6. k \in 0..Len(s)
  BY DEF Reading
<1>7. k \in 0..Len(t) /\ k + 1 \in 1..(Len(s) + 1) /\ Len(t) \in 1..Len(t)
  BY <1>4, <1>5, <1>6, Onward
<1>8. new[k + 1] = beg[k + 1]
  BY <1>2, <1>7, Zenon
<1>9. k + 1 \in 1..Len(s) => k + 1 \in 1..Len(t) /\ t[k + 1] = s[k + 1]
  BY <1>4, <1>5, IndexFacts, Zenon
<1>10. \A d : Current(beg, s, k, d) => Current(new, t, k, d) /\ t[k + 1] = s[k + 1]
  BY <1>8, <1>9, Zenon DEF Current
<1>11. Reading(new, t, w, k, c, at, n, h)
  BY <1>7, <1>8, <1>10, Zenon DEF Reading, Byte1, Byte2
<1>12. c = FALSE => Len(w) = new[Len(t)]
  <2>1. c = FALSE => Len(w) = beg[Len(s) + 1]
    BY DEF Writing
  <2>2. Len(s) + 1 \in 1..(Len(s) + 1)
    BY <1>5
  <2>3. QED
    BY <1>2, <1>4, <2>1, <2>2, Zenon
<1>13. x = t[Len(t)]
  BY <1>4, Zenon
<1>14. Writing(new, t, w, c, "put", x, g)
  BY <1>7, <1>12, <1>13 DEF Writing
<1>15. QED
  BY <1>2, <1>3, <1>11, <1>14 DEF Flow, t

(* v is what follows the first d bytes in the frame of the last record,    *)
(* and the others are already under way.                                   *)
Continues(beg, s, w, v, d) ==
    /\ Len(s) \in 1..Len(s) /\ Len(w) = beg[Len(s)] + d
    /\ d + Len(v) <= Len(Frame(s[Len(s)]))
    /\ \A i \in 1..Len(v) : v[i] = Frame(s[Len(s)])[d + i]

(* Bytes are written at the end; whoever reads sees only more of them.     *)
LEMMA WriteFlow ==
  ASSUME NEW s \in Records, NEW w \in Seq(Int), NEW v \in Seq(Int), NEW beg, Flow(beg, s, w),
         NEW k, NEW at, NEW n, NEW h, Reading(beg, s, w, k, FALSE, at, n, h),
         NEW d \in Nat, Continues(beg, s, w, v, d)
  PROVE  Flow(beg, s, w \o v) /\ Reading(beg, s, w \o v, k, FALSE, at, n, h)
<1>1. beg \in [Nat -> Int] /\ Offsets(beg, s) /\ Carries(beg, w, s)
  BY DEF Flow
<1>2. Carries(beg, w \o v, s)
  BY <1>1, WriteCarries DEF Continues
<1>3. Reading(beg, s, w \o v, k, FALSE, at, n, h)
  BY DEF Reading, Dead
<1>4. QED
  BY <1>1, <1>2, <1>3, Zenon DEF Flow

(* Bytes are read at the front.                                            *)
LEMMA ReadFlow ==
  ASSUME NEW s \in Records, NEW w \in Seq(Int), NEW v, NEW beg, Flow(beg, s, w),
         NEW d \in Nat, Rest(w, v, d),
         NEW c, NEW at, NEW r, NEW g, Writing(beg, s, w, c, at, r, g)
  PROVE  \E new : /\ Flow(new, s, v) /\ Writing(new, s, v, c, at, r, g)
                  /\ Shifted(new, beg, d)
<1>1. beg \in [Nat -> Int] /\ Offsets(beg, s) /\ Carries(beg, w, s)
  BY DEF Flow
<1>0. v \in Seq(Int) /\ Len(w) = d + Len(v) /\ \A i \in 1..Len(v) : v[i] = w[d + i]
  BY DEF Rest
<1>2. PICK new \in [Nat -> Int] :
         Offsets(new, s) /\ Carries(new, v, s) /\ Shifted(new, beg, d)
  BY <1>1, ReadOffsets, Zenon
<1>3. Len(s) \in Nat /\ Len(s) + 1 \in Nat /\ Len(v) \in Int /\ Len(w) \in Int /\ d \in Int
  BY <1>0, RecordFacts, LenNat
<1>4. /\ new[Len(s)] = beg[Len(s)] - d /\ new[Len(s) + 1] = beg[Len(s) + 1] - d
      /\ beg[Len(s)] \in Int /\ beg[Len(s) + 1] \in Int
  BY <1>1, <1>2, <1>3 DEF Shifted
<1>5. /\ Len(w) = beg[Len(s) + 1] => Len(v) = new[Len(s) + 1]
      /\ Len(w) = beg[Len(s)] => Len(v) = new[Len(s)]
      /\ Len(w) = beg[Len(s)] + 2 => Len(v) = new[Len(s)] + 2
  <2>1. beg[Len(s)] \in Int /\ beg[Len(s) + 1] \in Int
    BY <1>4
  <2>2. \A b \in Int : d + Len(v) = b => Len(v) = b - d
    BY <1>3, Reduced
  <2>3. \A b \in Int : d + Len(v) = b + 2 => Len(v) = (b - d) + 2
    BY <1>3, Reduced
  <2>4. /\ d + Len(v) = beg[Len(s) + 1] => Len(v) = beg[Len(s) + 1] - d
        /\ d + Len(v) = beg[Len(s)] => Len(v) = beg[Len(s)] - d
    BY <2>1, <2>2, Zenon
  <2>5. d + Len(v) = beg[Len(s)] + 2 => Len(v) = (beg[Len(s)] - d) + 2
    BY <2>1, <2>3, Zenon
  <2>6. QED
    BY <1>0, <1>4, <2>4, <2>5, Zenon
<1>6. Writing(new, s, v, c, at, r, g)
  BY <1>5, Zenon DEF Writing
<1>7. QED
  BY <1>2, <1>6 DEF Flow

LEMMA FirstByte ==
  ASSUME NEW w \in Seq(Int), w # <<>>
  PROVE  /\ 1 \in 1..Len(w) /\ Head(w) = w[1] /\ Tail(w) \in Seq(Int)
         /\ Len(w) = 1 + Len(Tail(w)) /\ \A i \in 1..Len(Tail(w)) : Tail(w)[i] = w[1 + i]
<1>1. 1 \in 1..Len(w) /\ Head(w) = w[1] /\ Tail(w) \in Seq(Int) /\ Len(w) = 1 + Len(Tail(w))
  OBVIOUS
<1>2. \A i \in 1..Len(Tail(w)) : Tail(w)[i] = w[i + 1]
  OBVIOUS
<1>3. \A i \in 1..Len(Tail(w)) : i + 1 = 1 + i
  OBVIOUS
<1>4. QED
  BY <1>1, <1>2, <1>3

(* Where the k-th frame ends.                                              *)
LEMMA FrameEnd ==
  ASSUME NEW s \in Records, NEW w, NEW beg, Flow(beg, s, w), NEW k \in 1..Len(s)
  PROVE  /\ beg[k] \in Int /\ beg[k + 1] \in Int
         /\ s[k] \in Seq(Int) /\ Len(s[k]) \in Nat /\ beg[k + 1] = beg[k] + 2 + Len(s[k])
<1>1. Len(s) \in Nat
  BY RecordFacts
<1>2. k \in Nat /\ k + 1 \in Nat
  BY <1>1, IndexFacts, Zenon
<1>3. QED
  BY <1>2, RecordFacts DEF Flow, Offsets, Adjacent

(* The next byte of the header is the one that was sent.                   *)
LEMMA HeaderByte ==
  ASSUME NEW s \in Records, NEW w \in Seq(Int), NEW beg, Flow(beg, s, w), w # <<>>,
         NEW k \in 0..Len(s), NEW n \in {0, 1}, beg[k + 1] = 0 - n
  PROVE  k + 1 \in 1..Len(s) /\ w[1] = BigEndian(Len(s[k + 1]))[1 + n]
<1>1. Len(s) \in Nat
  BY RecordFacts
<1>2. k + 1 \in 1..(Len(s) + 1)
  BY <1>1, Onward, Zenon
<1>3. 1 \in 1..Len(w)
  BY FirstByte
<1>4. beg[k + 1] < 1
  OBVIOUS
<1>5. /\ k + 1 \in 1..Len(s)
      /\ 1 <= beg[(k + 1) + 1] => w[1] = Frame(s[k + 1])[1 - beg[k + 1]]
  <2>1. beg \in [Nat -> Int] /\ Offsets(beg, s) /\ Carries(beg, w, s)
    BY DEF Flow
  <2>2. QED
    BY <1>2, <1>3, <1>4, <2>1, Located, Zenon
<1>6. 1 <= beg[(k + 1) + 1]
  <2>1. beg[(k + 1) + 1] = beg[k + 1] + 2 + Len(s[k + 1]) /\ Len(s[k + 1]) \in Nat
    BY <1>5, FrameEnd, Zenon
  <2>2. PICK l \in Nat : l = Len(s[k + 1])
    BY <2>1
  <2>3. 1 <= (0 - n) + 2 + l
    OBVIOUS
  <2>4. QED
    BY <2>1, <2>2, <2>3, Zenon
<1>7. 1 - (0 - n) = 1 + n /\ 1 + n \in 1..2
  OBVIOUS
<1>8. s[k + 1] \in Seq(Int)
  BY <1>5, FrameEnd, Zenon
<1>9. Frame(s[k + 1])[1 + n] = BigEndian(Len(s[k + 1]))[1 + n]
  BY <1>7, <1>8, FrameFacts, Zenon
<1>10. w[1] = Frame(s[k + 1])[1 + n]
  BY <1>5, <1>6, <1>7, Zenon
<1>11. QED
  BY <1>5, <1>9, <1>10, Zenon

LEMMA HeaderFlow ==
  ASSUME NEW s \in Records, NEW w \in Seq(Int), NEW beg, Flow(beg, s, w), w # <<>>,
         NEW k, NEW c, NEW n, NEW h \in [1..2 -> Int], Reading(beg, s, w, k, c, "header", n, h),
         NEW at, NEW r, NEW g, Writing(beg, s, w, c, at, r, g)
  PROVE  \E new : /\ Flow(new, s, Tail(w)) /\ Writing(new, s, Tail(w), c, at, r, g)
                  /\ Reading(new, s, Tail(w), k, c, IF n + 1 = 2 THEN "decode" ELSE "header",
                             (n + 1) % 2, [h EXCEPT ![n + 1] = Head(w)])
<1>1. k \in 0..Len(s) /\ n \in {0, 1}
  BY DEF Reading
<1>2. beg[k + 1] = 0 - n
  BY <1>1 DEF Reading, Dead, Current
<1>3. k + 1 \in 1..Len(s) /\ w[1] = BigEndian(Len(s[k + 1]))[1 + n]
  BY <1>1, <1>2, HeaderByte, ZenonT(30)
<1>4. PICK new : /\ Flow(new, s, Tail(w)) /\ Writing(new, s, Tail(w), c, at, r, g)
                 /\ Shifted(new, beg, 1)
  <2>1. Rest(w, Tail(w), 1) /\ 1 \in Nat
    BY FirstByte DEF Rest
  <2>2. QED
    BY <2>1, ReadFlow, Zenon
<1>5. new[k + 1] = 0 - (n + 1)
  <2>1. k + 1 \in Nat
    BY <1>1, RecordFacts
  <2>2. (0 - n) - 1 = 0 - (n + 1)
    BY <1>1
  <2>3. QED
    BY <1>2, <1>4, <2>1, <2>2, Zenon DEF Shifted
<1> DEFINE f == [h EXCEPT ![n + 1] = Head(w)]
<1>6. CASE n = 0
  <2>1. (n + 1) % 2 = 1 /\ n + 1 = 1 /\ 1 + n = 1 /\ n + 1 # 2 /\ f[1] = Head(w)
    BY <1>6
  <2>2. Current(new, s, k, 1) /\ Byte1(s, k, f)
    BY <1>3, <1>5, <2>1, FirstByte, Zenon DEF Current, Byte1
  <2> HIDE DEF f
  <2>3. Reading(new, s, Tail(w), k, c, "header", 1, f)
    BY <1>1, <2>2 DEF Reading
  <2>4. QED
    BY <1>4, <2>1, <2>3, Zenon DEF f
<1>7. CASE n = 1
  <2>1. n + 1 = 2 /\ 1 + n = 2 /\ f[2] = Head(w) /\ f[1] = h[1]
    BY <1>7
  <2>2. Byte1(s, k, h)
    BY <1>7 DEF Reading
  <2>3. Current(new, s, k, 2) /\ Byte1(s, k, f) /\ Byte2(s, k, f)
    BY <1>3, <1>5, <2>1, <2>2, FirstByte, Zenon DEF Current, Byte1, Byte2
  <2> HIDE DEF f
  <2>4. Reading(new, s, Tail(w), k, c, "decode", (n + 1) % 2, f)
    BY <1>1, <2>3 DEF Reading
  <2>5. QED
    BY <1>4, <2>1, <2>4, Zenon DEF f
<1>8. QED
  BY <1>1, <1>6, <1>7

(* The length that was sent is the length that is decoded.                 *)
LEMMA DecodeFlow ==
  ASSUME NEW s \in Records, NEW w, NEW beg, NEW k, NEW c, NEW n, NEW h,
         Reading(beg, s, w, k, c, "decode", n, h)
  PROVE  Reading(beg, s, w, k, c, "body", Decode(h), h)
<1>1. Current(beg, s, k, 2) /\ Byte1(s, k, h) /\ Byte2(s, k, h) /\ k \in 0..Len(s)
  BY DEF Reading
<1>2. Len(s[k + 1]) \in Nat
  BY <1>1, RecordFacts DEF Current
<1>3. Decode(h) = Decode(BigEndian(Len(s[k + 1])))
  BY <1>1, Zenon DEF Byte1, Byte2, Decode
<1>4. Decode(h) = Len(s[k + 1])
  BY <1>2, <1>3, Coded, Zenon
<1>5. QED
  BY <1>1, <1>4 DEF Reading

LEMMA SubSeqFacts ==
  ASSUME NEW w \in Seq(Int), NEW n \in 0..Len(w)
  PROVE  /\ SubSeq(w, 1, n) \in Seq(Int) /\ Len(SubSeq(w, 1, n)) = n
         /\ \A i \in 1..n : SubSeq(w, 1, n)[i] = w[i] /\ i \in 1..Len(w)
         /\ SubSeq(w, n + 1, Len(w)) \in Seq(Int)
         /\ Len(w) = n + Len(SubSeq(w, n + 1, Len(w)))
         /\ \A i \in 1..Len(SubSeq(w, n + 1, Len(w))) : SubSeq(w, n + 1, Len(w))[i] = w[n + i]
<1>1. SubSeq(w, 1, n) \in Seq(Int) /\ Len(SubSeq(w, 1, n)) = n
  OBVIOUS
<1>2. \A i \in 1..n : SubSeq(w, 1, n)[i] = w[i] /\ i \in 1..Len(w)
  OBVIOUS
<1>3. SubSeq(w, n + 1, Len(w)) \in Seq(Int)
  OBVIOUS
<1>4. Len(w) = n + Len(SubSeq(w, n + 1, Len(w)))
  OBVIOUS
<1>5. \A i \in 1..Len(SubSeq(w, n + 1, Len(w))) : SubSeq(w, n + 1, Len(w))[i] = w[n + i]
  OBVIOUS
<1>6. QED
  BY <1>1, <1>2, <1>3, <1>4, <1>5

LEMMA EqualSeqs ==
  ASSUME NEW v \in Seq(Int), NEW u \in Seq(Int), Len(v) = Len(u),
         \A i \in 1..Len(u) : v[i] = u[i]
  PROVE  v = u
OBVIOUS

(* The bytes behind a header that was read are the record, and the next    *)
(* record begins behind them.                                              *)
LEMMA BodyFlow ==
  ASSUME NEW s \in Records, NEW w \in Seq(Int), NEW beg, Flow(beg, s, w),
         NEW k, NEW c, NEW n, NEW h, Reading(beg, s, w, k, c, "body", n, h), n <= Len(w),
         NEW at, NEW r, NEW g, Writing(beg, s, w, c, at, r, g)
  PROVE  /\ k + 1 \in 1..Len(s) /\ SubSeq(w, 1, n) = s[k + 1] /\ n \in 0..Len(w)
         /\ \E new : /\ Flow(new, s, SubSeq(w, n + 1, Len(w)))
                     /\ Writing(new, s, SubSeq(w, n + 1, Len(w)), c, at, r, g)
                     /\ Reading(new, s, SubSeq(w, n + 1, Len(w)), k + 1, c, "idle", 0, h)
<1>1. k \in 0..Len(s) /\ k + 1 \in 1..Len(s) /\ beg[k + 1] = 0 - 2 /\ n = Len(s[k + 1])
  BY DEF Reading, Current
<1>2. Len(s) \in Nat /\ Len(w) \in Nat
  BY RecordFacts, LenNat
<1>3. k + 1 \in 1..(Len(s) + 1) /\ k + 1 \in Nat /\ (k + 1) + 1 \in Nat
  BY <1>1, <1>2, IndexFacts, Zenon
<1>4. /\ s[k + 1] \in Seq(Int) /\ Len(s[k + 1]) \in Nat
      /\ beg[(k + 1) + 1] = beg[k + 1] + 2 + Len(s[k + 1])
  BY <1>1, FrameEnd, Zenon
<1>5. n \in Nat /\ beg[(k + 1) + 1] = (0 - 2) + 2 + n
  BY <1>1, <1>4, Zenon
<1>6. beg[(k + 1) + 1] = n
  BY <1>5
<1>7. n \in 0..Len(w)
  BY <1>2, <1>5
<1>8. SubSeq(w, 1, n) = s[k + 1]
  <2>1. ASSUME NEW i \in 1..n
        PROVE  SubSeq(w, 1, n)[i] = s[k + 1][i]
    <3>1. SubSeq(w, 1, n)[i] = w[i] /\ i \in 1..Len(w)
      BY <1>7, SubSeqFacts, Zenon
    <3>2. 0 - 2 < i /\ i <= n
      BY <1>5
    <3>3. beg[k + 1] < i /\ i <= beg[(k + 1) + 1]
      BY <1>1, <1>6, <3>2, Zenon
    <3>4. w[i] = Frame(s[k + 1])[i - beg[k + 1]]
      <4>1. beg \in [Nat -> Int] /\ Offsets(beg, s) /\ Carries(beg, w, s)
        BY DEF Flow
      <4>2. QED
        BY <1>3, <3>1, <3>3, <4>1, Located, Zenon
    <3>5. i - (0 - 2) = 2 + i
      BY <1>5
    <3>6. Frame(s[k + 1])[2 + i] = s[k + 1][i]
      BY <1>1, <1>4, FrameFacts, Zenon
    <3>7. QED
      BY <1>1, <3>1, <3>4, <3>5, <3>6, Zenon
  <2>2. SubSeq(w, 1, n) \in Seq(Int) /\ Len(SubSeq(w, 1, n)) = Len(s[k + 1])
    BY <1>1, <1>7, SubSeqFacts, Zenon
  <2>3. QED
    BY <1>1, <1>4, <2>1, <2>2, EqualSeqs, Zenon
<1> DEFINE v == SubSeq(w, n + 1, Len(w))
<1>9. Rest(w, v, n)
  BY <1>7, SubSeqFacts, Zenon DEF Rest
<1> HIDE DEF v
<1>10. PICK new : /\ Flow(new, s, v) /\ Writing(new, s, v, c, at, r, g)
                  /\ Shifted(new, beg, n)
  BY <1>5, <1>9, ReadFlow, Zenon
<1>11. new[(k + 1) + 1] = 0
  <2>1. n - n = 0
    BY <1>5
  <2>2. QED
    BY <1>3, <1>6, <1>10, <2>1, Zenon DEF Shifted
<1>12. Reading(new, s, v, k + 1, c, "idle", 0, h)
  <2>1. k + 1 \in 0..Len(s)
    BY <1>1, <1>2
  <2>2. QED
    BY <1>11, <2>1 DEF Reading
<1>13. QED
  BY <1>1, <1>7, <1>8, <1>10, <1>12, Zenon DEF v

(* The stream is cut off by one of the ends.                               *)
LEMMA CutFlow ==
  ASSUME NEW s \in Records, NEW w \in Seq(Int), NEW beg, Flow(beg, s, w), NEW m \in 0..Len(w),
         NEW k, NEW at, NEW n, NEW h, Reading(beg, s, w, k, FALSE, at, n, h),
         NEW to, NEW r, NEW g, Writing(beg, s, w, FALSE, to, r, g)
  PROVE  /\ Flow(beg, s, SubSeq(w, 1, m))
         /\ Reading(beg, s, SubSeq(w, 1, m), k, TRUE, at, n, h)
         /\ Writing(beg, s, SubSeq(w, 1, m), TRUE, to, r, g)
<1>1. Flow(beg, s, SubSeq(w, 1, m))
  BY CutCarries DEF Flow
<1>2. Reading(beg, s, SubSeq(w, 1, m), k, TRUE, at, n, h)
  BY DEF Reading, Dead
<1>3. Writing(beg, s, SubSeq(w, 1, m), TRUE, to, r, g)
  BY DEF Writing
<1>4. QED
  BY <1>1, <1>2, <1>3

(* Nothing is under way any more.                                          *)
LEMMA EndFlow ==
  ASSUME NEW s, NEW w, NEW beg, Flow(beg, s, w),
         NEW k, NEW c, NEW at, NEW n, NEW h, Reading(beg, s, w, k, c, at, n, h),
         NEW to, NEW r, NEW g, Writing(beg, s, w, c, to, r, g)
  PROVE  /\ Flow(beg, s, <<>>) /\ Reading(beg, s, <<>>, k, TRUE, "idle", 0, h)
         /\ Writing(beg, s, <<>>, TRUE, to, r, g)
<1>1. Flow(beg, s, <<>>)
  BY DEF Flow, Carries
<1>2. Reading(beg, s, <<>>, k, TRUE, "idle", 0, h)
  BY DEF Reading, Dead
<1>3. Writing(beg, s, <<>>, TRUE, to, r, g)
  BY DEF Writing
<1>4. QED
  BY <1>1, <1>2, <1>3

-----------------------------------------------------------------------------
(* The connection                                                          *)

TxState == [at : {"idle", "put", "header", "body"}, rec : Seq(Int), len : Int]
RxState == [at : {"idle", "header", "decode", "body"}, rec : Seq(Int), len : Int]
USE DEF TxState, RxState

StreamTypes ==
    /\ wire \in [Ends -> Seq(Int)] /\ closed \in [Ends -> BOOLEAN]
    /\ hdr \in [Ends -> [1..2 -> Int]]
    /\ tx \in [Ends -> TxState]
    /\ rx \in [Ends -> RxState]
    /\ sent \in [Ends -> Records] /\ received \in [Ends -> Records]

(* What is under way to one end fits what it read and what the other wrote. *)
Direction(e) ==
    \E beg :
        /\ Flow(beg, sent[Peer(e)], wire[e])
        /\ Reading(beg, sent[Peer(e)], wire[e], Len(received[e]), closed[e],
                   rx[e].at, rx[e].len, hdr[e])
        /\ Writing(beg, sent[Peer(e)], wire[e], closed[e],
                   tx[Peer(e)].at, tx[Peer(e)].rec, hdr[Peer(e)])

StreamInv ==
    /\ StreamTypes
    /\ \A e \in Ends : tx[e].at = "idle" \/ rx[e].at = "idle"
    /\ \A e, f \in Ends : closed[e] = closed[f]
    /\ \A e \in Ends : Direction(e)

LEMMA PeerFacts ==
  ASSUME NEW e \in Ends
  PROVE  /\ Peer(e) \in Ends /\ Peer(e) # e /\ Peer(Peer(e)) = e
         /\ \A f \in Ends : f = e \/ f = Peer(e)
BY DEF Ends, Peer

LEMMA HeaderFacts ==
  ASSUME NEW h \in [1..2 -> Int]
  PROVE  h \in Seq(Int) /\ Len(h) = 2
<1>1. h \in Seq(Int)
  BY SeqDef
<1>2. DOMAIN h = 1..2
  OBVIOUS
<1>3. Len(h) \in Nat /\ DOMAIN h = 1..Len(h)
  BY <1>1, LenProperties
<1>4. QED
  BY <1>1, <1>2, <1>3

LEMMA CodeTyped ==
  ASSUME NEW n \in Nat
  PROVE  BigEndian(n) \in [1..2 -> Int]
BY StreamAssumption DEF BigEndian

LEMMA RecordTyped == Record \subseteq Seq(Int)
<1>1. Byte \subseteq Int
  BY StreamAssumption DEF Byte
<1>2. Seq(Byte) \subseteq Seq(Int)
  BY <1>1, SeqMonotonic
<1>3. QED
  BY <1>2, StreamAssumption

LEMMA StreamInvInit == StreamInit => StreamInv
<1> SUFFICES ASSUME StreamInit
             PROVE  StreamInv
  OBVIOUS
<1>1. <<>> \in Seq(Int) /\ <<>> \in Records /\ Len(<<>>) = 0
  BY DEF Records
<1>2. <<0, 0>> \in [1..2 -> Int]
  OBVIOUS
<1>3. StreamTypes
  BY <1>1, <1>2 DEF StreamInit, StreamTypes, Idle
<1>4. ASSUME NEW e \in Ends
      PROVE  Direction(e)
  <2> DEFINE beg == [j \in Nat |-> 0]
  <2>1. beg \in [Nat -> Int] /\ beg[1] = 0
    OBVIOUS
  <2>2. beg[0 + 1] = 0
    BY <2>1
  <2> HIDE DEF beg
  <2>3. Flow(beg, <<>>, <<>>)
    BY <2>1 DEF Flow, Offsets, Adjacent, Ordered, Carries
  <2>4. Reading(beg, <<>>, <<>>, 0, FALSE, "idle", 0, <<0, 0>>)
    BY <2>2 DEF Reading
  <2>5. Writing(beg, <<>>, <<>>, FALSE, "idle", <<>>, <<0, 0>>)
    BY <1>1, <2>2 DEF Writing
  <2>6. /\ Peer(e) \in Ends /\ sent[Peer(e)] = <<>> /\ wire[e] = <<>> /\ received[e] = <<>>
        /\ closed[e] = FALSE /\ rx[e] = Idle /\ tx[Peer(e)] = Idle
        /\ hdr[e] = <<0, 0>> /\ hdr[Peer(e)] = <<0, 0>>
    BY PeerFacts DEF StreamInit
  <2>7. Idle.at = "idle" /\ Idle.len = 0 /\ Idle.rec = <<>>
    BY DEF Idle
  <2>8. Len(received[e]) = 0
    BY <1>1, <2>6, Zenon
  <2>9. QED
    BY <2>3, <2>4, <2>5, <2>6, <2>7, <2>8, Zenon DEF Direction
<1>5. QED
  BY <1>3, <1>4 DEF StreamInv, StreamInit, Idle

(* Who is not inside Recv does not look at hdr, and who is not inside Send *)
(* does not either.                                                        *)
LEMMA IdleReading ==
  ASSUME NEW beg, NEW s, NEW w, NEW k, NEW c, NEW n, NEW h, NEW g,
         Reading(beg, s, w, k, c, "idle", n, h)
  PROVE  Reading(beg, s, w, k, c, "idle", n, g)
BY DEF Reading

LEMMA IdleWriting ==
  ASSUME NEW beg, NEW s, NEW w, NEW c, NEW r, NEW h, NEW g,
         Writing(beg, s, w, c, "idle", r, h)
  PROVE  Writing(beg, s, w, c, "idle", r, g)
BY DEF Writing

(* The same, seen from the end that sends.                                 *)
Outward(e) ==
    \E beg :
        /\ Flow(beg, sent[e], wire[Peer(e)])
        /\ Reading(beg, sent[e], wire[Peer(e)], Len(received[Peer(e)]), closed[Peer(e)],
                   rx[Peer(e)].at, rx[Peer(e)].len, hdr[Peer(e)])
        /\ Writing(beg, sent[e], wire[Peer(e)], closed[Peer(e)], tx[e].at, tx[e].rec, hdr[e])

LEMMA BothWays ==
  ASSUME NEW e \in Ends
  PROVE  /\ Direction(Peer(e)) <=> Outward(e)
         /\ Direction(Peer(e))' <=> Outward(e)'
BY PeerFacts, Zenon DEF Direction, Outward

(* What there is at one end.                                               *)
LEMMA EndTypes ==
  ASSUME StreamTypes, NEW e \in Ends
  PROVE  /\ wire[e] \in Seq(Int) /\ closed[e] \in BOOLEAN /\ hdr[e] \in [1..2 -> Int]
         /\ sent[e] \in Records /\ received[e] \in Records
         /\ tx[e].rec \in Seq(Int) /\ rx[e].len \in Int
BY DEF StreamTypes

(* A direction in which nothing happens.                                   *)
LEMMA SameDirection ==
  ASSUME NEW e \in Ends, Direction(e),
         sent'[Peer(e)] = sent[Peer(e)], wire'[e] = wire[e], received'[e] = received[e],
         closed'[e] = closed[e], rx'[e] = rx[e], tx'[Peer(e)] = tx[Peer(e)],
         hdr'[e] = hdr[e] \/ rx[e].at = "idle",
         hdr'[Peer(e)] = hdr[Peer(e)] \/ tx[Peer(e)].at = "idle"
  PROVE  Direction(e)'
<1>1. PICK beg :
        /\ Flow(beg, sent[Peer(e)], wire[e])
        /\ Reading(beg, sent[Peer(e)], wire[e], Len(received[e]), closed[e],
                   rx[e].at, rx[e].len, hdr[e])
        /\ Writing(beg, sent[Peer(e)], wire[e], closed[e],
                   tx[Peer(e)].at, tx[Peer(e)].rec, hdr[Peer(e)])
  BY DEF Direction
<1>2. Reading(beg, sent[Peer(e)], wire[e], Len(received[e]), closed[e],
              rx[e].at, rx[e].len, hdr'[e])
  BY <1>1, IdleReading, Zenon
<1>3. Writing(beg, sent[Peer(e)], wire[e], closed[e],
              tx[Peer(e)].at, tx[Peer(e)].rec, hdr'[Peer(e)])
  BY <1>1, IdleWriting, Zenon
<1>4. QED
  BY <1>1, <1>2, <1>3, Zenon DEF Direction

LEMMA Sides ==
  ASSUME StreamInv, NEW e \in Ends
  PROVE  Direction(e) /\ Outward(e)
BY BothWays, PeerFacts, Zenon DEF StreamInv

LEMMA Halves ==
  ASSUME StreamTypes', \A f \in Ends : tx'[f].at = "idle" \/ rx'[f].at = "idle",
         \A f, g \in Ends : closed'[f] = closed'[g],
         NEW e \in Ends, Direction(e)', Outward(e)'
  PROVE  StreamInv'
<1>1. ASSUME NEW f \in Ends
      PROVE  Direction(f)'
  <2>1. CASE f = e
    BY <2>1
  <2>2. CASE f = Peer(e)
    BY <2>2, BothWays, Zenon
  <2>3. QED
    BY <2>1, <2>2, PeerFacts
<1>2. QED
  BY <1>1 DEF StreamInv

LEMMA SendBeginStep ==
  ASSUME ~FullDuplex, StreamInv, NEW e \in Ends, SendBegin(e)
  PROVE  StreamInv' /\ Channel!Send(e)
<1>1. PICK r \in Record :
        /\ tx' = [tx EXCEPT ![e] = [Idle EXCEPT !.at = "put", !.rec = r]]
        /\ sent' = [sent EXCEPT ![e] = Append(@, r)]
  BY DEF SendBegin
<1>2. /\ tx[e].at = "idle" /\ rx[e].at = "idle"
      /\ UNCHANGED <<wire, closed, hdr, rx, received>>
  BY DEF SendBegin, MayCall
<1>3. r \in Seq(Int)
  BY RecordTyped
<1>4. StreamTypes
  BY DEF StreamInv
<1>5. Append(sent[e], r) \in Records
  BY <1>3, <1>4, AppendFacts, EndTypes
<1>6. tx'[e] = [at |-> "put", rec |-> r, len |-> 0] /\ sent'[e] = Append(sent[e], r)
  BY <1>1, <1>4 DEF StreamTypes, Idle
<1>7. StreamTypes'
  <2>1. tx' = [tx EXCEPT ![e] = [at |-> "put", rec |-> r, len |-> 0]]
    <3>1. tx' = [tx EXCEPT ![e] = tx'[e]]
      BY <1>1, <1>4 DEF StreamTypes
    <3>2. QED
      BY <1>6, <3>1, Zenon
  <2>2. tx' \in [Ends -> TxState]
    BY <1>3, <1>4, <2>1 DEF StreamTypes
  <2>3. sent' \in [Ends -> Records]
    BY <1>1, <1>4, <1>5 DEF StreamTypes
  <2>4. QED
    BY <1>2, <1>4, <2>2, <2>3 DEF StreamTypes
<1>8. tx'[Peer(e)] = tx[Peer(e)] /\ sent'[Peer(e)] = sent[Peer(e)]
  BY <1>1, <1>4, PeerFacts DEF StreamTypes
<1>9. Direction(e)'
  BY <1>2, <1>8, SameDirection DEF StreamInv
<1>10. Outward(e)'
  <2>1. PICK beg :
          /\ Flow(beg, sent[e], wire[Peer(e)])
          /\ Reading(beg, sent[e], wire[Peer(e)], Len(received[Peer(e)]), closed[Peer(e)],
                     rx[Peer(e)].at, rx[Peer(e)].len, hdr[Peer(e)])
          /\ Writing(beg, sent[e], wire[Peer(e)], closed[Peer(e)], "idle", tx[e].rec, hdr[e])
    BY <1>2, Sides, Zenon DEF Outward
  <2>2. sent[e] \in Records /\ wire[Peer(e)] \in Seq(Int)
    BY <1>4, EndTypes, PeerFacts
  <2>3. PICK new :
          /\ Flow(new, Append(sent[e], r), wire[Peer(e)])
          /\ Reading(new, Append(sent[e], r), wire[Peer(e)], Len(received[Peer(e)]),
                     closed[Peer(e)], rx[Peer(e)].at, rx[Peer(e)].len, hdr[Peer(e)])
          /\ Writing(new, Append(sent[e], r), wire[Peer(e)], closed[Peer(e)], "put", r, hdr[e])
    BY <1>3, <2>1, <2>2, SendFlow, Zenon
  <2>4. tx'[e].at = "put" /\ tx'[e].rec = r
    BY <1>6
  <2>5. QED
    BY <1>2, <1>6, <2>3, <2>4, Zenon DEF Outward
<1>11. StreamInv'
  BY <1>2, <1>7, <1>8, <1>9, <1>10, Halves, PeerFacts DEF StreamInv
<1>12. Channel!Send(e)
  BY <1>1, <1>2 DEF Channel!Send
<1>13. QED
  BY <1>11, <1>12

(* The length goes into hdr; Recv does not look there now.                 *)
LEMMA PutStep ==
  ASSUME StreamInv, NEW e \in Ends, PutUint16(e)
  PROVE  StreamInv'
<1>1. /\ tx[e].at = "put" /\ rx[e].at = "idle"
      /\ hdr' = [hdr EXCEPT ![e] = BigEndian(Len(tx[e].rec))]
      /\ tx' = [tx EXCEPT ![e].at = "header"]
      /\ UNCHANGED <<wire, closed, rx, sent, received>>
  BY DEF PutUint16, StreamInv
<1>2. StreamTypes
  BY DEF StreamInv
<1>3. BigEndian(Len(tx[e].rec)) \in [1..2 -> Int]
  BY <1>2, EndTypes, LenNat, CodeTyped
<1>4. /\ hdr'[e] = BigEndian(Len(tx[e].rec)) /\ hdr'[Peer(e)] = hdr[Peer(e)]
      /\ tx'[e].at = "header" /\ tx'[e].rec = tx[e].rec /\ tx'[Peer(e)] = tx[Peer(e)]
  BY <1>1, <1>2, PeerFacts DEF StreamTypes
<1>5. StreamTypes'
  <2>1. tx' \in [Ends -> TxState]
    BY <1>1, <1>2 DEF StreamTypes
  <2>2. hdr' \in [Ends -> [1..2 -> Int]]
    BY <1>1, <1>2, <1>3 DEF StreamTypes
  <2>3. QED
    BY <1>1, <1>2, <2>1, <2>2 DEF StreamTypes
<1>6. Direction(e)'
  BY <1>1, <1>4, SameDirection DEF StreamInv
<1>7. Outward(e)'
  <2>1. PICK beg :
          /\ Flow(beg, sent[e], wire[Peer(e)])
          /\ Reading(beg, sent[e], wire[Peer(e)], Len(received[Peer(e)]), closed[Peer(e)],
                     rx[Peer(e)].at, rx[Peer(e)].len, hdr[Peer(e)])
          /\ Writing(beg, sent[e], wire[Peer(e)], closed[Peer(e)], "put", tx[e].rec, hdr[e])
    BY <1>1, Sides, Zenon DEF Outward
  <2>2. Writing(beg, sent[e], wire[Peer(e)], closed[Peer(e)], "header", tx[e].rec, hdr'[e])
    BY <1>4, <2>1 DEF Writing
  <2>3. QED
    BY <1>1, <1>4, <2>1, <2>2, Zenon DEF Outward
<1>8. QED
  BY <1>1, <1>4, <1>5, <1>6, <1>7, Halves, PeerFacts DEF StreamInv

(* What is written goes to the other end.                                  *)
LEMMA WroteTypes ==
  ASSUME StreamTypes, NEW e \in Ends, NEW v \in Seq(Int), Write(e, v)
  PROVE  /\ wire' \in [Ends -> Seq(Int)]
         /\ wire'[Peer(e)] = wire[Peer(e)] \o v /\ wire'[e] = wire[e]
<1>1. Peer(e) \in Ends /\ Peer(e) # e /\ wire[Peer(e)] \in Seq(Int)
  BY PeerFacts, EndTypes
<1>2. wire[Peer(e)] \o v \in Seq(Int)
  BY <1>1, ConcatFacts
<1>3. QED
  BY <1>1, <1>2 DEF Write, StreamTypes

LEMMA WriteHeaderStep ==
  ASSUME StreamInv, NEW e \in Ends, WriteHeader(e)
  PROVE  StreamInv'
<1>1. /\ tx[e].at = "header" /\ rx[e].at = "idle" /\ closed[e] = FALSE
      /\ Write(e, hdr[e]) /\ tx' = [tx EXCEPT ![e].at = "body"]
      /\ UNCHANGED <<closed, hdr, rx, sent, received>>
  BY DEF WriteHeader, StreamInv, StreamTypes
<1>2. StreamTypes
  BY DEF StreamInv
<1>3. hdr[e] \in Seq(Int) /\ Len(hdr[e]) = 2
  BY <1>2, EndTypes, HeaderFacts
<1>4. /\ wire' \in [Ends -> Seq(Int)]
      /\ wire'[Peer(e)] = wire[Peer(e)] \o hdr[e] /\ wire'[e] = wire[e]
  BY <1>1, <1>2, <1>3, WroteTypes
<1>5. tx'[e].at = "body" /\ tx'[e].rec = tx[e].rec /\ tx'[Peer(e)] = tx[Peer(e)]
  BY <1>1, <1>2, PeerFacts DEF StreamTypes
<1>6. StreamTypes'
  <2>1. tx' \in [Ends -> TxState]
    BY <1>1, <1>2 DEF StreamTypes
  <2>2. QED
    BY <1>1, <1>2, <1>4, <2>1 DEF StreamTypes
<1>7. Direction(e)'
  BY <1>1, <1>4, <1>5, SameDirection DEF StreamInv
<1>8. Outward(e)'
  <2>1. closed[Peer(e)] = FALSE
    BY <1>1, PeerFacts DEF StreamInv
  <2>2. PICK beg :
          /\ Flow(beg, sent[e], wire[Peer(e)])
          /\ Reading(beg, sent[e], wire[Peer(e)], Len(received[Peer(e)]), FALSE,
                     rx[Peer(e)].at, rx[Peer(e)].len, hdr[Peer(e)])
          /\ Writing(beg, sent[e], wire[Peer(e)], FALSE, "header", tx[e].rec, hdr[e])
    BY <1>1, <2>1, Sides, Zenon DEF Outward
  <2>3. sent[e] \in Records /\ wire[Peer(e)] \in Seq(Int) /\ tx[e].rec \in Seq(Int)
    BY <1>2, EndTypes, PeerFacts
  <2> DEFINE l == Len(sent[e])
             r == tx[e].rec
  <2>4. /\ l \in 1..l /\ r = sent[e][l] /\ hdr[e] = BigEndian(Len(r))
        /\ Len(wire[Peer(e)]) = beg[l]
    BY <2>2 DEF Writing
  <2>5. /\ Len(Frame(r)) = 2 + Len(r) /\ Len(r) \in Nat
        /\ \A i \in 1..2 : Frame(r)[i] = BigEndian(Len(r))[i]
    BY <2>3, FrameFacts, LenNat
  <2>6. beg[l] \in Int
    BY <2>2, <2>3, <2>4, FrameEnd, Zenon
  <2>7. /\ 0 \in Nat /\ beg[l] = beg[l] + 0 /\ 0 + 2 <= 2 + Len(r)
        /\ \A i \in 1..2 : 0 + i = i
    BY <2>5, <2>6
  <2>8. /\ Flow(beg, sent[e], wire[Peer(e)] \o hdr[e])
        /\ Reading(beg, sent[e], wire[Peer(e)] \o hdr[e], Len(received[Peer(e)]), FALSE,
                   rx[Peer(e)].at, rx[Peer(e)].len, hdr[Peer(e)])
    <3>1. /\ 0 + Len(hdr[e]) <= Len(Frame(sent[e][l]))
          /\ Len(wire[Peer(e)]) = beg[l] + 0
      BY <1>3, <2>4, <2>5, <2>7, Zenon
    <3>2. \A i \in 1..Len(hdr[e]) : hdr[e][i] = Frame(sent[e][l])[0 + i]
      BY <1>3, <2>4, <2>5, <2>7, Zenon
    <3>3. QED
      <4>1. Continues(beg, sent[e], wire[Peer(e)], hdr[e], 0)
        BY <2>4, <3>1, <3>2, Zenon DEF Continues
      <4>2. QED
        BY <1>3, <2>2, <2>3, <2>7, <4>1, WriteFlow, Zenon
  <2>9. Len(wire[Peer(e)] \o hdr[e]) = beg[l] + 2
    <3>1. Len(wire[Peer(e)] \o hdr[e]) = Len(wire[Peer(e)]) + Len(hdr[e])
      BY <1>3, <2>3, ConcatFacts, Zenon
    <3>2. QED
      BY <1>3, <2>4, <3>1, Zenon
  <2>10. Writing(beg, sent[e], wire[Peer(e)] \o hdr[e], FALSE, "body", r, hdr[e])
    BY <2>4, <2>9 DEF Writing
  <2>11. QED
    BY <1>1, <1>4, <1>5, <2>1, <2>8, <2>10, Zenon DEF Outward
<1>9. QED
  BY <1>1, <1>5, <1>6, <1>7, <1>8, Halves, PeerFacts DEF StreamInv

LEMMA IdleTyped ==
    /\ Idle \in TxState
    /\ Idle \in RxState
    /\ Idle.at = "idle" /\ Idle.rec = <<>> /\ Idle.len = 0
<1>1. <<>> \in Seq(Int)
  OBVIOUS
<1>2. QED
  BY <1>1 DEF Idle

LEMMA WriteBodyStep ==
  ASSUME StreamInv, NEW e \in Ends, WriteBody(e)
  PROVE  StreamInv'
<1>1. /\ tx[e].at = "body" /\ rx[e].at = "idle" /\ closed[e] = FALSE
      /\ Write(e, tx[e].rec) /\ tx' = [tx EXCEPT ![e] = Idle]
      /\ UNCHANGED <<closed, hdr, rx, sent, received>>
  BY DEF WriteBody, StreamInv, StreamTypes
<1>2. StreamTypes
  BY DEF StreamInv
<1>3. tx[e].rec \in Seq(Int)
  BY <1>2, EndTypes
<1>4. /\ wire' \in [Ends -> Seq(Int)]
      /\ wire'[Peer(e)] = wire[Peer(e)] \o tx[e].rec /\ wire'[e] = wire[e]
  BY <1>1, <1>2, <1>3, WroteTypes
<1>5. tx'[e] = Idle /\ tx'[Peer(e)] = tx[Peer(e)]
  BY <1>1, <1>2, PeerFacts DEF StreamTypes
<1>6. StreamTypes'
  <2>1. tx' \in [Ends -> TxState]
    BY <1>1, <1>2, IdleTyped DEF StreamTypes
  <2>2. QED
    BY <1>1, <1>2, <1>4, <2>1 DEF StreamTypes
<1>7. Direction(e)'
  BY <1>1, <1>4, <1>5, SameDirection DEF StreamInv
<1>8. Outward(e)'
  <2>1. closed[Peer(e)] = FALSE
    BY <1>1, PeerFacts DEF StreamInv
  <2>2. PICK beg :
          /\ Flow(beg, sent[e], wire[Peer(e)])
          /\ Reading(beg, sent[e], wire[Peer(e)], Len(received[Peer(e)]), FALSE,
                     rx[Peer(e)].at, rx[Peer(e)].len, hdr[Peer(e)])
          /\ Writing(beg, sent[e], wire[Peer(e)], FALSE, "body", tx[e].rec, hdr[e])
    BY <1>1, <2>1, Sides, Zenon DEF Outward
  <2>3. sent[e] \in Records /\ wire[Peer(e)] \in Seq(Int)
    BY <1>2, EndTypes, PeerFacts
  <2> DEFINE l == Len(sent[e])
             r == tx[e].rec
  <2>4. l \in 1..l /\ r = sent[e][l] /\ Len(wire[Peer(e)]) = beg[l] + 2
    BY <2>2 DEF Writing
  <2>5. /\ Len(Frame(r)) = 2 + Len(r) /\ Len(r) \in Nat /\ 2 \in Nat
        /\ \A i \in 1..Len(r) : Frame(r)[2 + i] = r[i]
    BY <1>3, FrameFacts, LenNat
  <2>6. beg[l + 1] = beg[l] + 2 + Len(r)
    BY <2>2, <2>3, <2>4, FrameEnd, Zenon
  <2>7. Continues(beg, sent[e], wire[Peer(e)], r, 2)
    <3>1. 2 + Len(r) <= 2 + Len(r)
      BY <2>5
    <3>2. QED
      BY <2>4, <2>5, <3>1, Zenon DEF Continues
  <2>8. /\ Flow(beg, sent[e], wire[Peer(e)] \o r)
        /\ Reading(beg, sent[e], wire[Peer(e)] \o r, Len(received[Peer(e)]), FALSE,
                   rx[Peer(e)].at, rx[Peer(e)].len, hdr[Peer(e)])
    BY <1>3, <2>2, <2>3, <2>5, <2>7, WriteFlow, Zenon
  <2>9. Len(wire[Peer(e)] \o r) = beg[l + 1]
    <3>1. Len(wire[Peer(e)] \o r) = Len(wire[Peer(e)]) + Len(r)
      BY <1>3, <2>3, ConcatFacts, Zenon
    <3>2. QED
      BY <2>4, <2>6, <3>1, Zenon
  <2>10. Writing(beg, sent[e], wire[Peer(e)] \o r, FALSE, "idle", <<>>, hdr[e])
    BY <2>9 DEF Writing
  <2>11. QED
    BY <1>1, <1>4, <1>5, <2>1, <2>8, <2>10, IdleTyped, Zenon DEF Outward
<1>9. QED
  BY <1>1, <1>5, <1>6, <1>7, <1>8, IdleTyped, Halves, PeerFacts DEF StreamInv

LEMMA WriteFailsStep ==
  ASSUME StreamInv, NEW e \in Ends, WriteFails(e)
  PROVE  StreamInv'
<1>1. /\ rx[e].at = "idle" /\ closed[e] = TRUE /\ tx' = [tx EXCEPT ![e] = Idle]
      /\ UNCHANGED <<wire, closed, hdr, rx, sent, received>>
  BY DEF WriteFails, StreamInv, StreamTypes
<1>2. StreamTypes
  BY DEF StreamInv
<1>3. tx'[e] = Idle /\ tx'[Peer(e)] = tx[Peer(e)]
  BY <1>1, <1>2, PeerFacts DEF StreamTypes
<1>4. StreamTypes'
  <2>1. tx' \in [Ends -> TxState]
    BY <1>1, <1>2, IdleTyped DEF StreamTypes
  <2>2. QED
    BY <1>1, <1>2, <2>1 DEF StreamTypes
<1>5. Direction(e)'
  BY <1>1, <1>3, SameDirection DEF StreamInv
<1>6. Outward(e)'
  <2>1. closed[Peer(e)] = TRUE
    BY <1>1, PeerFacts DEF StreamInv
  <2>2. PICK beg :
          /\ Flow(beg, sent[e], wire[Peer(e)])
          /\ Reading(beg, sent[e], wire[Peer(e)], Len(received[Peer(e)]), TRUE,
                     rx[Peer(e)].at, rx[Peer(e)].len, hdr[Peer(e)])
    BY <2>1, Sides, Zenon DEF Outward
  <2>3. Writing(beg, sent[e], wire[Peer(e)], TRUE, "idle", <<>>, hdr[e])
    BY DEF Writing
  <2>4. QED
    BY <1>1, <1>3, <2>1, <2>2, <2>3, IdleTyped, Zenon DEF Outward
<1>7. QED
  BY <1>1, <1>3, <1>4, <1>5, <1>6, IdleTyped, Halves, PeerFacts DEF StreamInv

(* Steps of Recv that end at e change one direction only.                  *)
LEMMA RecvHalf ==
  ASSUME StreamInv, StreamTypes', NEW e \in Ends, tx[e].at = "idle",
         UNCHANGED <<closed, tx, sent>>, rx'[Peer(e)] = rx[Peer(e)],
         wire'[Peer(e)] = wire[Peer(e)], hdr'[Peer(e)] = hdr[Peer(e)],
         received'[Peer(e)] = received[Peer(e)], Direction(e)'
  PROVE  StreamInv'
<1>1. Peer(e) \in Ends /\ Peer(Peer(e)) = e /\ Direction(Peer(e))
  BY PeerFacts DEF StreamInv
<1>2. Direction(Peer(e))'
  BY <1>1, SameDirection
<1>3. \A f \in Ends : Direction(f)'
  BY <1>2, PeerFacts, Zenon
<1>4. \A f \in Ends : tx'[f].at = "idle" \/ rx'[f].at = "idle"
  BY PeerFacts DEF StreamInv
<1>5. QED
  BY <1>3, <1>4 DEF StreamInv

(* What one end knows of its direction.                                    *)
LEMMA Inward ==
  ASSUME StreamInv, NEW e \in Ends
  PROVE  \E beg :
        /\ Flow(beg, sent[Peer(e)], wire[e])
        /\ Reading(beg, sent[Peer(e)], wire[e], Len(received[e]), closed[e],
                   rx[e].at, rx[e].len, hdr[e])
        /\ Writing(beg, sent[Peer(e)], wire[e], closed[e],
                   tx[Peer(e)].at, tx[Peer(e)].rec, hdr[Peer(e)])
        /\ sent[Peer(e)] \in Records /\ wire[e] \in Seq(Int) /\ hdr[e] \in [1..2 -> Int]
<1>1. sent[Peer(e)] \in Records /\ wire[e] \in Seq(Int) /\ hdr[e] \in [1..2 -> Int]
  BY EndTypes, PeerFacts DEF StreamInv
<1>2. Direction(e)
  BY DEF StreamInv
<1>3. QED
  BY <1>1, <1>2, Zenon DEF Direction

LEMMA RecvBeginStep ==
  ASSUME ~FullDuplex, StreamInv, NEW e \in Ends, RecvBegin(e)
  PROVE  StreamInv'
<1>1. /\ rx[e].at = "idle" /\ tx[e].at = "idle"
      /\ rx' = [rx EXCEPT ![e] = [Idle EXCEPT !.at = "header"]]
      /\ UNCHANGED <<wire, closed, hdr, tx, sent, received>>
  BY DEF RecvBegin, MayCall
<1>2. StreamTypes
  BY DEF StreamInv
<1>3. rx'[e] = [at |-> "header", rec |-> <<>>, len |-> 0] /\ rx'[Peer(e)] = rx[Peer(e)]
  BY <1>1, <1>2, PeerFacts DEF StreamTypes, Idle
<1>4. StreamTypes'
  <2>1. rx' = [rx EXCEPT ![e] = rx'[e]]
    BY <1>1, <1>2 DEF StreamTypes
  <2>2. rx'[e] \in RxState
    BY <1>3
  <2>3. rx' \in [Ends -> RxState]
    BY <1>2, <2>1, <2>2 DEF StreamTypes
  <2>4. QED
    BY <1>1, <1>2, <2>3 DEF StreamTypes
<1>5. PICK beg :
        /\ Flow(beg, sent[Peer(e)], wire[e])
        /\ Reading(beg, sent[Peer(e)], wire[e], Len(received[e]), closed[e],
                   "idle", rx[e].len, hdr[e])
        /\ Writing(beg, sent[Peer(e)], wire[e], closed[e],
                   tx[Peer(e)].at, tx[Peer(e)].rec, hdr[Peer(e)])
  BY <1>1, Inward, Zenon
<1>6. Reading(beg, sent[Peer(e)], wire[e], Len(received[e]), closed[e], "header", 0, hdr[e])
  BY <1>5 DEF Reading
<1>7. rx'[e].at = "header" /\ rx'[e].len = 0
  BY <1>3
<1>8. Direction(e)'
  BY <1>1, <1>5, <1>6, <1>7, Zenon DEF Direction
<1>9. QED
  BY <1>1, <1>3, <1>4, <1>8, RecvHalf

LEMMA Updated ==
  ASSUME NEW f \in [Ends -> RxState],
         NEW e \in Ends, NEW m \in Int, NEW l \in {"idle", "header", "decode", "body"}
  PROVE  [f EXCEPT ![e].len = m, ![e].at = l] \in [Ends -> RxState]
<1>1. [f EXCEPT ![e].len = m] \in [Ends -> RxState]
  OBVIOUS
<1>2. \A g \in [Ends -> RxState] : [g EXCEPT ![e].at = l] \in [Ends -> RxState]
  OBVIOUS
<1>3. QED
  BY <1>1, <1>2

LEMMA ReadHeaderStep ==
  ASSUME StreamInv, NEW e \in Ends, ReadHeader(e)
  PROVE  StreamInv'
<1>1. /\ rx[e].at = "header" /\ tx[e].at = "idle" /\ wire[e] # <<>>
      /\ hdr' = [hdr EXCEPT ![e][rx[e].len + 1] = Head(wire[e])]
      /\ wire' = [wire EXCEPT ![e] = Tail(@)]
      /\ UNCHANGED <<closed, tx, sent, received>>
  BY DEF ReadHeader, StreamInv
<1>2. rx' = [rx EXCEPT ![e].len = (rx[e].len + 1) % 2,
                       ![e].at = IF rx[e].len + 1 = 2 THEN "decode" ELSE @]
  BY DEF ReadHeader
<1>3. StreamTypes
  BY DEF StreamInv
<1>4. PICK beg :
        /\ Flow(beg, sent[Peer(e)], wire[e])
        /\ Reading(beg, sent[Peer(e)], wire[e], Len(received[e]), closed[e],
                   "header", rx[e].len, hdr[e])
        /\ Writing(beg, sent[Peer(e)], wire[e], closed[e],
                   tx[Peer(e)].at, tx[Peer(e)].rec, hdr[Peer(e)])
        /\ sent[Peer(e)] \in Records /\ wire[e] \in Seq(Int) /\ hdr[e] \in [1..2 -> Int]
  BY <1>1, Inward, Zenon
<1>5. rx[e].len \in {0, 1}
  BY <1>4 DEF Reading
<1>6. /\ rx'[e].at = (IF rx[e].len + 1 = 2 THEN "decode" ELSE "header")
      /\ rx'[e].len = (rx[e].len + 1) % 2 /\ rx'[Peer(e)] = rx[Peer(e)]
  BY <1>1, <1>2, <1>3, PeerFacts DEF StreamTypes
<1>7. /\ hdr'[e] = [hdr[e] EXCEPT ![rx[e].len + 1] = Head(wire[e])]
      /\ hdr'[Peer(e)] = hdr[Peer(e)]
      /\ wire'[e] = Tail(wire[e]) /\ wire'[Peer(e)] = wire[Peer(e)]
  BY <1>1, <1>3, PeerFacts DEF StreamTypes
<1>8. Tail(wire[e]) \in Seq(Int) /\ Head(wire[e]) \in Int
  BY <1>1, <1>4, HeadTailProperties
<1>9. StreamTypes'
  <2>1. hdr' \in [Ends -> [1..2 -> Int]]
    BY <1>1, <1>3, <1>8 DEF StreamTypes
  <2>2. wire' \in [Ends -> Seq(Int)]
    BY <1>1, <1>3, <1>8 DEF StreamTypes
  <2>3. rx' \in [Ends -> RxState]
    <3>1. PICK m \in Int : m = (rx[e].len + 1) % 2
      BY <1>5
    <3>2. PICK l \in {"decode", "header"} : l = IF rx[e].len + 1 = 2 THEN "decode" ELSE "header"
      OBVIOUS
    <3>3. rx' = [rx EXCEPT ![e].len = m, ![e].at = l]
      BY <1>1, <1>2, <3>1, <3>2
    <3>4. QED
      BY <1>3, <3>3, Updated, Zenon DEF StreamTypes
  <2>4. QED
    BY <1>1, <1>3, <2>1, <2>2, <2>3 DEF StreamTypes
<1>10. PICK new :
        /\ Flow(new, sent[Peer(e)], Tail(wire[e]))
        /\ Writing(new, sent[Peer(e)], Tail(wire[e]), closed[e],
                   tx[Peer(e)].at, tx[Peer(e)].rec, hdr[Peer(e)])
        /\ Reading(new, sent[Peer(e)], Tail(wire[e]), Len(received[e]), closed[e],
                   IF rx[e].len + 1 = 2 THEN "decode" ELSE "header", (rx[e].len + 1) % 2,
                   [hdr[e] EXCEPT ![rx[e].len + 1] = Head(wire[e])])
  BY <1>1, <1>4, HeaderFlow, Zenon
<1>11. Direction(e)'
  BY <1>1, <1>6, <1>7, <1>10, Zenon DEF Direction
<1>12. QED
  BY <1>1, <1>6, <1>7, <1>9, <1>11, RecvHalf

LEMMA DecodeStep ==
  ASSUME StreamInv, NEW e \in Ends, DecodeLength(e)
  PROVE  StreamInv'
<1>1. /\ rx[e].at = "decode" /\ tx[e].at = "idle"
      /\ rx' = [rx EXCEPT ![e].len = Decode(hdr[e]), ![e].at = "body"]
      /\ UNCHANGED <<wire, closed, hdr, tx, sent, received>>
  BY DEF DecodeLength, StreamInv
<1>2. StreamTypes
  BY DEF StreamInv
<1>3. PICK beg :
        /\ Flow(beg, sent[Peer(e)], wire[e])
        /\ Reading(beg, sent[Peer(e)], wire[e], Len(received[e]), closed[e],
                   "decode", rx[e].len, hdr[e])
        /\ Writing(beg, sent[Peer(e)], wire[e], closed[e],
                   tx[Peer(e)].at, tx[Peer(e)].rec, hdr[Peer(e)])
        /\ sent[Peer(e)] \in Records /\ wire[e] \in Seq(Int) /\ hdr[e] \in [1..2 -> Int]
  BY <1>1, Inward, Zenon
<1>4. Decode(hdr[e]) \in Int
  BY <1>3, StreamAssumption DEF Decode
<1>5. rx'[e].at = "body" /\ rx'[e].len = Decode(hdr[e]) /\ rx'[Peer(e)] = rx[Peer(e)]
  BY <1>1, <1>2, PeerFacts DEF StreamTypes
<1>6. StreamTypes'
  <2>1. rx' \in [Ends -> RxState]
    BY <1>1, <1>2, <1>4, Updated, Zenon DEF StreamTypes
  <2>2. QED
    BY <1>1, <1>2, <2>1 DEF StreamTypes
<1>7. Reading(beg, sent[Peer(e)], wire[e], Len(received[e]), closed[e],
              "body", Decode(hdr[e]), hdr[e])
  BY <1>3, DecodeFlow, Zenon
<1>8. Direction(e)'
  BY <1>1, <1>3, <1>5, <1>7, Zenon DEF Direction
<1>9. QED
  BY <1>1, <1>5, <1>6, <1>8, RecvHalf

(* A record is handed over: the next one that was sent.                    *)
LEMMA ReadBodyStep ==
  ASSUME StreamInv, NEW e \in Ends, ReadBody(e)
  PROVE  StreamInv' /\ Channel!Recv(e)
<1> DEFINE n == rx[e].len
           s == sent[Peer(e)]
           w == wire[e]
           k == Len(received[e])
<1>1. /\ rx[e].at = "body" /\ tx[e].at = "idle" /\ n <= Len(w)
      /\ received' = [received EXCEPT ![e] = Append(@, SubSeq(w, 1, n))]
      /\ wire' = [wire EXCEPT ![e] = SubSeq(@, n + 1, Len(@))]
      /\ rx' = [rx EXCEPT ![e] = Idle]
      /\ UNCHANGED <<closed, hdr, tx, sent>>
  <2>1. Len(w) >= n
    BY DEF ReadBody
  <2>2. Len(w) \in Int /\ n \in Int
    BY EndTypes, LenNat DEF StreamInv
  <2>3. n <= Len(w)
    BY <2>1, <2>2
  <2>4. QED
    BY <2>3 DEF ReadBody, StreamInv
<1>2. StreamTypes
  BY DEF StreamInv
<1>3. PICK beg :
        /\ Flow(beg, s, w)
        /\ Reading(beg, s, w, k, closed[e], "body", n, hdr[e])
        /\ Writing(beg, s, w, closed[e], tx[Peer(e)].at, tx[Peer(e)].rec, hdr[Peer(e)])
        /\ s \in Records /\ w \in Seq(Int) /\ hdr[e] \in [1..2 -> Int]
  BY <1>1, Inward, Zenon
<1>4. /\ k + 1 \in 1..Len(s) /\ SubSeq(w, 1, n) = s[k + 1] /\ n \in 0..Len(w)
      /\ \E new : /\ Flow(new, s, SubSeq(w, n + 1, Len(w)))
                  /\ Writing(new, s, SubSeq(w, n + 1, Len(w)), closed[e],
                             tx[Peer(e)].at, tx[Peer(e)].rec, hdr[Peer(e)])
                  /\ Reading(new, s, SubSeq(w, n + 1, Len(w)), k + 1, closed[e], "idle", 0, hdr[e])
  BY <1>1, <1>3, BodyFlow, Zenon
<1>5. s[k + 1] \in Seq(Int) /\ SubSeq(w, n + 1, Len(w)) \in Seq(Int)
  BY <1>3, <1>4, RecordFacts, SubSeqFacts, Zenon
<1>6. received' = [received EXCEPT ![e] = Append(@, s[k + 1])]
  BY <1>1, <1>4, Zenon
<1>7. Append(received[e], s[k + 1]) \in Records /\ Len(Append(received[e], s[k + 1])) = k + 1
  BY <1>2, <1>5, AppendFacts, EndTypes
<1>8. /\ received'[e] = Append(received[e], s[k + 1]) /\ received'[Peer(e)] = received[Peer(e)]
      /\ rx'[e] = Idle /\ rx'[Peer(e)] = rx[Peer(e)]
      /\ wire'[e] = SubSeq(w, n + 1, Len(w)) /\ wire'[Peer(e)] = wire[Peer(e)]
  <2>1. received'[e] = Append(received[e], s[k + 1]) /\ received'[Peer(e)] = received[Peer(e)]
    BY <1>2, <1>6, PeerFacts DEF StreamTypes
  <2>2. rx'[e] = Idle /\ rx'[Peer(e)] = rx[Peer(e)]
    BY <1>1, <1>2, PeerFacts DEF StreamTypes
  <2>3. wire'[e] = SubSeq(w, n + 1, Len(w)) /\ wire'[Peer(e)] = wire[Peer(e)]
    BY <1>1, <1>2, PeerFacts DEF StreamTypes
  <2>4. QED
    BY <2>1, <2>2, <2>3
<1>9. StreamTypes'
  <2>1. received' \in [Ends -> Records]
    BY <1>2, <1>6, <1>7 DEF StreamTypes
  <2>2. wire' \in [Ends -> Seq(Int)]
    BY <1>1, <1>2, <1>5 DEF StreamTypes
  <2>3. rx' \in [Ends -> RxState]
    BY <1>1, <1>2, IdleTyped DEF StreamTypes
  <2>4. QED
    BY <1>1, <1>2, <2>1, <2>2, <2>3 DEF StreamTypes
<1>10. Len(received'[e]) = k + 1
  BY <1>7, <1>8, Zenon
<1>11. Direction(e)'
  <2>1. PICK new :
          /\ Flow(new, s, SubSeq(w, n + 1, Len(w)))
          /\ Writing(new, s, SubSeq(w, n + 1, Len(w)), closed[e],
                     tx[Peer(e)].at, tx[Peer(e)].rec, hdr[Peer(e)])
          /\ Reading(new, s, SubSeq(w, n + 1, Len(w)), k + 1, closed[e], "idle", 0, hdr[e])
    BY <1>4
  <2>2. /\ sent'[Peer(e)] = s /\ wire'[e] = SubSeq(w, n + 1, Len(w)) /\ closed'[e] = closed[e]
        /\ rx'[e].at = "idle" /\ rx'[e].len = 0 /\ hdr' = hdr /\ tx' = tx
    BY <1>1, <1>8, IdleTyped, Zenon
  <2> HIDE DEF n, s, w, k
  <2>3. QED
    BY <1>10, <2>1, <2>2, Zenon DEF Direction
<1>12. StreamInv'
  BY <1>1, <1>8, <1>9, <1>11, RecvHalf
<1>13. k < Len(s)
  <2>1. k \in Nat /\ Len(s) \in Nat
    BY <1>2, <1>3, EndTypes, RecordFacts
  <2>2. QED
    BY <1>4, <2>1
<1>14. Channel!Recv(e)
  BY <1>1, <1>6, <1>13, Zenon DEF Channel!Recv
<1>15. QED
  BY <1>12, <1>14

LEMMA ReadFailsStep ==
  ASSUME StreamInv, NEW e \in Ends, ReadFails(e)
  PROVE  StreamInv'
<1>1. /\ closed[e] = TRUE /\ tx[e].at = "idle"
      /\ wire' = [wire EXCEPT ![e] = <<>>] /\ rx' = [rx EXCEPT ![e] = Idle]
      /\ UNCHANGED <<closed, hdr, tx, sent, received>>
  BY DEF ReadFails, StreamInv, StreamTypes
<1>2. StreamTypes
  BY DEF StreamInv
<1>3. /\ rx'[e] = Idle /\ rx'[Peer(e)] = rx[Peer(e)]
      /\ wire'[e] = <<>> /\ wire'[Peer(e)] = wire[Peer(e)]
  BY <1>1, <1>2, PeerFacts DEF StreamTypes
<1>4. StreamTypes'
  <2>1. wire' \in [Ends -> Seq(Int)]
    <3>1. <<>> \in Seq(Int)
      OBVIOUS
    <3>2. QED
      BY <1>1, <1>2, <3>1 DEF StreamTypes
  <2>2. rx' \in [Ends -> RxState]
    BY <1>1, <1>2, IdleTyped DEF StreamTypes
  <2>3. QED
    BY <1>1, <1>2, <2>1, <2>2 DEF StreamTypes
<1>5. PICK beg :
        /\ Flow(beg, sent[Peer(e)], <<>>)
        /\ Reading(beg, sent[Peer(e)], <<>>, Len(received[e]), TRUE, "idle", 0, hdr[e])
        /\ Writing(beg, sent[Peer(e)], <<>>, TRUE,
                   tx[Peer(e)].at, tx[Peer(e)].rec, hdr[Peer(e)])
  BY Inward, EndFlow, Zenon
<1>6. Direction(e)'
  BY <1>1, <1>3, <1>5, IdleTyped, Zenon DEF Direction
<1>7. QED
  BY <1>1, <1>3, <1>4, <1>6, RecvHalf

(* Both directions are cut off, at e before anything that is under way.    *)
LEMMA CloseStep ==
  ASSUME StreamInv, NEW e \in Ends, Close(e)
  PROVE  StreamInv'
<1>1. PICK m \in 0..Len(wire[Peer(e)]) :
        wire' = [wire EXCEPT ![e] = <<>>, ![Peer(e)] = SubSeq(@, 1, m)]
  BY DEF Close
<1>2. /\ \A f \in Ends : closed[f] = FALSE /\ closed'[f] = TRUE
      /\ closed' = [f \in Ends |-> TRUE]
      /\ UNCHANGED <<hdr, tx, rx, sent, received>>
  BY DEF Close, StreamInv, StreamTypes
<1>3. StreamTypes
  BY DEF StreamInv
<1>4. wire[Peer(e)] \in Seq(Int) /\ wire[e] \in Seq(Int)
  BY <1>3, EndTypes, PeerFacts
<1>5. SubSeq(wire[Peer(e)], 1, m) \in Seq(Int) /\ <<>> \in Seq(Int)
  BY <1>4, SubSeqFacts
<1>6. wire'[e] = <<>> /\ wire'[Peer(e)] = SubSeq(wire[Peer(e)], 1, m)
  BY <1>1, <1>3, PeerFacts DEF StreamTypes
<1>7. StreamTypes'
  <2>1. wire' \in [Ends -> Seq(Int)]
    BY <1>1, <1>3, <1>5, PeerFacts DEF StreamTypes
  <2>2. QED
    BY <1>2, <1>3, <2>1 DEF StreamTypes
<1>8. ASSUME NEW f \in Ends, NEW l \in 0..Len(wire[f]), wire'[f] = SubSeq(wire[f], 1, l)
      PROVE  Direction(f)'
  <2>1. PICK beg :
          /\ Flow(beg, sent[Peer(f)], wire[f])
          /\ Reading(beg, sent[Peer(f)], wire[f], Len(received[f]), FALSE,
                     rx[f].at, rx[f].len, hdr[f])
          /\ Writing(beg, sent[Peer(f)], wire[f], FALSE,
                     tx[Peer(f)].at, tx[Peer(f)].rec, hdr[Peer(f)])
          /\ sent[Peer(f)] \in Records /\ wire[f] \in Seq(Int)
    BY <1>2, Inward, Zenon
  <2>2. /\ Flow(beg, sent[Peer(f)], SubSeq(wire[f], 1, l))
        /\ Reading(beg, sent[Peer(f)], SubSeq(wire[f], 1, l), Len(received[f]), TRUE,
                   rx[f].at, rx[f].len, hdr[f])
        /\ Writing(beg, sent[Peer(f)], SubSeq(wire[f], 1, l), TRUE,
                   tx[Peer(f)].at, tx[Peer(f)].rec, hdr[Peer(f)])
    BY <2>1, CutFlow, Zenon
  <2>3. QED
    BY <1>2, <1>8, <2>2, Zenon DEF Direction
<1>9. Direction(Peer(e))'
  BY <1>6, <1>8, PeerFacts, Zenon
<1>10. Direction(e)'
  <2>1. 0 \in 0..Len(wire[e]) /\ SubSeq(wire[e], 1, 0) = <<>>
    BY <1>4, LenNat
  <2>2. QED
    BY <1>6, <1>8, <2>1, Zenon
<1>11. Outward(e)'
  BY <1>9, BothWays
<1>12. QED
  BY <1>2, <1>7, <1>10, <1>11, Halves DEF StreamInv

-----------------------------------------------------------------------------

(* ImplementsChannel, if Send and Recv of one end do not overlap: whatever *)
(* the records, however the bytes come in and whenever the connection is   *)
(* closed, one Send is one record at the other end, whole and in order     *)
(* (tcp.go:25-60, transport.go:2-3).                                       *)
THEOREM StreamIsChannel == ~FullDuplex => (StreamSpec => ImplementsChannel)
<1> SUFFICES ASSUME ~FullDuplex
             PROVE  StreamSpec => ImplementsChannel
  OBVIOUS
<1>1. StreamInit => StreamInv
  BY StreamInvInit
<1>2. StreamInit => Channel!Init
  BY DEF StreamInit, Channel!Init
<1>3. ASSUME StreamInv, [StreamNext]_streamVars
      PROVE  StreamInv' /\ [Channel!Next]_<<sent, received>>
  <2>1. CASE UNCHANGED streamVars
    <3>1. /\ UNCHANGED <<wire, closed, hdr, tx, rx, sent, received>>
      BY <2>1 DEF streamVars
    <3>2. StreamTypes' /\ \A f \in Ends : Direction(f)'
      BY <1>3, <3>1, SameDirection, PeerFacts DEF StreamInv, StreamTypes
    <3>3. QED
      BY <1>3, <3>1, <3>2 DEF StreamInv
  <2>2. ASSUME NEW e \in Ends, SendBegin(e)
        PROVE  StreamInv' /\ Channel!Next
    BY <1>3, <2>2, SendBeginStep DEF Channel!Next
  <2>3. ASSUME NEW e \in Ends, ReadBody(e)
        PROVE  StreamInv' /\ Channel!Next
    BY <1>3, <2>3, ReadBodyStep DEF Channel!Next
  <2>4. ASSUME NEW e \in Ends, PutUint16(e) \/ WriteHeader(e) \/ WriteBody(e) \/ WriteFails(e)
        PROVE  StreamInv' /\ UNCHANGED <<sent, received>>
    <3>1. StreamInv'
      BY <1>3, <2>4, PutStep, WriteHeaderStep, WriteBodyStep, WriteFailsStep
    <3>2. QED
      BY <2>4, <3>1 DEF PutUint16, WriteHeader, WriteBody, WriteFails
  <2>5. ASSUME NEW e \in Ends,
               RecvBegin(e) \/ ReadHeader(e) \/ DecodeLength(e) \/ ReadFails(e) \/ Close(e)
        PROVE  StreamInv' /\ UNCHANGED <<sent, received>>
    <3>1. StreamInv'
      BY <1>3, <2>5, RecvBeginStep, ReadHeaderStep, DecodeStep, ReadFailsStep, CloseStep
    <3>2. QED
      BY <2>5, <3>1 DEF RecvBegin, ReadHeader, DecodeLength, ReadFails, Close
  <2>6. QED
    BY <1>3, <2>1, <2>2, <2>3, <2>4, <2>5 DEF StreamNext, Sending, Receiving
<1>4. QED
  BY <1>1, <1>2, <1>3, PTL DEF StreamSpec, ImplementsChannel, Channel!Spec
-----------------------------------------------------------------------------
(* Elligator2: the field                                                   *)

LEMMA Least ==
  ASSUME NEW T, T \subseteq Nat, T # {}
  PROVE  \E x \in T : \A y \in T : x <= y
<1> DEFINE R == {p \in Nat \X Nat : p[1] < p[2]}
<1>1. IsWellFoundedOn(R, Nat)
  BY NatLessThanWellFounded DEF OpToRel
<1>2. \E x \in T : \A y \in T : <<y, x>> \notin R
  <2> HIDE DEF R
  <2> QED
    BY <1>1, WFMin
<1>3. \A x, y \in Nat : <<y, x>> \notin R => x <= y
  OBVIOUS
<1>4. QED
  BY <1>2, <1>3

-----------------------------------------------------------------------------
(* Numbers that fieldP divides                                             *)

Div(a) == \E k \in Int : a = k * fieldP

(* What EllAssumption says of the two constants.                           *)
LEMMA FieldP == fieldP \in Nat /\ fieldP > 4 /\ feA \in 3..(fieldP - 3)
<1>1. fieldP \in Nat /\ fieldP % 8 = 5 /\ feA \in 3..(fieldP - 3)
  BY EllAssumption DEF EllAssumption
<1>2. QED
  BY <1>1

(* Division with remainder.                                                *)
LEMMA DivMod ==
  ASSUME NEW a \in Int, NEW n \in Nat, n > 0
  PROVE  a = n * (a \div n) + (a % n) /\ a % n \in 0..(n - 1) /\ a \div n \in Int
OBVIOUS

(* The multiples of fieldP: their combinations, products and sums.         *)
LEMMA DivComb ==
  ASSUME NEW a \in Int, NEW b \in Int, Div(a), Div(b), NEW x \in Int, NEW y \in Int
  PROVE  Div(x * a + y * b)
<1>1. PICK k \in Int : a = k * fieldP
  BY DEF Div
<1>2. PICK l \in Int : b = l * fieldP
  BY DEF Div
<1> DEFINE n == fieldP
<1>3. n \in Int
  BY FieldP
<1>4. x * (k * n) + y * (l * n) = (x * k + y * l) * n /\ x * k + y * l \in Int
  <2> HIDE DEF n
  <2> QED
    BY <1>3
<1>5. QED
  BY <1>1, <1>2, <1>4 DEF Div

LEMMA DivTimes ==
  ASSUME NEW a \in Int, Div(a), NEW x \in Int
  PROVE  Div(x * a) /\ Div(a * x) /\ Div(-a)
<1>1. Div(x * a + 0 * a) /\ Div((-1) * a + 0 * a)
  BY DivComb
<1>2. x * a + 0 * a = x * a /\ a * x = x * a /\ (-1) * a + 0 * a = -a
  OBVIOUS
<1>3. QED
  BY <1>1, <1>2

LEMMA DivSum ==
  ASSUME NEW a \in Int, NEW b \in Int, Div(a), Div(b)
  PROVE  Div(a + b) /\ Div(a - b)
<1>1. PICK k \in Int : a = k * fieldP
  BY DEF Div
<1>2. PICK l \in Int : b = l * fieldP
  BY DEF Div
<1> DEFINE n == fieldP
<1>3. n \in Int
  BY FieldP
<1>4. /\ k * n + l * n = (k + l) * n /\ k + l \in Int
      /\ k * n - l * n = (k - l) * n /\ k - l \in Int
  <2> HIDE DEF n
  <2> QED
    BY <1>3
<1>5. QED
  BY <1>1, <1>2, <1>4 DEF Div

(* fe(x) is congruent to x, and nothing else in Field is.                  *)
LEMMA FeFacts ==
  ASSUME NEW x \in Int
  PROVE  fe(x) \in Field /\ fe(x) \in Int /\ Div(x - fe(x)) /\ Div(fe(x) - x)
<1> DEFINE n == fieldP q == x \div n
<1>1. n \in Nat /\ n > 0
  BY FieldP
<1>2. x = n * q + fe(x) /\ fe(x) \in 0..(n - 1) /\ q \in Int
  <2> HIDE DEF n
  <2> QED
    BY <1>1, DivMod DEF fe, n
<1>3. x - fe(x) = q * n /\ fe(x) - x = (-q) * n
  <2> HIDE DEF n, q
  <2> QED
    BY <1>1, <1>2
<1>4. QED
  BY <1>2, <1>3 DEF Div, Field

LEMMA SmallDiv ==
  ASSUME NEW x \in Int, -fieldP < x, x < fieldP, Div(x)
  PROVE  x = 0
<1>1. PICK k \in Int : x = k * fieldP
  BY DEF Div
<1> DEFINE n == fieldP
<1>2. n \in Nat /\ n > 0
  BY FieldP
<1>3. -n < k * n /\ k * n < n
  BY <1>1
<1> HIDE DEF n
<1>4. k = 0
  BY <1>2, <1>3
<1>5. QED
  BY <1>1, <1>2, <1>4 DEF n

LEMMA FieldInt == ASSUME NEW x \in Field PROVE x \in Int /\ 0 <= x /\ x < fieldP
BY FieldP DEF Field

LEMMA FeUnique ==
  ASSUME NEW x \in Int, NEW y \in Field, Div(x - y)
  PROVE  fe(x) = y
<1>1. /\ fe(x) \in Field /\ fe(x) \in Int /\ y \in Int /\ 0 <= y /\ y < fieldP
      /\ 0 <= fe(x) /\ fe(x) < fieldP /\ Div(x - fe(x)) /\ fieldP \in Nat
  BY FeFacts, FieldInt, FieldP
<1>2. Div((x - y) - (x - fe(x))) /\ (x - y) - (x - fe(x)) = fe(x) - y
  <2> DEFINE v == x - y w == x - fe(x)
  <2>1. v \in Int /\ w \in Int /\ Div(v) /\ Div(w) /\ v - w = fe(x) - y
    BY <1>1
  <2> HIDE DEF v, w
  <2>2. Div(v - w)
    BY <2>1, DivSum
  <2>3. QED
    BY <2>1, <2>2 DEF v, w
<1>3. -fieldP < fe(x) - y /\ fe(x) - y < fieldP /\ fe(x) - y \in Int
  BY <1>1
<1>4. fe(x) - y = 0
  BY <1>2, <1>3, SmallDiv
<1>5. QED
  BY <1>1, <1>4

(* fieldP is prime: what it does not divide has an inverse.                *)
LEMMA Bezout ==
  ASSUME NEW x \in Int, ~Div(x)
  PROVE  \E y \in Int : Div(x * y - 1)
<1> DEFINE n == fieldP
           Lin(z) == \E y, k \in Int : z = x * y + k * n
           S == {m \in Nat : m > 0 /\ Lin(m)}
<1>0. n \in Nat /\ n > 4
  BY FieldP
<1>1. S # {}
  <2>1. n > 0 /\ n = x * 0 + 1 * n
    BY <1>0
  <2>2. QED
    BY <1>0, <2>1
<1>2. PICK m \in S : \A j \in S : m <= j
  <2> HIDE DEF S
  <2>1. S \subseteq Nat
    BY DEF S
  <2>2. QED
    BY <1>1, <2>1, Least
<1>3. PICK y \in Int, k \in Int : m = x * y + k * n
  OBVIOUS
<1>4. m \in Nat /\ m > 0
  OBVIOUS
<1>5. ASSUME NEW z \in Int, Lin(z)
      PROVE  z % m = 0
  <2>0. PICK a \in Int, b \in Int : z = x * a + b * n
    BY <1>5
  <2>1. z = m * (z \div m) + (z % m) /\ z % m \in 0..(m - 1) /\ z \div m \in Int
    BY <1>4, DivMod
  <2> DEFINE q == z \div m r == z % m
  <2>2. r = x * (a - q * y) + (b - q * k) * n
    <3>1. z = m * q + r /\ q \in Int /\ r \in Int
      BY <2>1
    <3> HIDE DEF q, r, n, S
    <3>2. QED
      BY <1>0, <1>3, <1>4, <2>0, <3>1
  <2>3. r > 0 => r \in S
    <3>1. a - q * y \in Int /\ b - q * k \in Int /\ r \in Nat
      BY <2>1
    <3> HIDE DEF q, r
    <3>2. QED
      BY <2>2, <3>1
  <2>4. r \in 0..(m - 1) /\ ~(r > 0)
    <3>1. r \in 0..(m - 1)
      BY <2>1
    <3> HIDE DEF S, r
    <3>2. r \in S => m <= r
      BY <1>2
    <3>3. QED
      BY <1>4, <2>3, <3>1, <3>2
  <2>5. QED
    BY <2>4
<1>6. x % m = 0 /\ n % m = 0
  <2>1. x = x * 1 + 0 * n /\ n = x * 0 + 1 * n /\ n \in Int
    BY <1>0
  <2>2. Lin(x) /\ Lin(n)
    BY <2>1
  <2> HIDE DEF Lin, n
  <2>3. QED
    BY <1>5, <2>1, <2>2
<1>7. m <= n
  <2>1. n \in S
    <3>1. n \in Nat /\ n > 0 /\ n = x * 0 + 1 * n /\ 0 \in Int /\ 1 \in Int
      BY <1>0
    <3> HIDE DEF n
    <3>2. QED
      BY <3>1
  <2> HIDE DEF S
  <2>2. QED
    BY <1>2, <2>1
<1>8. m = 1
  <2>1. m \in 2..(n - 1) => FALSE
    BY <1>6, EllAssumption DEF EllAssumption
  <2>2. m = n => FALSE
    <3>1. m = n => fe(x) = 0
      BY <1>6 DEF fe
    <3>2. QED
      BY <3>1, FeFacts
  <2>3. QED
    BY <1>0, <1>4, <1>7, <2>1, <2>2
<1>9. x * y - 1 = (-k) * n
  <2> HIDE DEF n, S
  <2> QED
    BY <1>0, <1>3, <1>8
<1>10. QED
  BY <1>9 DEF Div

(* Of the elements of Field, fieldP divides zero alone.                    *)
LEMMA NotDiv == ASSUME NEW x \in Field, x # 0 PROVE ~Div(x)
<1>1. x \in Int /\ 0 <= x /\ x < fieldP
  BY FieldInt
<1>2. -fieldP < x
  BY <1>1, FieldP
<1>3. QED
  BY <1>1, <1>2, SmallDiv

LEMMA DivZero == Div(0)
<1>1. 0 = 0 * fieldP
  BY FieldP
<1>2. QED
  BY <1>1 DEF Div

(* The field has inverses, and nothing in it divides zero.                 *)
LEMMA InvertFacts ==
  ASSUME NEW x \in Field, x # 0
  PROVE  Invert(x) \in Field /\ Invert(x) \in Int /\ Div(x * Invert(x) - 1)
<1>1. x \in Int
  BY FieldInt
<1>2. PICK y \in Int : Div(x * y - 1)
  BY <1>1, NotDiv, Bezout
<1> DEFINE z == fe(y)
<1>3. z \in Field /\ z \in Int /\ Div(y - z)
  BY FeFacts
<1>4. Div(x * z - 1)
  <2> DEFINE a == x * y - 1 b == y - z
  <2>1. a \in Int /\ b \in Int /\ Div(a) /\ Div(b)
    BY <1>1, <1>2, <1>3
  <2>2. x * z - 1 = a - x * b
    <3> HIDE DEF z
    <3> QED
      BY <1>1, <1>3
  <2> HIDE DEF a, b, z
  <2>3. Div(x * b) /\ x * b \in Int
    BY <1>1, <2>1, DivTimes
  <2> DEFINE c == x * b
  <2> HIDE DEF c
  <2>4. Div(a - c)
    BY <2>1, <2>3, DivSum DEF c
  <2>5. QED
    BY <2>2, <2>4 DEF c
<1>5. fe(x * z) = 1
  <2>1. 1 \in Field /\ x * z \in Int
    BY <1>1, <1>3, FieldP DEF Field
  <2> DEFINE b == x * z
  <2> HIDE DEF b, z
  <2>2. fe(b) = 1
    BY <1>4, <2>1, FeUnique DEF b
  <2>3. QED
    BY <2>2 DEF b
<1>6. Invert(x) \in Field /\ fe(x * Invert(x)) = 1
  BY <1>3, <1>5 DEF Invert
<1>7. Invert(x) \in Int
  BY <1>6, FieldInt
<1> DEFINE b == x * Invert(x)
<1>8. b \in Int /\ fe(b) = 1
  BY <1>1, <1>6, <1>7
<1>9. Div(b - 1)
  <2> HIDE DEF b
  <2> QED
    BY <1>8, FeFacts
<1>10. QED
  BY <1>6, <1>7, <1>9

LEMMA NoZeroDivisors ==
  ASSUME NEW a \in Int, NEW b \in Int, Div(a * b), ~Div(a)
  PROVE  Div(b)
<1>1. PICK y \in Int : Div(a * y - 1)
  BY Bezout
<1> DEFINE v == a * b w == a * y - 1
<1>2. v \in Int /\ w \in Int /\ Div(v) /\ Div(w) /\ b = y * v + (-b) * w /\ -b \in Int
  BY <1>1
<1> DEFINE m == -b
<1> HIDE DEF v, w, m
<1>3. Div(y * v + m * w)
  BY <1>2, DivComb DEF m
<1>4. QED
  BY <1>2, <1>3 DEF m

-----------------------------------------------------------------------------
(* Squares                                                                 *)

Sq(a) == \E r \in Int : Div(r * r - a)

(* Being a square: congruent numbers, the model's Square, and products.    *)
LEMMA SqCong ==
  ASSUME NEW a \in Int, NEW b \in Int, Div(a - b), Sq(a)
  PROVE  Sq(b)
<1>1. PICK r \in Int : Div(r * r - a)
  BY DEF Sq
<1> DEFINE v == r * r - a w == a - b
<1>2. v \in Int /\ w \in Int /\ Div(v) /\ Div(w) /\ v + w = r * r - b
  BY <1>1
<1> HIDE DEF v, w
<1>3. Div(v + w)
  BY <1>2, DivSum
<1>4. QED
  BY <1>2, <1>3 DEF Sq

LEMMA SquareSq ==
  ASSUME NEW a \in Int
  PROVE  Square(fe(a)) <=> Sq(a)
<1>0. fe(a) \in Field /\ fe(a) \in Int /\ Div(a - fe(a)) /\ Div(fe(a) - a)
  BY FeFacts
<1>1. ASSUME Square(fe(a)) PROVE Sq(a)
  <2>1. PICK r \in Field : fe(r * r) = fe(a)
    BY <1>1 DEF Square
  <2>2. r \in Int /\ r * r \in Int
    BY FieldInt
  <2> DEFINE s == r * r
  <2>3. Div(s - fe(a))
    <3> HIDE DEF s
    <3> QED
      BY <2>1, <2>2, FeFacts DEF s
  <2>4. Sq(fe(a))
    BY <2>2, <2>3 DEF Sq
  <2>5. QED
    BY <1>0, <2>4, SqCong
<1>2. ASSUME Sq(a) PROVE Square(fe(a))
  <2>1. Sq(fe(a))
    BY <1>0, <1>2, SqCong
  <2>2. PICK r \in Int : Div(r * r - fe(a))
    BY <2>1 DEF Sq
  <2> DEFINE s == fe(r)
  <2>3. s \in Field /\ s \in Int /\ Div(s - r)
    BY FeFacts
  <2> DEFINE v == s - r w == r * r - fe(a) m == s + r t == s * s
  <2>4. v \in Int /\ w \in Int /\ m \in Int /\ Div(v) /\ Div(w) /\ m * v + w = t - fe(a) /\ t \in Int
    <3> HIDE DEF s
    <3> QED
      BY <1>0, <2>2, <2>3
  <2> HIDE DEF v, w, m, t, s
  <2>5. Div(m * v) /\ m * v \in Int
    BY <2>4, DivTimes
  <2> DEFINE c == m * v
  <2> HIDE DEF c
  <2>6. Div(c + w)
    BY <2>4, <2>5, DivSum DEF c
  <2>7. fe(t) = fe(a)
    BY <1>0, <2>4, <2>6, FeUnique DEF c
  <2>8. QED
    BY <2>3, <2>7 DEF Square, t
<1>3. QED
  BY <1>1, <1>2

LEMMA SqMul ==
  ASSUME NEW a \in Int, NEW b \in Int, Sq(a), Sq(b)
  PROVE  Sq(a * b)
<1>1. PICK r \in Int : Div(r * r - a)
  BY DEF Sq
<1>2. PICK s \in Int : Div(s * s - b)
  BY DEF Sq
<1> DEFINE v == r * r - a w == s * s - b x == s * s
<1>3. /\ v \in Int /\ w \in Int /\ x \in Int /\ Div(v) /\ Div(w)
      /\ x * v + a * w = (r * s) * (r * s) - a * b
  BY <1>1, <1>2
<1> HIDE DEF v, w, x
<1>4. Div(x * v + a * w)
  BY <1>3, DivComb
<1>5. r * s \in Int
  OBVIOUS
<1>6. QED
  BY <1>3, <1>4, <1>5 DEF Sq

(* A square times c * c, with c not zero, comes from a square.             *)
LEMMA SqCancel ==
  ASSUME NEW a \in Int, NEW c \in Int, ~Div(c), Sq(a * (c * c))
  PROVE  Sq(a)
<1>1. PICK r \in Int : Div(r * r - a * (c * c))
  BY DEF Sq
<1>2. PICK y \in Int : Div(c * y - 1)
  BY Bezout
<1> DEFINE v == r * r - a * (c * c) w == c * y - 1 x == y * y m == a * (c * y + 1)
<1>3. /\ v \in Int /\ w \in Int /\ x \in Int /\ m \in Int /\ Div(v) /\ Div(w)
      /\ x * v + m * w = (r * y) * (r * y) - a
  BY <1>1, <1>2
<1> HIDE DEF v, w, x, m
<1>4. Div(x * v + m * w)
  BY <1>3, DivComb
<1>5. r * y \in Int
  OBVIOUS
<1>6. QED
  BY <1>3, <1>4, <1>5 DEF Sq

-----------------------------------------------------------------------------
(* The two forms of the curve                                              *)

(* The right hand side of the Montgomery form; it depends on u mod fieldP. *)
Rhs(z) == z * (z * z + feA * z + 1)

LEMMA RhsCong ==
  ASSUME NEW w \in Int, NEW z \in Int, Div(w - z)
  PROVE  Rhs(w) \in Int /\ Rhs(z) \in Int /\ (Sq(Rhs(w)) <=> Sq(Rhs(z)))
<1> DEFINE A == feA
           v == w - z
           m == w * w + w * z + z * z + A * (w + z) + 1
           gw == w * (w * w + A * w + 1)
           gz == z * (z * z + A * z + 1)
<1>0. A \in Int
  BY FieldP
<1>1. v \in Int /\ m \in Int /\ Div(v) /\ gw \in Int /\ gz \in Int /\ m * v = gw - gz /\ -(m * v) = gz - gw
  <2> HIDE DEF A
  <2> QED
    BY <1>0
<1> HIDE DEF A, v, m, gw, gz
<1>2. Div(m * v) /\ m * v \in Int
  BY <1>1, DivTimes
<1> DEFINE c == m * v
<1> HIDE DEF c
<1>3. c \in Int /\ Div(c) /\ c = gw - gz /\ -c = gz - gw
  BY <1>1, <1>2 DEF c
<1>4. Div(-c)
  BY <1>3, DivTimes
<1>5. Div(gw - gz) /\ Div(gz - gw)
  BY <1>3, <1>4
<1>6. Sq(gw) <=> Sq(gz)
  BY <1>1, <1>5, SqCong
<1>7. QED
  BY <1>1, <1>6 DEF Rhs, gw, gz, A

(* What is zero for a point of the Edwards form.                           *)
CurveEq(D, x, y) == y * y - x * x - 1 - D * ((x * x) * (y * y))

(* What feD is chosen for: d (A + 2) = -(A - 2).                           *)
LEMMA TheD == feD \in Field /\ feD \in Int /\ Div(feD * (feA + 2) + (feA - 2))
<1> DEFINE A == feA D == feD a == A + 2 i == Invert(fe(a)) j == -(A - 2) * i
<1>1. a \in Field /\ a # 0 /\ A \in Int /\ a \in Int /\ fe(a) = a
  <2>1. A \in Int /\ a \in Int /\ a \in Field /\ a # 0 /\ a - a = 0
    BY FieldP DEF Field
  <2> HIDE DEF a
  <2>2. fe(a) = a
    BY <2>1, DivZero, FeUnique
  <2>3. QED
    BY <2>1, <2>2
<1>2. i \in Int /\ Div(a * i - 1)
  <2>1. i = Invert(a)
    BY <1>1
  <2> HIDE DEF a, i
  <2>2. QED
    BY <1>1, <2>1, InvertFacts
<1>3. j \in Int /\ D \in Field /\ D \in Int /\ Div(D - j)
  <2>1. j \in Int /\ D = fe(j)
    <3>1. D = fe(j)
      BY DEF feD
    <3>2. j \in Int
      <4> HIDE DEF i, A
      <4> QED
        BY <1>1, <1>2
    <3>3. QED
      BY <3>1, <3>2
  <2> HIDE DEF j, D
  <2>2. QED
    BY <2>1, FeFacts
<1>4. Div(D * a + (A - 2))
  <2> DEFINE h == D - j k == a * i - 1 m == -(A - 2) z == D * a + (A - 2)
  <2>1. h \in Int /\ k \in Int /\ m \in Int /\ z \in Int /\ z = a * h + m * k
    <3> HIDE DEF a, D, i, A
    <3> QED
      BY <1>1, <1>2, <1>3
  <2>2. Div(h) /\ Div(k)
    BY <1>2, <1>3
  <2> HIDE DEF h, k, m, z, a
  <2>3. Div(a * h + m * k)
    BY <1>1, <2>1, <2>2, DivComb
  <2>4. QED
    BY <2>1, <2>3 DEF z
<1>5. QED
  BY <1>3, <1>4

(* Point, with the equation of the Edwards form in place of its residues.  *)
LEMMA CurveDef ==
  ASSUME NEW x \in Field, NEW y \in Field
  PROVE  /\ x \in Int /\ y \in Int /\ CurveEq(feD, x, y) \in Int
         /\ <<x, y>> \in Point <=> Div(CurveEq(feD, x, y))
<1> DEFINE D == feD q == x*x*y*y f == fe(q) e == y*y - x*x - 1 - D * f c == CurveEq(feD, x, y)
<1>1. x \in Int /\ y \in Int /\ D \in Int
  BY FieldInt, TheD
<1>2. q \in Int
  BY <1>1
<1>3. f \in Int /\ Div(f - q)
  <2> HIDE DEF q
  <2> QED
    BY <1>2, FeFacts
<1> DEFINE k == D * (f - q)
<1>4. Div(k) /\ k \in Int
  <2> DEFINE v == f - q
  <2>1. v \in Int /\ Div(v)
    BY <1>2, <1>3
  <2> HIDE DEF v, D
  <2>2. Div(D * v) /\ D * v \in Int
    BY <1>1, <2>1, DivTimes
  <2>3. QED
    BY <2>2 DEF v
<1>5. e \in Int /\ c \in Int /\ c - k = e /\ e + k = c
  <2> HIDE DEF f, D
  <2>1. q = (x * x) * (y * y)
    BY <1>1
  <2>2. c = y*y - x*x - 1 - D * q
    BY <2>1 DEF CurveEq, D
  <2>3. D * (f - q) = D * f - D * q /\ D * f \in Int /\ D * q \in Int
    BY <1>1, <1>2, <1>3
  <2>4. y*y \in Int /\ x*x \in Int
    BY <1>1
  <2> DEFINE l == D * f n == D * q yy == y*y xx == x*x
  <2>5. /\ l \in Int /\ n \in Int /\ yy \in Int /\ xx \in Int
      /\ e = yy - xx - 1 - l /\ c = yy - xx - 1 - n /\ k = l - n
    BY <2>2, <2>3, <2>4
  <2> HIDE DEF l, n, yy, xx, e, c, k
  <2>6. QED
    BY <2>5
<1>6. Div(e) <=> Div(c)
  <2> HIDE DEF e, c, k
  <2>1. Div(e) => Div(e + k)
    BY <1>4, <1>5, DivSum
  <2>2. Div(c) => Div(c - k)
    BY <1>4, <1>5, DivSum
  <2>3. QED
    BY <1>5, <2>1, <2>2
<1>7. Div(e) <=> fe(e) = 0
  <2>1. 0 \in Field
    BY FieldP DEF Field
  <2> HIDE DEF e
  <2>2. e - 0 = e
    BY <1>5
  <2>3. Div(e) => fe(e) = 0
    BY <1>5, <2>1, <2>2, FeUnique
  <2>4. Div(e - fe(e))
    BY <1>5, FeFacts
  <2>5. QED
    BY <2>2, <2>3, <2>4
<1>8. <<x, y>> \in Point <=> fe(e) = 0
  BY DEF Point
<1>9. QED
  <2> HIDE DEF e, c
  <2>1. <<x, y>> \in Point <=> Div(c)
    BY <1>6, <1>7, <1>8
  <2>2. QED
    BY <1>1, <1>5, <2>1 DEF c

LEMMA PointFacts ==
  ASSUME NEW P \in Point
  PROVE  /\ P[1] \in Field /\ P[2] \in Field /\ P = <<P[1], P[2]>>
         /\ P[1] \in Int /\ P[2] \in Int
         /\ CurveEq(feD, P[1], P[2]) \in Int /\ Div(CurveEq(feD, P[1], P[2]))
<1>1. P[1] \in Field /\ P[2] \in Field /\ P = <<P[1], P[2]>>
  BY DEF Point
<1> DEFINE x == P[1] y == P[2]
<1>2. x \in Field /\ y \in Field /\ <<x, y>> \in Point
  BY <1>1
<1> HIDE DEF x, y
<1>3. x \in Int /\ y \in Int /\ CurveEq(feD, x, y) \in Int /\ Div(CurveEq(feD, x, y))
  BY <1>2, CurveDef
<1>4. QED
  BY <1>1, <1>3 DEF x, y

(* (x, y) is on the curve, without the constant d.                         *)
LEMMA OnCurve ==
  ASSUME NEW P \in Point, NEW x, NEW y, x = P[1], y = P[2]
  PROVE  /\ x \in Field /\ y \in Field /\ x \in Int /\ y \in Int
         /\ Div((feA + 2) * (y * y - 1) - (x * x) * ((feA + 2) - (feA - 2) * (y * y)))
<1> DEFINE A == feA D == feD X == x * x Y == y * y c == CurveEq(feD, x, y) q == X * Y
           a == A + 2 b == A - 2 h == D * a + b want == a * (Y - 1) - X * (a - b * Y)
<1>1. /\ x \in Field /\ y \in Field /\ x \in Int /\ y \in Int /\ c \in Int /\ Div(c)
      /\ A \in Int /\ D \in Int /\ Div(h)
  BY PointFacts, TheD, FieldP
<1>2. a \in Int /\ q \in Int /\ h \in Int /\ want \in Int /\ want = a * c + q * h
  <2>1. c = Y - X - 1 - D * q
    BY DEF CurveEq
  <2>2. X \in Int /\ Y \in Int /\ a \in Int /\ b \in Int
    BY <1>1
  <2> HIDE DEF X, Y, D, a, b, c
  <2>3. q \in Int /\ h \in Int /\ want \in Int
    BY <1>1, <2>2
  <2>4. want = a * (Y - X - 1 - D * q) + q * h
    BY <1>1, <2>2
  <2>5. QED
    BY <2>1, <2>2, <2>3, <2>4
<1>3. Div(want)
  <2> HIDE DEF a, q, h, want, c
  <2>1. Div(a * c + q * h)
    BY <1>1, <1>2, DivComb
  <2>2. QED
    BY <1>2, <2>1
<1>4. QED
  BY <1>1, <1>3

(* What EllAssumption says of squares.                                     *)
LEMMA Squares == Sq(-(feA + 2)) /\ ~Sq(feA * feA - 4) /\ ~Sq(2)
<1>1. feA \in Int /\ 2 \in Field
  BY FieldP DEF Field
<1> DEFINE a == -(feA + 2) b == feA * feA - 4
<1>2. a \in Int /\ b \in Int
  BY <1>1
<1>3. Square(fe(a)) /\ ~Square(fe(b)) /\ ~Square(2)
  BY EllAssumption DEF EllAssumption
<1> HIDE DEF a, b
<1>4. Sq(a) /\ ~Sq(b)
  BY <1>2, <1>3, SquareSq
<1>5. fe(2) = 2
  <2>1. 2 - 2 = 0
    OBVIOUS
  <2>2. QED
    BY <1>1, <2>1, DivZero, FeUnique
<1>6. ~Sq(2)
  BY <1>3, <1>5, SquareSq
<1>7. QED
  BY <1>4, <1>6 DEF a, b

(* A sum of two multiples.                                                 *)
LEMMA DivMake ==
  ASSUME NEW a \in Int, NEW b \in Int, NEW x \in Int, NEW y \in Int, NEW z \in Int,
         Div(a), Div(b), z = x * a + y * b
  PROVE  Div(z)
BY DivComb

(* The equation of the curve, with u for (1 + y) / (1 - y).                *)
LEMMA Birational ==
  ASSUME NEW A \in Int, NEW x \in Int, NEW y \in Int, NEW u \in Int,
         Div((A + 2) * (y * y - 1) - (x * x) * ((A + 2) - (A - 2) * (y * y))),
         Div((1 - y) * u - (1 + y)), ~Div(1 - y)
  PROVE  Div((u * (u * u + A * u + 1)) * ((x * (1 - y)) * (x * (1 - y))) + (A + 2) * ((1 + y) * (1 + y)))
<1> DEFINE m == 1 - y s == 1 + y t == m * u v == t - s
           K == (A + 2) - (A - 2) * (y * y)
           c == (A + 2) * (y * y - 1) - (x * x) * K
           g == u * (u * u + A * u + 1)
           n == t * t + t * s + s * s + A * m * (t + s) + m * m
           want == g * ((x * m) * (x * m)) + (A + 2) * (s * s)
<1>1. /\ m \in Int /\ s \in Int /\ t \in Int /\ v \in Int /\ K \in Int /\ c \in Int /\ g \in Int
      /\ n \in Int /\ want \in Int
  OBVIOUS
<1>2. g * (m * m * m) = v * n + s * K
  <2>1. g * (m * m * m) = t * (t * t + A * t * m + m * m)
    <3> HIDE DEF m
    <3> QED
      BY <1>1
  <2>2. t * (t * t + A * t * m + m * m) = (t - s) * n + s * (s * s + A * s * m + m * m)
    <3> HIDE DEF t, s, m
    <3> QED
      BY <1>1
  <2>3. s * s + A * s * m + m * m = K
    OBVIOUS
  <2>4. QED
    BY <2>1, <2>2, <2>3
<1>3. m * want = (x * x) * (g * (m * m * m)) + (A + 2) * (m * (s * s))
  <2> HIDE DEF m, s, g
  <2> QED
    BY <1>1
<1>4. m * want = ((x * x) * n) * v + (-s) * c
  <2>1. m * s = -(y * y - 1)
    OBVIOUS
  <2> DEFINE q == y * y - 1
  <2>2. q \in Int /\ m * s = -q /\ c = (A + 2) * q - (x * x) * K
    BY <2>1
  <2>3. (A + 2) * (m * (s * s)) = (A + 2) * (s * (m * s))
    <3> HIDE DEF m, s
    <3> QED
      BY <1>1
  <2>4. (x * x) * (v * n + s * K) + (A + 2) * (s * (-q))
          = ((x * x) * n) * v + (-s) * ((A + 2) * q - (x * x) * K)
    <3> HIDE DEF s, n, v, K, q
    <3> QED
      BY <1>1, <2>2
  <2>5. QED
    BY <1>2, <1>3, <2>2, <2>3, <2>4, Zenon
<1>5. Div(m * want)
  <2> DEFINE a == (x * x) * n b == -s z == m * want
  <2>1. a \in Int /\ b \in Int /\ z \in Int /\ z = a * v + b * c /\ Div(v) /\ Div(c)
    <3>1. a \in Int /\ b \in Int /\ z \in Int
      <4> HIDE DEF n, m, want, s
      <4> QED
        BY <1>1
    <3>2. QED
      BY <1>4, <3>1
  <2> HIDE DEF a, b, z, v, c
  <2>2. Div(z)
    BY <1>1, <2>1, DivMake
  <2>3. QED
    BY <2>2 DEF z
<1>6. Div(want)
  <2> HIDE DEF m, want
  <2> QED
    BY <1>1, <1>5, NoZeroDivisors DEF m
<1>7. QED
  BY <1>6

(* u comes from a point: then u^3 + A u^2 + u is a square.                 *)
LEMMA PointSquare ==
  ASSUME NEW P \in Point, NEW u, u = MontgomeryU(P), u # 0
  PROVE  u \in Field /\ u \in Int /\ ~Div(u) /\ Sq(Rhs(u)) /\ Rhs(u) \in Int
<1> DEFINE x == P[1] y == P[2] A == feA m == 1 - y s == 1 + y i == Invert(fe(m))
           c == (A + 2) * (y * y - 1) - (x * x) * ((A + 2) - (A - 2) * (y * y))
<1>1. x \in Field /\ y \in Field /\ x \in Int /\ y \in Int /\ Div(c) /\ A \in Int
  BY OnCurve, FieldP
<1>2. m \in Int /\ s \in Int /\ i \in Int /\ (Div(m) => i = 0) /\ (~Div(m) => Div(m * i - 1))
  <2>1. m \in Int /\ s \in Int
    BY <1>1
  <2> HIDE DEF m
  <2>2. fe(m) \in Field /\ fe(m) \in Int /\ Div(m - fe(m)) /\ Div(fe(m) - m)
    BY <2>1, FeFacts
  <2>3. CASE fe(m) = 0
    <3>1. i = 0 /\ m - fe(m) = m
      BY <2>1, <2>3 DEF Invert
    <3>2. QED
      BY <2>1, <2>2, <3>1
  <2>4. CASE fe(m) # 0
    <3>1. i \in Int /\ Div(fe(m) * i - 1)
      BY <2>2, <2>4, InvertFacts
    <3>2. ~Div(m)
      <4>1. Div(m) => Div(m - (m - fe(m)))
        <5> DEFINE w == m - fe(m)
        <5>1. w \in Int /\ Div(w)
          BY <2>1, <2>2
        <5> HIDE DEF w
        <5>2. Div(m) => Div(m - w)
          BY <2>1, <5>1, DivSum
        <5>3. QED
          BY <5>2 DEF w
      <4>2. m - (m - fe(m)) = fe(m) /\ ~Div(fe(m))
        BY <2>1, <2>2, <2>4, NotDiv
      <4>3. QED
        BY <4>1, <4>2
    <3>3. Div(m * i - 1)
      <4> DEFINE f == fe(m) a == m - f b == f * i - 1 z == m * i - 1 o == 1
      <4>1. f \in Int
        BY <2>2
      <4>2. a \in Int /\ b \in Int /\ z \in Int /\ o \in Int /\ z = i * a + o * b
        <5> HIDE DEF f, i
        <5> QED
          BY <2>1, <3>1, <4>1
      <4>3. Div(a) /\ Div(b)
        BY <2>2, <3>1
      <4> HIDE DEF a, b, z, i, o
      <4>4. Div(z)
        BY <3>1, <4>2, <4>3, DivMake
      <4>5. QED
        BY <4>4 DEF z
    <3>4. QED
      BY <2>1, <3>1, <3>2, <3>3
  <2>5. QED
    BY <2>3, <2>4
<1>3. u = fe(s * i)
  BY DEF MontgomeryU
<1>4. u \in Field /\ u \in Int /\ ~Div(u) /\ Div(s * i - u)
  <2> DEFINE z == s * i
  <2>1. z \in Int
    <3> HIDE DEF s, i
    <3> QED
      BY <1>2
  <2> HIDE DEF z
  <2>2. fe(z) \in Field /\ fe(z) \in Int /\ Div(z - fe(z))
    BY <2>1, FeFacts
  <2>3. u = fe(z)
    BY <1>3 DEF z
  <2>4. QED
    BY <2>2, <2>3, NotDiv DEF z
<1>5. ~Div(m) /\ ~Div(s)
  <2>1. ASSUME Div(m) PROVE FALSE
    <3>1. s * i = 0 /\ 0 \in Field
      BY <1>2, <2>1, FieldP DEF Field
    <3>2. fe(0) = 0
      <4>1. Div(0 - 0) /\ 0 \in Int
        BY DivZero
      <4>2. QED
        BY <3>1, <4>1, FeUnique
    <3>3. QED
      BY <1>3, <3>1, <3>2
  <2>2. ASSUME Div(s) PROVE FALSE
    <3> DEFINE a == s * i b == s * i - u
    <3>1. Div(a) /\ a \in Int /\ b \in Int /\ a - b = u /\ Div(b)
      <4> HIDE DEF s, i
      <4>1. Div(s * i)
        BY <1>2, <2>2, DivTimes
      <4>2. QED
        BY <1>2, <1>4, <4>1
    <3> HIDE DEF a, b
    <3>2. Div(a - b)
      BY <3>1, DivSum
    <3>3. QED
      BY <1>4, <3>1, <3>2
  <2>3. QED
    BY <2>1, <2>2
<1>6. Div(m * u - s)
  <2> DEFINE a == m * i - 1 b == s * i - u n == -m z == m * u - s
  <2>1. a \in Int /\ b \in Int /\ n \in Int /\ z \in Int
    <3> HIDE DEF m, s, i
    <3> QED
      BY <1>2, <1>4
  <2>2. z = s * a + n * b
    <3> HIDE DEF m, s, i
    <3>1. m * u - s = s * (m * i - 1) + (-m) * (s * i - u)
      BY <1>2, <1>4
    <3>2. QED
      BY <3>1
  <2>3. Div(a) /\ Div(b)
    BY <1>2, <1>4, <1>5
  <2> HIDE DEF a, b, n, z, s, m, i
  <2>4. Div(z)
    BY <1>2, <2>1, <2>2, <2>3, DivMake
  <2>5. QED
    BY <2>4 DEF z
<1> DEFINE g == u * (u * u + A * u + 1) e == x * m k == A + 2
<1>7. Div(g * (e * e) + k * (s * s))
  <2> HIDE DEF x, y, A
  <2> QED
    BY <1>1, <1>4, <1>5, <1>6, Birational
<1>8. /\ e \in Int /\ k \in Int /\ g \in Int /\ e * e \in Int /\ s * s \in Int
      /\ g * (e * e) \in Int /\ (-k) * (s * s) \in Int /\ -k \in Int
      /\ k * (s * s) = -((-k) * (s * s))
  <2>1. e \in Int /\ k \in Int /\ g \in Int
    <3> HIDE DEF x, y, A, m, s
    <3> QED
      BY <1>1, <1>2, <1>4
  <2> HIDE DEF e, k, g, s
  <2> QED
    BY <1>2, <2>1
<1>9. ~Div(e)
  <2>1. ASSUME Div(x) PROVE FALSE
    <3>1. Div(k * (s * m))
      <4> DEFINE n == x * ((A + 2) - (A - 2) * (y * y)) z == k * (s * m) o == -1 l == -n
      <4>1. n \in Int /\ z \in Int /\ o \in Int /\ l \in Int /\ c \in Int /\ z = o * c + l * x
        <5> HIDE DEF x, y, A
        <5> QED
          BY <1>1
      <4> HIDE DEF n, z, o, l, c, x
      <4>2. x \in Int /\ Div(x) /\ Div(c)
        BY <1>1, <2>1
      <4>3. Div(o * c + l * x)
        BY <4>1, <4>2, DivComb
      <4>4. QED
        BY <4>1, <4>3 DEF z
    <3>2. k \in Field /\ k # 0
      BY FieldP DEF Field
    <3>3. ~Div(k)
      BY <3>2, NotDiv
    <3> HIDE DEF k, s, m
    <3>4. s * m \in Int
      BY <1>2
    <3>5. Div(s * m)
      BY <1>8, <3>1, <3>3, <3>4, NoZeroDivisors
    <3>6. QED
      BY <1>2, <1>5, <3>5, NoZeroDivisors
  <2> HIDE DEF x, m
  <2>2. QED
    BY <1>1, <1>2, <1>5, <2>1, NoZeroDivisors
<1>10. Sq((-k) * (s * s))
  <2>1. Sq(-k)
    BY Squares
  <2> HIDE DEF k, s
  <2>2. Sq(s * s)
    <3>1. s * s - s * s = 0
      BY <1>8
    <3>2. QED
      BY <1>2, <3>1, DivZero DEF Sq
  <2>3. QED
    BY <1>8, <2>1, <2>2, SqMul
<1>11. Sq(g * (e * e))
  <2> DEFINE a == (-k) * (s * s) b == g * (e * e)
  <2>1. a \in Int /\ b \in Int /\ Sq(a) /\ Div(b - a)
    <3> HIDE DEF k, s, g, e
    <3>1. b - a = g * (e * e) + k * (s * s)
      BY <1>8
    <3>2. QED
      BY <1>7, <1>8, <1>10, <3>1
  <2> HIDE DEF a, b
  <2>2. Div(-(b - a)) /\ -(b - a) = a - b
    <3> DEFINE w == b - a
    <3>1. w \in Int /\ Div(w) /\ -w = a - b
      BY <2>1
    <3> HIDE DEF w
    <3>2. Div(-w)
      BY <3>1, DivTimes
    <3>3. QED
      BY <3>1, <3>2 DEF w
  <2>3. Sq(b)
    BY <2>1, <2>2, SqCong
  <2>4. QED
    BY <2>3 DEF b
<1>12. Sq(g)
  <2> HIDE DEF g, e
  <2> QED
    BY <1>8, <1>9, <1>11, SqCancel
<1>13. QED
  BY <1>4, <1>8, <1>12 DEF Rhs

(* u^2 + A u + 1 has no root: A^2 - 4 is not a square.                     *)
LEMMA NoRoot ==
  ASSUME NEW u \in Int
  PROVE  ~Div(u * u + feA * u + 1)
<1> DEFINE A == feA v == u * u + A * u + 1 r == 2 * u + A b == A * A - 4
<1>0. A \in Int
  BY FieldP
<1>1. v \in Int /\ r \in Int /\ b \in Int /\ 4 * v = r * r - b
  <2> HIDE DEF A
  <2> QED
    BY <1>0
<1>2. ASSUME Div(v) PROVE FALSE
  <2> HIDE DEF v, r, b
  <2>1. Div(4 * v)
    BY <1>1, <1>2, DivTimes
  <2>2. Sq(b)
    BY <1>1, <2>1 DEF Sq
  <2>3. QED
    BY <2>2, Squares DEF b
<1>3. QED
  BY <1>2

(* Of u and -u - A, where -2 u (u + A) is a square, one alone is on the    *)
(* curve: 2 is not a square.                                               *)
LEMMA OtherHalf ==
  ASSUME NEW u \in Int, ~Div(u), ~Div(u + feA), Sq(-2 * (u * (u + feA))), Sq(Rhs(u))
  PROVE  ~Sq(Rhs(-u - feA))
<1> DEFINE A == feA w == -u - A q == u * u + A * u + 1 f == -2 * (u * (u + A))
           gu == Rhs(u) gw == Rhs(w) h == gu * gw
<1>0. A \in Int
  BY FieldP
<1>1. q \in Int /\ w \in Int /\ f \in Int /\ gu = u * q /\ gw = w * q
  <2>1. w * w + A * w = u * u + A * u
    <3> HIDE DEF A
    <3> QED
      BY <1>0
  <2>2. w * w + A * w + 1 = q
    <3> HIDE DEF A, w
    <3>1. w * w + A * w + 1 = (w * w + A * w) + 1
      OBVIOUS
    <3>2. QED
      BY <2>1, <3>1
  <2>3. gu = u * q /\ gw = w * q
    BY <2>2, Zenon DEF Rhs
  <2>4. QED
    <3> HIDE DEF A, gu, gw
    <3> QED
      BY <1>0, <2>3
<1>2. gu \in Int /\ gw \in Int /\ h \in Int /\ 2 * h = f * (q * q)
  <2>1. gu \in Int /\ gw \in Int /\ h \in Int
    <3> HIDE DEF q, w, gu, gw
    <3> QED
      BY <1>1
  <2>2. 2 * ((u * q) * (w * q)) = f * (q * q)
    <3> HIDE DEF A, q
    <3> QED
      BY <1>0, <1>1
  <2>3. QED
    BY <1>1, <2>1, <2>2, Zenon
<1>3. ~Div(q)
  BY NoRoot
<1>4. SUFFICES ASSUME Sq(gw) PROVE FALSE
  OBVIOUS
<1>5. Sq(h)
  <2> HIDE DEF gu, gw
  <2> QED
    BY <1>2, <1>4, SqMul DEF gu
<1>6. Sq(q * q)
  <2> HIDE DEF q
  <2>1. q * q - q * q = 0
    BY <1>1
  <2>2. QED
    BY <1>1, <2>1, DivZero DEF Sq
<1>7. Sq((f * (q * q)) * h)
  <2>1. Sq(f)
    BY DEF f
  <2> HIDE DEF f, q, h
  <2> DEFINE s == q * q
  <2>2. s \in Int /\ Sq(s)
    BY <1>1, <1>6
  <2> HIDE DEF s
  <2>3. Sq(f * s) /\ f * s \in Int
    BY <1>1, <2>1, <2>2, SqMul
  <2>4. Sq((f * s) * h)
    BY <1>2, <1>5, <2>3, SqMul
  <2>5. QED
    BY <2>4 DEF s
<1>8. Sq(2 * (h * h))
  <2>1. (f * (q * q)) * h = (2 * h) * h
    BY <1>2, Zenon
  <2>2. (2 * h) * h = 2 * (h * h)
    <3> HIDE DEF h
    <3> QED
      BY <1>2
  <2>3. QED
    BY <1>7, <2>1, <2>2
<1>9. ~Div(h)
  <2>1. ~Div(gu)
    <3> HIDE DEF q, gu
    <3> QED
      BY <1>1, <1>3, NoZeroDivisors
  <2>2. ~Div(w)
    <3> DEFINE k == -u - A
    <3>1. k \in Int /\ -k = u + A
      BY <1>0
    <3> HIDE DEF k
    <3>2. Div(k) => Div(-k)
      BY <3>1, DivTimes
    <3>3. QED
      BY <3>1, <3>2 DEF k
  <2>3. ~Div(gw)
    <3> HIDE DEF q, gw, w
    <3> QED
      BY <1>1, <1>3, <2>2, NoZeroDivisors
  <2> HIDE DEF gu, gw
  <2>4. QED
    BY <1>2, <2>1, <2>3, NoZeroDivisors
<1>10. Sq(2)
  <2> HIDE DEF h
  <2> QED
    BY <1>2, <1>8, <1>9, SqCancel
<1>11. QED
  BY <1>10, Squares

-----------------------------------------------------------------------------
(* Roots and signs                                                         *)

LEMMA OddP == fieldP % 2 = 1
<1>1. fieldP \in Nat /\ fieldP % 8 = 5
  BY EllAssumption DEF EllAssumption
<1>2. QED
  BY <1>1

(* -r, as an element of the field.                                         *)
LEMMA Negate ==
  ASSUME NEW r \in Field
  PROVE  /\ r # 0 => fe(-r) = fieldP - r
         /\ r = 0 => fe(-r) = 0
         /\ Div(fe(-r) * fe(-r) - r * r) /\ fe(-r) \in Field /\ fe(-r) \in Int
<1>1. r \in Int /\ 0 <= r /\ r < fieldP /\ fieldP \in Nat
  BY FieldInt, FieldP
<1>2. r # 0 => fe(-r) = fieldP - r
  <2> SUFFICES ASSUME r # 0 PROVE fe(-r) = fieldP - r
    OBVIOUS
  <2> DEFINE m == -r s == fieldP - r
  <2>1. m \in Int /\ s \in Field /\ m - s = (-1) * fieldP
    BY <1>1 DEF Field
  <2>2. Div(m - s)
    BY <2>1 DEF Div
  <2> HIDE DEF m, s
  <2>3. fe(m) = s
    BY <2>1, <2>2, FeUnique
  <2>4. QED
    BY <2>3 DEF m, s
<1>3. r = 0 => fe(-r) = 0
  <2>1. 0 \in Field /\ 0 - 0 = 0 /\ (r = 0 => -r = 0)
    BY <1>1 DEF Field
  <2>2. fe(0) = 0
    BY <2>1, DivZero, FeUnique
  <2>3. QED
    BY <2>1, <2>2
<1>4. fe(-r) \in Field /\ fe(-r) \in Int /\ Div(fe(-r) - (-r))
  <2> DEFINE m == -r
  <2>1. m \in Int
    BY <1>1
  <2> HIDE DEF m
  <2>2. fe(m) \in Field /\ fe(m) \in Int /\ Div(fe(m) - m)
    BY <2>1, FeFacts
  <2>3. QED
    BY <2>2 DEF m
<1>5. Div(fe(-r) * fe(-r) - r * r)
  <2> DEFINE f == fe(-r) v == f - (-r) m == f - r
  <2>1. v \in Int /\ m \in Int /\ Div(v) /\ f * f - r * r = m * v
    <3> HIDE DEF f
    <3>1. f \in Int /\ Div(f - (-r))
      BY <1>4 DEF f
    <3>2. QED
      BY <1>1, <3>1
  <2> HIDE DEF v, m, f
  <2>2. Div(m * v)
    BY <2>1, DivTimes
  <2>3. QED
    BY <2>1, <2>2 DEF f
<1>6. QED
  BY <1>2, <1>3, <1>4, <1>5

(* A square has an even root.                                              *)
LEMMA EvenRoot ==
  ASSUME NEW x \in Field, Square(x)
  PROVE  Root(x) \in Field /\ Root(x) \in Int /\ Div(Root(x) * Root(x) - x)
<1>1. PICK r \in Field : fe(r * r) = x
  BY DEF Square
<1>2. r \in Int /\ r * r \in Int /\ fieldP \in Nat /\ fieldP % 2 = 1 /\ 0 <= r /\ r < fieldP
  BY FieldInt, FieldP, OddP
<1>3. \E s \in Field : fe(s * s) = x /\ s % 2 = 0
  <2>1. CASE r % 2 = 0
    BY <1>1, <2>1
  <2>2. CASE r % 2 = 1
    <3> DEFINE s == fe(-r)
    <3>1. r # 0
      BY <1>2, <2>2
    <3>2. s = fieldP - r /\ s \in Field /\ s \in Int /\ Div(s * s - r * r)
      BY <3>1, Negate
    <3>3. s % 2 = 0
      BY <1>2, <2>2, <3>2
    <3>4. fe(s * s) = x
      <4> HIDE DEF s
      <4> DEFINE a == s * s b == r * r
      <4>1. a \in Int /\ b \in Int /\ Div(a - b) /\ fe(b) = x
        BY <1>1, <1>2, <3>2
      <4> HIDE DEF a, b
      <4>2. x \in Int /\ Div(b - x)
        BY <4>1, FeFacts, FieldInt
      <4> DEFINE v == a - b w == b - x
      <4>3. v \in Int /\ w \in Int /\ Div(v) /\ Div(w) /\ v + w = a - x
        BY <4>1, <4>2
      <4> HIDE DEF v, w
      <4>4. Div(v + w)
        BY <4>3, DivSum
      <4>5. fe(a) = x
        BY <4>1, <4>3, <4>4, FeUnique
      <4>6. QED
        BY <4>5 DEF a
    <3>5. QED
      BY <3>2, <3>3, <3>4
  <2>3. QED
    BY <1>2, <2>1, <2>2
<1>4. Root(x) \in Field /\ fe(Root(x) * Root(x)) = x
  BY <1>3 DEF Root
<1> DEFINE t == Root(x)
<1>5. t \in Field /\ fe(t * t) = x
  BY <1>4
<1> HIDE DEF t
<1>6. t \in Int /\ t * t \in Int
  BY <1>5, FieldInt
<1> DEFINE a == t * t
<1>7. a \in Int /\ fe(a) = x
  BY <1>5, <1>6
<1>8. Div(a - x)
  <2> HIDE DEF a
  <2> QED
    BY <1>7, FeFacts
<1>9. QED
  BY <1>5, <1>6, <1>8 DEF t

(* The representative is the smaller one of r and -r.                      *)
LEMMA PositiveFacts ==
  ASSUME NEW r \in Field
  PROVE  /\ Positive(r) \in Nat /\ 2 * Positive(r) < fieldP
         /\ Div(Positive(r) * Positive(r) - r * r)
<1>1. r \in Int /\ fieldP \in Nat /\ fieldP % 2 = 1 /\ 0 <= r /\ r < fieldP
  BY FieldInt, FieldP, OddP
<1> DEFINE m == 2 * r
<1>2. m \in Int /\ m % 2 = 0
  BY <1>1
<1>3. CASE m < fieldP
  <2>1. m \in Field /\ m - m = 0
    BY <1>1, <1>3 DEF Field
  <2>2. fe(m) = m
    <3> HIDE DEF m
    <3> QED
      BY <1>2, <2>1, DivZero, FeUnique
  <2>3. Bit(fe(m), 1) = 0
    <3> HIDE DEF m
    <3>1. m \div 1 = m
      BY <1>2
    <3>2. QED
      BY <1>2, <2>2, <3>1 DEF Bit
  <2>4. Positive(r) = r
    BY <2>3 DEF Positive, Select
  <2>5. r * r - r * r = 0
    BY <1>1
  <2>6. QED
    BY <1>1, <1>3, <2>4, <2>5, DivZero
<1>4. CASE m >= fieldP
  <2> DEFINE s == m - fieldP
  <2>1. s \in Field /\ s \in Int /\ s % 2 = 1 /\ m - s = 1 * fieldP
    BY <1>1, <1>4 DEF Field
  <2>2. fe(m) = s
    <3>1. Div(m - s)
      BY <2>1 DEF Div
    <3> HIDE DEF m, s
    <3>2. QED
      BY <1>2, <2>1, <3>1, FeUnique
  <2>3. Bit(fe(m), 1) = 1
    <3> HIDE DEF m, s
    <3>1. s \div 1 = s
      BY <2>1
    <3>2. QED
      BY <2>1, <2>2, <3>1 DEF Bit
  <2>4. Positive(r) = fe(-r)
    BY <2>3 DEF Positive, Select
  <2>5. r # 0 /\ fe(-r) = fieldP - r
    BY <1>1, <1>4, Negate
  <2>6. fieldP - r \in Nat /\ 2 * (fieldP - r) < fieldP
    <3>1. m # fieldP
      BY <1>1, <1>2
    <3>2. QED
      BY <1>1, <1>4, <3>1
  <2>7. QED
    BY <2>4, <2>5, <2>6, Negate
<1>5. QED
  BY <1>1, <1>2, <1>3, <1>4

-----------------------------------------------------------------------------
(* There and back                                                          *)

(* The padding is above the representative.                                *)
LEMMA Unpad ==
  ASSUME NEW r \in Nat, 2 * r < fieldP, NEW k \in Nat
  PROVE  (r + Top * k) % Top = r
<1>1. Top \in Nat /\ fieldP <= 2 * Top /\ fieldP \in Nat
  BY EllAssumption DEF EllAssumption
<1>2. r < Top
  BY <1>1
<1> DEFINE n == Top z == r + n * k q == z \div n m == z % n
<1>3. z \in Int /\ n \in Nat /\ n > 0
  <2> HIDE DEF n
  <2>1. n \in Nat /\ n > 0
    BY <1>1, <1>2 DEF n
  <2>2. QED
    BY <2>1
<1>4. z = n * q + m /\ m \in 0..(n - 1) /\ q \in Int
  <2> HIDE DEF z, n
  <2> QED
    BY <1>3, DivMod
<1>5. m - r = n * (k - q)
  <2> HIDE DEF q, m, n
  <2>1. r + n * k = n * q + m /\ n \in Int /\ m \in Int
    BY <1>3, <1>4
  <2>2. n * (k - q) = n * k - n * q /\ n * k \in Int /\ n * q \in Int
    BY <1>4, <2>1
  <2>3. QED
    BY <2>1, <2>2
<1> DEFINE j == k - q
<1>6. j \in Int /\ -n < n * j /\ n * j < n
  <2>1. -n < m - r /\ m - r < n
    <3> HIDE DEF n, m
    <3> QED
      BY <1>2, <1>3, <1>4 DEF n
  <2>2. j \in Int
    BY <1>4
  <2>3. QED
    BY <1>5, <2>1, <2>2
<1>7. j = 0
  <2> HIDE DEF n, j
  <2> QED
    BY <1>3, <1>6
<1>8. m = r
  <2>1. n * 0 = 0 /\ m \in Int
    <3> HIDE DEF n, m
    <3> QED
      BY <1>3, <1>4
  <2>2. m - r = 0
    BY <1>5, <1>7, <2>1
  <2> HIDE DEF m
  <2>3. QED
    BY <2>1, <2>2
<1>9. QED
  BY <1>8

(* What the two branches share, with w for b and f for w * t.              *)
LEMMA Branch ==
  ASSUME NEW a \in Int, NEW b \in Int, NEW w \in Int, NEW t \in Int, NEW r \in Int, NEW f \in Int,
         Div(r * r - f * f), Div(f - w * t), Div(w - b), Div((-2 * (a * b)) * (t * t) - 1)
  PROVE  Div((2 * a) * (r * r) + b)
<1> DEFINE c1 == r * r - f * f c2 == f - w * t c3 == w - b c4 == (-2 * (a * b)) * (t * t) - 1
           k1 == 2 * a k2 == (2 * a) * (f + b * t) k3 == ((2 * a) * (f + b * t)) * t k4 == -b
           s1 == k1 * c1 + k2 * c2 s2 == k3 * c3 + k4 * c4
           z == (2 * a) * (r * r) + b
<1>1. /\ c1 \in Int /\ c2 \in Int /\ c3 \in Int /\ c4 \in Int
      /\ k1 \in Int /\ k2 \in Int /\ k3 \in Int /\ k4 \in Int /\ z \in Int
  OBVIOUS
<1>2. z = s1 + s2
  OBVIOUS
<1>3. Div(c1) /\ Div(c2) /\ Div(c3) /\ Div(c4)
  OBVIOUS
<1> HIDE DEF c1, c2, c3, c4, k1, k2, k3, k4
<1>4. Div(s1)
  BY <1>1, <1>3, DivComb
<1>5. Div(s2)
  BY <1>1, <1>3, DivComb
<1>6. s1 \in Int /\ s2 \in Int
  BY <1>1
<1> HIDE DEF s1, s2, z
<1>7. Div(z)
  BY <1>1, <1>2, <1>4, <1>5, <1>6, DivSum
<1>8. QED
  BY <1>7 DEF z

(* uToRepresentative, when it succeeds: the square of the representative   *)
(* is -(u + A) / 2u, or, for the other branch, -u / 2(u + A).              *)
LEMMA Encoded ==
  ASSUME NEW u \in Field, NEW tweak \in Tweak, uToRepresentative(u, tweak).ok
  PROVE  /\ ~Div(u) /\ ~Div(u + feA) /\ Sq(-2 * (u * (u + feA)))
         /\ \E r \in Nat : /\ 2 * r < fieldP
                           /\ uToRepresentative(u, tweak).repr = r + Top * (tweak \div 2)
                           /\ \/ Div((2 * u) * (r * r) + (u + feA))
                              \/ Div((2 * (u + feA)) * (r * r) + u)
<1> DEFINE A == feA
           t2 == fe(u + A)
           v == fe(-2 * fe(u * t2))
           s == SqrtRatio(1, v)
           w0 == Select(t2, u, Bit(tweak, 1))
           r == Positive(fe(w0 * s.root))
<1>1. u \in Int /\ A \in Int
  BY FieldInt, FieldP
<1>2. t2 \in Field /\ t2 \in Int /\ Div(t2 - (u + A))
  <2> DEFINE a == u + A
  <2>1. a \in Int
    BY <1>1
  <2> HIDE DEF a
  <2>2. fe(a) \in Field /\ fe(a) \in Int /\ Div(fe(a) - a)
    BY <2>1, FeFacts
  <2>3. QED
    BY <2>2 DEF a
<1> DEFINE f == fe(u * t2) g == -2 * f
<1>3. f \in Int /\ Div(f - u * t2)
  <2> DEFINE a == u * t2
  <2>1. a \in Int
    <3> HIDE DEF t2
    <3> QED
      BY <1>1, <1>2
  <2> HIDE DEF a
  <2>2. fe(a) \in Int /\ Div(fe(a) - a)
    BY <2>1, FeFacts
  <2>3. QED
    BY <2>2 DEF a
<1>4. v \in Field /\ v \in Int /\ Div(v - g) /\ g \in Int
  <2>1. g \in Int /\ v = fe(g)
    <3>1. g \in Int
      <4> HIDE DEF f
      <4> QED
        BY <1>3
    <3>2. QED
      BY <3>1
  <2> HIDE DEF g, v
  <2>2. QED
    BY <2>1, FeFacts
(* v is -2 u (u + A).                                                      *)
<1> DEFINE z == -2 * (u * (u + A))
<1>5. Div(v - z) /\ z \in Int /\ Div(z - v)
  <2> DEFINE a == v - g b == f - u * t2 c == t2 - (u + A) k == -2 l == -2 * u d == k * b + l * c
  <2>1. /\ a \in Int /\ b \in Int /\ c \in Int /\ k \in Int /\ l \in Int /\ z \in Int /\ d \in Int
        /\ v - z = a + d
    <3> HIDE DEF t2, f, v, A
    <3> QED
      BY <1>1, <1>2, <1>3, <1>4
  <2>2. Div(a) /\ Div(b) /\ Div(c)
    BY <1>2, <1>3, <1>4
  <2>3. Div(d)
    <3> HIDE DEF b, c, k, l
    <3> QED
      BY <2>1, <2>2, DivComb
  <2>4. Div(v - z)
    <3> HIDE DEF a, d, v, z
    <3> QED
      BY <2>1, <2>2, <2>3, DivSum
  <2>5. Div(z - v)
    <3> DEFINE e == v - z
    <3>1. e \in Int /\ Div(e) /\ -e = z - v
      <4> HIDE DEF v, z
      <4> QED
        BY <1>4, <2>1, <2>4
    <3> HIDE DEF e
    <3>2. Div(-e)
      BY <3>1, DivTimes
    <3>3. QED
      BY <3>1, <3>2
  <2>6. QED
    BY <2>1, <2>4, <2>5
<1>6. /\ uToRepresentative(u, tweak).ok = s.isSquare
      /\ uToRepresentative(u, tweak).repr = r + Top * (tweak \div 2)
  BY DEF uToRepresentative
(* s.root is a square root of 1 / v.                                       *)
<1> DEFINE i == Invert(v) x == fe(1 * i) t == s.root
<1>7. v # 0 /\ Square(x) /\ t = Root(x)
  BY <1>6 DEF SqrtRatio
<1>8. i \in Field /\ i \in Int /\ Div(v * i - 1)
  <2> HIDE DEF v
  <2> QED
    BY <1>4, <1>7, InvertFacts
<1>9. x = i /\ x \in Field
  <2>1. 1 * i = i /\ i - i = 0
    <3> HIDE DEF i
    <3> QED
      BY <1>8
  <2>2. fe(i) = i
    <3> HIDE DEF i
    <3> QED
      BY <1>8, <2>1, DivZero, FeUnique
  <2>3. QED
    BY <1>8, <2>1, <2>2
<1>10. t \in Field /\ t \in Int /\ Div(t * t - i)
  <2> HIDE DEF x, t
  <2>1. t \in Field /\ t \in Int /\ Div(t * t - x)
    BY <1>7, <1>9, EvenRoot
  <2>2. QED
    BY <1>9, <2>1
<1>11. Div(v * (t * t) - 1)
  <2> DEFINE a == t * t - i b == v * i - 1 o == 1 c == v * (t * t) - 1
  <2>1. a \in Int /\ b \in Int /\ o \in Int /\ c \in Int /\ c = v * a + o * b
    <3> HIDE DEF v, t, i
    <3> QED
      BY <1>4, <1>8, <1>10
  <2>2. Div(a) /\ Div(b)
    BY <1>8, <1>10
  <2> HIDE DEF a, b, o, c, v
  <2>3. Div(v * a + o * b)
    BY <1>4, <2>1, <2>2, DivComb
  <2>4. QED
    BY <2>1, <2>3 DEF c
<1>12. ~Div(v)
  <2> HIDE DEF v
  <2> QED
    BY <1>4, <1>7, NotDiv
<1>13. ~Div(u) /\ ~Div(u + A)
  <2>1. Div(u) \/ Div(u + A) => Div(z)
    <3> DEFINE a == u + A c == -2 * a d == -2 * u
    <3>1. a \in Int /\ c \in Int /\ d \in Int /\ z = c * u /\ z = d * a
      <4> HIDE DEF A
      <4> QED
        BY <1>1
    <3> HIDE DEF a, c, d, z
    <3>2. Div(u) => Div(c * u)
      BY <1>1, <3>1, DivTimes
    <3>3. Div(a) => Div(d * a)
      BY <1>1, <3>1, DivTimes
    <3>4. QED
      BY <3>1, <3>2, <3>3 DEF a
  <2>2. Div(z) => Div(v)
    <3> DEFINE e == v - z
    <3>1. e \in Int /\ Div(e) /\ z + e = v
      <4> HIDE DEF v, z
      <4> QED
        BY <1>4, <1>5
    <3> HIDE DEF e, z, v
    <3>2. Div(z) => Div(z + e)
      BY <1>5, <3>1, DivSum
    <3>3. QED
      BY <3>1, <3>2
  <2>3. QED
    BY <1>12, <2>1, <2>2
<1>14. Sq(z)
  <2>1. Sq(v)
    <3> DEFINE e == v * t c == v * (t * t) - 1
    <3>1. e \in Int /\ c \in Int /\ e * e - v = v * c
      <4> HIDE DEF v, t
      <4> QED
        BY <1>4, <1>10
    <3>2. Div(v * c)
      <4> HIDE DEF c, v
      <4>1. Div(c)
        BY <1>11 DEF c
      <4>2. QED
        BY <1>4, <3>1, <4>1, DivTimes
    <3> HIDE DEF e, c, v
    <3>3. QED
      BY <3>1, <3>2 DEF Sq
  <2> HIDE DEF v, z
  <2>2. QED
    BY <1>4, <1>5, <2>1, SqCong
<1>15. w0 \in Field /\ w0 \in Int /\ (w0 = u \/ w0 = t2)
  BY <1>1, <1>2 DEF Select
<1>16. Div(z * (t * t) - 1)
  <2> DEFINE q == t * t a == v * q - 1 b == z - v o == 1 c == z * q - 1
  <2>1. a \in Int /\ b \in Int /\ o \in Int /\ q \in Int /\ c \in Int /\ c = o * a + q * b
    <3> HIDE DEF t, v, z
    <3> QED
      BY <1>4, <1>5, <1>10
  <2>2. Div(a) /\ Div(b)
    BY <1>5, <1>11
  <2> HIDE DEF a, b, o, c, q
  <2>3. Div(o * a + q * b)
    BY <2>1, <2>2, DivComb
  <2>4. QED
    BY <2>1, <2>3 DEF c, q
<1> DEFINE h == fe(w0 * t)
<1>17. h \in Field /\ h \in Int /\ Div(h - w0 * t)
  <2> DEFINE a == w0 * t
  <2>1. a \in Int
    <3> HIDE DEF w0, t
    <3> QED
      BY <1>10, <1>15
  <2> HIDE DEF a
  <2>2. fe(a) \in Field /\ fe(a) \in Int /\ Div(fe(a) - a)
    BY <2>1, FeFacts
  <2>3. QED
    BY <2>2 DEF a
<1>18. r \in Nat /\ 2 * r < fieldP /\ Div(r * r - h * h)
  <2> HIDE DEF h
  <2>1. Positive(h) \in Nat /\ 2 * Positive(h) < fieldP /\ Div(Positive(h) * Positive(h) - h * h)
    BY <1>17, PositiveFacts
  <2>2. QED
    BY <2>1 DEF h
<1>19. CASE w0 = t2
  <2> DEFINE b == u + A
  <2>1. b \in Int /\ Div(w0 - b) /\ Div((-2 * (u * b)) * (t * t) - 1) /\ r \in Int
    BY <1>1, <1>2, <1>16, <1>18, <1>19
  <2> HIDE DEF w0, t, b, h, r
  <2>2. Div((2 * u) * (r * r) + b)
    BY <1>1, <1>10, <1>15, <1>17, <1>18, <2>1, Branch
  <2>3. QED
    BY <1>6, <1>13, <1>14, <1>18, <2>2 DEF b
<1>20. CASE w0 = u
  <2> DEFINE b == u + A
  <2>1. u - u = 0 /\ b * u = u * b /\ b \in Int
    <3> HIDE DEF A
    <3> QED
      BY <1>1
  <2>2. Div(w0 - u) /\ Div((-2 * (b * u)) * (t * t) - 1) /\ r \in Int
    BY <1>16, <1>18, <1>20, <2>1, DivZero
  <2> HIDE DEF w0, t, b, h, r
  <2>3. Div((2 * b) * (r * r) + u)
    BY <1>1, <1>10, <1>15, <1>17, <1>18, <2>1, <2>2, Branch
  <2>4. QED
    BY <1>6, <1>13, <1>14, <1>18, <2>3 DEF b
<1>21. QED
  BY <1>15, <1>19, <1>20


(* The library's map: r^2 determines u up to the two halves.               *)
LEMMA Decoded ==
  ASSUME NEW r \in Nat, NEW z \in Int, Div(z * (1 + 2 * r * r) + feA)
  PROVE  \E w \in Field : /\ w \in Int /\ Div(w - z)
                          /\ MontgomeryFlavor(r) = IF Sq(Rhs(w)) THEN w ELSE fe(-w - feA)
<1> DEFINE A == feA m == 1 + 2 * r * r f == fe(m) i == Invert(f) w == fe(-A * i) c == z * m + A
<1>1. A \in Int /\ m \in Int /\ c \in Int /\ r \in Int /\ Div(c)
  BY FieldP
<1>2. f \in Field /\ f \in Int /\ Div(f - m)
  <2> HIDE DEF m
  <2> QED
    BY <1>1, FeFacts
<1>3. f # 0
  <2> SUFFICES ASSUME f = 0 PROVE FALSE
    OBVIOUS
  <2>1. Div(m)
    <3> DEFINE e == f - m
    <3>1. e \in Int /\ Div(e) /\ -e = m
      <4> HIDE DEF f, m
      <4> QED
        BY <1>1, <1>2
    <3> HIDE DEF e
    <3>2. Div(-e)
      BY <3>1, DivTimes
    <3>3. QED
      BY <3>1, <3>2
  <2>2. Div(A)
    <3> DEFINE q == z * m
    <3>1. q \in Int /\ Div(q) /\ c - q = A
      <4> HIDE DEF m, A
      <4> QED
        BY <1>1, <2>1, DivTimes
    <3> HIDE DEF q, c
    <3>2. Div(c - q)
      BY <1>1, <3>1, DivSum
    <3>3. QED
      BY <3>1, <3>2
  <2>3. A \in Field /\ A # 0
    BY FieldP DEF Field
  <2>4. QED
    BY <2>2, <2>3, NotDiv
<1>4. i \in Int /\ Div(f * i - 1)
  <2> HIDE DEF f
  <2> QED
    BY <1>2, <1>3, InvertFacts
<1> DEFINE n == -A * i
<1>5. n \in Int /\ w \in Field /\ w \in Int /\ Div(w - n)
  <2>1. n \in Int
    <3> HIDE DEF i, A
    <3> QED
      BY <1>1, <1>4
  <2> HIDE DEF n
  <2>2. fe(n) \in Field /\ fe(n) \in Int /\ Div(fe(n) - n)
    BY <2>1, FeFacts
  <2>3. QED
    BY <2>1, <2>2 DEF n
(* w = -A i and z m = -A, with m i = 1.                                    *)
<1>6. Div(w - z)
  <2> DEFINE c1 == w - n c2 == f - m c3 == f * i - 1 k2 == -(z * i) k == -i o == 1
             s1 == o * c1 + k2 * c2 s2 == k * c + z * c3 d == w - z
  <2>1. /\ c1 \in Int /\ c2 \in Int /\ c3 \in Int /\ k2 \in Int /\ k \in Int /\ o \in Int /\ d \in Int
    <3> HIDE DEF n, w, f, m, i
    <3> QED
      BY <1>1, <1>2, <1>4, <1>5
  <2>2. d = s1 + s2
    <3> HIDE DEF w, f, m, i, A
    <3> QED
      BY <1>1, <1>2, <1>4, <1>5
  <2>3. Div(c1) /\ Div(c2) /\ Div(c3)
    BY <1>2, <1>4, <1>5
  <2>4. Div(s1) /\ s1 \in Int
    <3> HIDE DEF o, c1, c2, k2
    <3> QED
      BY <2>1, <2>3, DivComb
  <2>5. Div(s2) /\ s2 \in Int
    <3> HIDE DEF c, c3, k
    <3> QED
      BY <1>1, <2>1, <2>3, DivComb
  <2> HIDE DEF s1, s2, d
  <2>6. Div(d)
    BY <2>1, <2>2, <2>4, <2>5, DivSum
  <2>7. QED
    BY <2>6 DEF d
<1>7. MontgomeryFlavor(r) = IF Sq(Rhs(w)) THEN w ELSE fe(-w - A)
  <2> DEFINE q == w * w + A * w + 1 h == w * fe(q) g == w * q
  <2>1. MontgomeryFlavor(r) = IF Square(fe(h)) THEN w ELSE fe(-w - A)
    BY Zenon DEF MontgomeryFlavor
  <2>2. q \in Int
    <3> HIDE DEF w, A
    <3> QED
      BY <1>1, <1>5
  <2>3. fe(q) \in Int /\ Div(q - fe(q))
    <3> HIDE DEF q
    <3> QED
      BY <2>2, FeFacts
  <2>4. g \in Int /\ h \in Int /\ Div(g - h) /\ Div(h - g)
    <3> DEFINE e == fe(q) v == q - e k == -w
    <3>1. v \in Int /\ k \in Int /\ Div(v) /\ e \in Int
      <4> HIDE DEF q, w
      <4> QED
        BY <1>5, <2>2, <2>3
    <3>2. g \in Int /\ h \in Int /\ w * v = g - h /\ k * v = h - g
      <4> HIDE DEF q, e, w
      <4>1. w * e \in Int /\ w * q \in Int /\ w * (q - e) = w * q - w * e /\ (-w) * (q - e) = w * e - w * q
        BY <1>5, <2>2, <3>1
      <4>2. QED
        BY <4>1 DEF e
    <3> HIDE DEF v, k, g, h, w
    <3>3. Div(w * v) /\ Div(k * v)
      BY <1>5, <3>1, DivTimes
    <3>4. QED
      BY <3>2, <3>3
  <2>5. Square(fe(h)) <=> Sq(g)
    <3> HIDE DEF g, h
    <3> QED
      BY <2>4, SquareSq, SqCong
  <2>6. Rhs(w) = g
    BY DEF Rhs
  <2>7. QED
    <3> HIDE DEF g, w, h
    <3> QED
      BY <2>1, <2>5, <2>6, Zenon
<1>8. QED
  BY <1>5, <1>6, <1>7

(* uToRepresentative and RepresentativeToPublic are inverse, for every     *)
(* point of the curve and whatever the padding.                            *)
LEMMA PointDecodes ==
  ASSUME NEW P \in Point, NEW tweak \in Tweak, uToRepresentative(MontgomeryU(P), tweak).ok
  PROVE  RepresentativeToPublic(uToRepresentative(MontgomeryU(P), tweak).repr) = MontgomeryU(P)
<1> DEFINE u == MontgomeryU(P) A == feA
<1>1. u \in Field /\ u \in Int /\ A \in Int
  <2> DEFINE z == (1 + P[2]) * Invert(fe(1 - P[2])) m == 1 - P[2] y == P[2]
  <2>1. y \in Int /\ m \in Int
    BY OnCurve
  <2>2. fe(m) \in Field
    <3> HIDE DEF m
    <3> QED
      BY <2>1, FeFacts
  <2>3. Invert(fe(m)) \in Int
    <3> DEFINE f == fe(m)
    <3> HIDE DEF f
    <3>1. f = 0 => Invert(f) = 0
      BY DEF Invert
    <3>2. f # 0 => Invert(f) \in Int
      BY <2>2, InvertFacts DEF f
    <3>3. QED
      BY <3>1, <3>2 DEF f
  <2>4. z \in Int /\ u = fe(z)
    <3>1. u = fe(z)
      BY DEF MontgomeryU
    <3> DEFINE i == Invert(fe(m))
    <3>2. (1 + y) * i \in Int
      <4>1. i \in Int
        BY <2>3
      <4> HIDE DEF i, y
      <4>2. QED
        BY <2>1, <4>1
    <3>3. QED
      BY <3>1, <3>2
  <2> HIDE DEF z, u
  <2>5. QED
    BY <2>4, FeFacts, FieldP
<1>2. /\ ~Div(u) /\ ~Div(u + A) /\ Sq(-2 * (u * (u + A)))
      /\ \E r \in Nat : /\ 2 * r < fieldP
                        /\ uToRepresentative(u, tweak).repr = r + Top * (tweak \div 2)
                        /\ \/ Div((2 * u) * (r * r) + (u + A))
                           \/ Div((2 * (u + A)) * (r * r) + u)
  <2> HIDE DEF u
  <2>1. uToRepresentative(u, tweak).ok
    BY DEF u
  <2>2. QED
    BY <1>1, <2>1, Encoded
<1>3. PICK r \in Nat : /\ 2 * r < fieldP
                       /\ uToRepresentative(u, tweak).repr = r + Top * (tweak \div 2)
                       /\ \/ Div((2 * u) * (r * r) + (u + A))
                          \/ Div((2 * (u + A)) * (r * r) + u)
  BY <1>2
<1>4. RepresentativeToPublic(uToRepresentative(u, tweak).repr) = MontgomeryFlavor(r)
  <2> DEFINE k == tweak \div 2
  <2>1. k \in Nat
    BY DEF Tweak
  <2> HIDE DEF k
  <2>2. (r + Top * k) % Top = r
    BY <1>3, <2>1, Unpad
  <2> HIDE DEF u
  <2>3. QED
    BY <1>3, <2>2 DEF RepresentativeToPublic, k
<1>5. u # 0 /\ Sq(Rhs(u))
  <2>1. u # 0
    BY <1>2, DivZero
  <2>2. QED
    BY <2>1, PointSquare
<1>6. CASE Div((2 * u) * (r * r) + (u + A))
  <2>1. Div(u * (1 + 2 * r * r) + A)
    <3>1. u * (1 + 2 * r * r) + A = (2 * u) * (r * r) + (u + A)
      <4> HIDE DEF u, A
      <4> QED
        BY <1>1
    <3>2. QED
      BY <1>6, <3>1
  <2>2. PICK w \in Field : /\ w \in Int /\ Div(w - u)
                           /\ MontgomeryFlavor(r) = IF Sq(Rhs(w)) THEN w ELSE fe(-w - A)
    <3> HIDE DEF u
    <3> QED
      BY <1>1, <2>1, Decoded
  <2>3. Sq(Rhs(w))
    <3> HIDE DEF u
    <3> QED
      BY <1>1, <1>5, <2>2, RhsCong
  <2>4. w = u
    <3> HIDE DEF u
    <3>1. w - u = 0
      <4>1. -fieldP < w - u /\ w - u < fieldP /\ w - u \in Int
        BY <1>1, <2>2, FieldInt, FieldP
      <4>2. QED
        BY <2>2, <4>1, SmallDiv
    <3>2. QED
      BY <1>1, <2>2, <3>1
  <2>5. QED
    BY <1>4, <2>2, <2>3, <2>4
<1>7. CASE Div((2 * (u + A)) * (r * r) + u)
  <2> DEFINE z == -u - A
  <2>0. z \in Int
    BY <1>1
  <2>1. Div(z * (1 + 2 * r * r) + A)
    <3> DEFINE e == (2 * (u + A)) * (r * r) + u
    <3>1. -e = z * (1 + 2 * r * r) + A /\ e \in Int
      <4> HIDE DEF u, A
      <4> QED
        BY <1>1
    <3> HIDE DEF e, z, u
    <3>2. Div(-e)
      <4>1. Div(e)
        BY <1>7 DEF e
      <4>2. QED
        BY <3>1, <4>1, DivTimes
    <3>3. QED
      BY <3>1, <3>2
  <2>2. PICK w \in Field : /\ w \in Int /\ Div(w - z)
                           /\ MontgomeryFlavor(r) = IF Sq(Rhs(w)) THEN w ELSE fe(-w - A)
    <3> HIDE DEF u, z
    <3> QED
      BY <2>0, <2>1, Decoded
  <2>3. ~Sq(Rhs(z))
    <3> HIDE DEF u
    <3> QED
      BY <1>1, <1>2, <1>5, OtherHalf
  <2>4. ~Sq(Rhs(w))
    <3> HIDE DEF z
    <3> QED
      BY <2>0, <2>2, <2>3, RhsCong
  <2>5. fe(-w - A) = u
    <3> DEFINE n == -w - A e == w - z
    <3>1. n \in Int /\ e \in Int /\ Div(e) /\ -e = n - u
      <4> HIDE DEF u, A
      <4> QED
        BY <1>1, <2>2
    <3> HIDE DEF n, e, u
    <3>2. Div(-e)
      BY <3>1, DivTimes
    <3>3. fe(n) = u
      BY <1>1, <3>1, <3>2, FeUnique
    <3>4. QED
      BY <3>3 DEF n
  <2>6. QED
    BY <1>4, <2>2, <2>4, <2>5
<1>8. QED
  BY <1>3, <1>6, <1>7

-----------------------------------------------------------------------------
(* The group                                                               *)

(* The sum of two points, before the division: the two numerators, and     *)
(* what is added to one in the denominators.                               *)
SumX(x1, y1, x2, y2) == x1 * y2 + y1 * x2
SumY(x1, y1, x2, y2) == y1 * y2 + x1 * x2
Cross(D, x1, y1, x2, y2) == D * ((x1 * y1) * (x2 * y2))

(* The equation of the curve for X / (1 + e) and Y / (1 - e), multiplied   *)
(* with the denominators.                                                  *)
SumEq(D, X, Y, e) ==
    (Y * Y) * ((1 + e) * (1 + e)) - (X * X) * ((1 - e) * (1 - e))
      - ((1 + e) * (1 - e)) * ((1 + e) * (1 - e)) - D * ((X * X) * (Y * Y))

(* What ties the numerators to y^2 - x^2, y^2 + x^2 and x y of the points. *)
SumFacts(X, Y, m1, m2, s1, s2, q1, q2) ==
    /\ X \in Int /\ Y \in Int /\ m1 \in Int /\ m2 \in Int
    /\ s1 \in Int /\ s2 \in Int /\ q1 \in Int /\ q2 \in Int
    /\ Y * Y - X * X = m1 * m2
    /\ X * X + Y * Y = s1 * s2 + 4 * (q1 * q2)
    /\ X * Y = q1 * s2 + q2 * s1
    /\ s1 * s1 = m1 * m1 + 4 * (q1 * q1) /\ s2 * s2 = m2 * m2 + 4 * (q2 * q2)

(* The numerators of a sum have those facts.                               *)
LEMMA SumSquares ==
  ASSUME NEW x1 \in Int, NEW y1 \in Int, NEW x2 \in Int, NEW y2 \in Int
  PROVE  SumFacts(SumX(x1, y1, x2, y2), SumY(x1, y1, x2, y2), y1 * y1 - x1 * x1, y2 * y2 - x2 * x2,
                  y1 * y1 + x1 * x1, y2 * y2 + x2 * x2, x1 * y1, x2 * y2)
<1> DEFINE X == x1 * y2 + y1 * x2 Y == y1 * y2 + x1 * x2
           m1 == y1 * y1 - x1 * x1 m2 == y2 * y2 - x2 * x2
           s1 == y1 * y1 + x1 * x1 s2 == y2 * y2 + x2 * x2
           q1 == x1 * y1 q2 == x2 * y2
<1>1. /\ X \in Int /\ Y \in Int /\ m1 \in Int /\ m2 \in Int
      /\ s1 \in Int /\ s2 \in Int /\ q1 \in Int /\ q2 \in Int
  OBVIOUS
<1>2. Y * Y - X * X = m1 * m2
  <2>1. (y1 * y2 + x1 * x2) * (y1 * y2 + x1 * x2) - (x1 * y2 + y1 * x2) * (x1 * y2 + y1 * x2)
          = (y1 * y1 - x1 * x1) * (y2 * y2 - x2 * x2)
    OBVIOUS
  <2>2. QED
    BY <2>1
<1>3. X * X + Y * Y = s1 * s2 + 4 * (q1 * q2)
  <2>1. (x1 * y2 + y1 * x2) * (x1 * y2 + y1 * x2) + (y1 * y2 + x1 * x2) * (y1 * y2 + x1 * x2)
          = (y1 * y1 + x1 * x1) * (y2 * y2 + x2 * x2) + 4 * ((x1 * y1) * (x2 * y2))
    OBVIOUS
  <2>2. QED
    BY <2>1
<1>4. X * Y = q1 * s2 + q2 * s1
  <2>1. (x1 * y2 + y1 * x2) * (y1 * y2 + x1 * x2)
          = (x1 * y1) * (y2 * y2 + x2 * x2) + (x2 * y2) * (y1 * y1 + x1 * x1)
    OBVIOUS
  <2>2. QED
    BY <2>1
<1>5. s1 * s1 = m1 * m1 + 4 * (q1 * q1) /\ s2 * s2 = m2 * m2 + 4 * (q2 * q2)
  <2>1. \A x, y \in Int : (y * y + x * x) * (y * y + x * x)
          = (y * y - x * x) * (y * y - x * x) + 4 * ((x * y) * (x * y))
    OBVIOUS
  <2>2. QED
    BY <2>1
<1>6. SumFacts(X, Y, m1, m2, s1, s2, q1, q2)
  <2> HIDE DEF X, Y, m1, m2, s1, s2, q1, q2
  <2> QED
    BY <1>1, <1>2, <1>3, <1>4, <1>5 DEF SumFacts
<1>7. QED
  BY <1>6 DEF SumX, SumY

(* It is on the curve, up to the denominators.                             *)
LEMMA SumNumerator ==
  ASSUME NEW D \in Int, NEW X, NEW Y, NEW m1, NEW m2, NEW s1, NEW s2, NEW q1, NEW q2,
         SumFacts(X, Y, m1, m2, s1, s2, q1, q2), NEW e, e = D * (q1 * q2),
         Div(m1 - 1 - D * (q1 * q1)), Div(m2 - 1 - D * (q2 * q2))
  PROVE  Div(SumEq(D, X, Y, e))
<1> DEFINE b1 == D * (q1 * q1) b2 == D * (q2 * q2) k1 == m1 - 1 - b1 k2 == m2 - 1 - b2
           XX == X * X YY == Y * Y Z == X * Y
           S1 == s1 * s1 S2 == s2 * s2 U1 == m1 * m1 U2 == m2 * m2
           Q1 == q1 * q1 Q2 == q2 * q2 p == q1 * q2 t == s1 * s2 m == m1 * m2 E == e * e
           N == YY * ((1 + e) * (1 + e)) - XX * ((1 - e) * (1 - e))
                  - ((1 + e) * (1 - e)) * ((1 + e) * (1 - e)) - D * (XX * YY)
<1>0. /\ X \in Int /\ Y \in Int /\ m1 \in Int /\ m2 \in Int
      /\ s1 \in Int /\ s2 \in Int /\ q1 \in Int /\ q2 \in Int
      /\ Y * Y - X * X = m1 * m2
      /\ X * X + Y * Y = s1 * s2 + 4 * (q1 * q2)
      /\ X * Y = q1 * s2 + q2 * s1
      /\ s1 * s1 = m1 * m1 + 4 * (q1 * q1) /\ s2 * s2 = m2 * m2 + 4 * (q2 * q2)
  BY DEF SumFacts
<1>1. /\ b1 \in Int /\ b2 \in Int /\ k1 \in Int /\ k2 \in Int /\ XX \in Int /\ YY \in Int /\ Z \in Int
      /\ S1 \in Int /\ S2 \in Int /\ U1 \in Int /\ U2 \in Int /\ Q1 \in Int /\ Q2 \in Int /\ p \in Int
      /\ t \in Int /\ m \in Int /\ e \in Int /\ E \in Int
  BY <1>0
<1>2. N = (YY - XX) * (1 + E) + 2 * (e * (XX + YY)) - (1 - E) * (1 - E) - D * (XX * YY)
  <2> HIDE DEF XX, YY
  <2>2. YY * ((1 + e) * (1 + e)) - XX * ((1 - e) * (1 - e))
          - ((1 + e) * (1 - e)) * ((1 + e) * (1 - e)) - D * (XX * YY)
        = (YY - XX) * (1 + e * e) + 2 * (e * (XX + YY)) - (1 - e * e) * (1 - e * e) - D * (XX * YY)
    BY <1>1
  <2>3. QED
    BY <2>2
<1>3. XX * YY = Q1 * S2 + Q2 * S1 + 2 * (p * t)
  <2>1. XX * YY = Z * Z
    BY <1>0
  <2>2. Z = q1 * s2 + q2 * s1
    BY <1>0
  <2>3. (q1 * s2 + q2 * s1) * (q1 * s2 + q2 * s1) = Q1 * S2 + Q2 * S1 + 2 * (p * t)
    BY <1>0
  <2>4. QED
    BY <2>1, <2>2, <2>3, Zenon
<1>4. YY - XX = m /\ XX + YY = t + 4 * p /\ S1 = U1 + 4 * Q1 /\ S2 = U2 + 4 * Q2
  BY <1>0
<1>5. N = m * (1 + E) + 2 * (e * (t + 4 * p)) - (1 - E) * (1 - E)
            - D * (Q1 * (U2 + 4 * Q2) + Q2 * (U1 + 4 * Q1) + 2 * (p * t))
  <2> HIDE DEF m, E, t, p, Q1, Q2, U1, U2, XX, YY, S1, S2, N
  <2> QED
    BY <1>2, <1>3, <1>4, Zenon
<1>6. e = D * p /\ p * p = Q1 * Q2 /\ b1 = D * Q1 /\ b2 = D * Q2
  BY <1>0
<1>7. E = b1 * b2
  <2>1. (D * (q1 * q2)) * (D * (q1 * q2)) = (D * (q1 * q1)) * (D * (q2 * q2))
    BY <1>0
  <2>2. QED
    BY <2>1
(* The terms with t cancel, and those with Q1 * Q2.                        *)
<1>8. N = m * (1 + E) - (1 - E) * (1 - E) - (b1 * U2 + b2 * U1)
  <2>1. 2 * (e * (t + 4 * p)) = 2 * (D * (p * t)) + 8 * (D * (Q1 * Q2))
    <3>1. 2 * ((D * p) * (t + 4 * p)) = 2 * (D * (p * t)) + 8 * (D * (p * p))
      <4> HIDE DEF p, t
      <4> QED
        BY <1>1
    <3> HIDE DEF p, t, Q1, Q2
    <3>2. QED
      BY <1>6, <3>1, Zenon
  <2>2. D * (Q1 * (U2 + 4 * Q2) + Q2 * (U1 + 4 * Q1) + 2 * (p * t))
          = ((D * Q1) * U2 + (D * Q2) * U1) + (8 * (D * (Q1 * Q2)) + 2 * (D * (p * t)))
    <3> HIDE DEF p, t, Q1, Q2, U1, U2
    <3> QED
      BY <1>1
  <2> DEFINE u == 2 * (D * (p * t)) v == 8 * (D * (Q1 * Q2)) w == b1 * U2 + b2 * U1
             g == m * (1 + E) h == (1 - E) * (1 - E)
             l == 2 * (e * (t + 4 * p)) r == D * (Q1 * (U2 + 4 * Q2) + Q2 * (U1 + 4 * Q1) + 2 * (p * t))
  <2>3. l = u + v /\ r = w + (v + u) /\ N = g + l - h - r
    <3>1. r = w + (v + u)
      <4> HIDE DEF p, t, Q1, Q2, U1, U2, b1, b2
      <4> QED
        BY <1>6, <2>2, Zenon
    <3> HIDE DEF p, t, Q1, Q2, U1, U2, b1, b2, m, E, w, N
    <3>2. QED
      BY <1>5, <2>1, <3>1
  <2>4. u \in Int /\ v \in Int /\ w \in Int /\ g \in Int /\ h \in Int
    <3> HIDE DEF p, t, Q1, Q2, U1, U2, b1, b2, m, E
    <3> QED
      BY <1>1
  <2>5. N = g - h - w
    <3> HIDE DEF l, u, v, r, w, g, h, N
    <3> QED
      BY <2>3, <2>4
  <2> HIDE DEF N
  <2>6. QED
    BY <2>5
<1> DEFINE F1 == (1 + b2) * (1 + b1 * b2) - b2 * (m1 + (1 + b1))
           F2 == m1 * (1 + b1 * b2) - b1 * (m2 + (1 + b2))
<1>9. N = F1 * k1 + F2 * k2 /\ F1 \in Int /\ F2 \in Int
  <2> HIDE DEF b1, b2, N
  <2>1. (m1 * m2) * (1 + b1 * b2) - (1 - b1 * b2) * (1 - b1 * b2) - (b1 * (m2 * m2) + b2 * (m1 * m1))
          = ((1 + b2) * (1 + b1 * b2) - b2 * (m1 + (1 + b1))) * (m1 - 1 - b1)
              + (m1 * (1 + b1 * b2) - b1 * (m2 + (1 + b2))) * (m2 - 1 - b2)
    BY <1>0, <1>1
  <2>2. N = (m1 * m2) * (1 + b1 * b2) - (1 - b1 * b2) * (1 - b1 * b2) - (b1 * (m2 * m2) + b2 * (m1 * m1))
    <3>1. N = m * (1 + b1 * b2) - (1 - b1 * b2) * (1 - b1 * b2) - (b1 * U2 + b2 * U1)
      <4> HIDE DEF m, E, U1, U2
      <4> QED
        BY <1>7, <1>8, Zenon
    <3>2. QED
      BY <3>1
  <2>3. F1 \in Int /\ F2 \in Int
    BY <1>0, <1>1
  <2>4. QED
    BY <2>1, <2>2, <2>3
<1>10. Div(N)
  <2>1. Div(k1) /\ Div(k2)
    BY <1>0
  <2> HIDE DEF F1, F2, k1, k2, N
  <2>2. Div(F1 * k1 + F2 * k2)
    BY <1>1, <1>9, <2>1, DivComb
  <2>3. QED
    BY <1>9, <2>2
<1>11. QED
  BY <1>10 DEF SumEq

(* So has the sum of two points.                                           *)
LEMMA SumOnCurve ==
  ASSUME NEW D \in Int, NEW x1 \in Int, NEW y1 \in Int, NEW x2 \in Int, NEW y2 \in Int,
         Div(CurveEq(D, x1, y1)), Div(CurveEq(D, x2, y2))
  PROVE  /\ SumX(x1, y1, x2, y2) \in Int /\ SumY(x1, y1, x2, y2) \in Int
         /\ Cross(D, x1, y1, x2, y2) \in Int
         /\ Div(SumEq(D, SumX(x1, y1, x2, y2), SumY(x1, y1, x2, y2), Cross(D, x1, y1, x2, y2)))
<1> DEFINE X == SumX(x1, y1, x2, y2) Y == SumY(x1, y1, x2, y2) e == Cross(D, x1, y1, x2, y2)
           m1 == y1 * y1 - x1 * x1 m2 == y2 * y2 - x2 * x2
           s1 == y1 * y1 + x1 * x1 s2 == y2 * y2 + x2 * x2
           q1 == x1 * y1 q2 == x2 * y2
<1>1. SumFacts(X, Y, m1, m2, s1, s2, q1, q2)
  BY SumSquares
<1>2. \A x, y \in Int : CurveEq(D, x, y) = (y * y - x * x) - 1 - D * ((x * y) * (x * y))
  BY DEF CurveEq
<1>3. Div(m1 - 1 - D * (q1 * q1)) /\ Div(m2 - 1 - D * (q2 * q2))
  BY <1>2
<1>4. e = D * (q1 * q2) /\ X \in Int /\ Y \in Int /\ e \in Int
  BY DEF Cross, SumX, SumY
<1>5. Div(SumEq(D, X, Y, e))
  <2> HIDE DEF X, Y, e, m1, m2, s1, s2, q1, q2
  <2> QED
    BY <1>1, <1>3, <1>4, SumNumerator
<1>6. QED
  BY <1>4, <1>5

(* The quotients are on the curve.                                         *)
LEMMA SumDivided ==
  ASSUME NEW D \in Int, NEW X \in Int, NEW Y \in Int, NEW e \in Int, NEW x3 \in Int, NEW y3 \in Int,
         Div(SumEq(D, X, Y, e)), Div(x3 * (1 + e) - X), Div(y3 * (1 - e) - Y), ~Div(1 + e), ~Div(1 - e)
  PROVE  Div(CurveEq(D, x3, y3))
<1> DEFINE U == 1 + e V == 1 - e
           N == (Y * Y) * (U * U) - (X * X) * (V * V) - (U * V) * (U * V) - D * ((X * X) * (Y * Y))
           a == x3 * U b == y3 * V va == a - X vb == b - Y
           ga == -((a + X) * (V * V + D * (Y * Y))) gb == (b + Y) * (U * U - D * (a * a))
           W == (U * V) * (U * V)
           F == y3 * y3 - x3 * x3 - 1 - D * ((x3 * x3) * (y3 * y3))
<1>1. U \in Int /\ V \in Int /\ ~Div(U) /\ ~Div(V) /\ Div(va) /\ Div(vb) /\ Div(N) /\ F \in Int
  BY DEF SumEq
<1> HIDE DEF U, V
<1>2. /\ a \in Int /\ b \in Int /\ va \in Int /\ vb \in Int /\ ga \in Int /\ gb \in Int /\ W \in Int
      /\ U * V \in Int /\ N \in Int
  BY <1>1
<1>3. W * F = (b * b) * (U * U) - (a * a) * (V * V) - W - D * ((a * a) * (b * b))
  BY <1>1
<1>4. (b * b) * (U * U) - (a * a) * (V * V) - W - D * ((a * a) * (b * b)) = N + (ga * va + gb * vb)
  <2> HIDE DEF a, b
  <2> QED
    BY <1>1, <1>2
<1> HIDE DEF N, F, ga, gb, va, vb, a, b
<1>5. Div(ga * va + gb * vb) /\ ga * va + gb * vb \in Int
  BY <1>1, <1>2, DivComb
<1> DEFINE k == ga * va + gb * vb
<1>6. W * F = N + k
  <2> HIDE DEF W
  <2> QED
    BY <1>3, <1>4
<1> HIDE DEF k
<1>7. Div(W * F)
  <2>1. Div(N + k)
    BY <1>1, <1>2, <1>5, DivSum DEF k
  <2>2. QED
    BY <1>6, <2>1
<1>8. ~Div(W)
  <2> DEFINE c == U * V
  <2>1. c \in Int /\ ~Div(c)
    BY <1>1, <1>2, NoZeroDivisors
  <2> HIDE DEF c
  <2>2. ~Div(c * c)
    BY <2>1, NoZeroDivisors
  <2>3. QED
    BY <2>2 DEF c
<1> HIDE DEF W
<1>9. Div(F)
  BY <1>1, <1>2, <1>7, <1>8, NoZeroDivisors
<1>10. QED
  BY <1>9 DEF F, CurveEq

(* The addition law has no exceptions: d is not a square, and -1 is one.   *)
LEMMA Half ==
  ASSUME NEW D \in Int, NEW i \in Int, NEW x1 \in Int, NEW y1 \in Int, NEW x2 \in Int, NEW y2 \in Int,
         NEW e \in Int, e = Cross(D, x1, y1, x2, y2), ~Sq(D), Div(i * i + 1), Div(e * e - 1),
         Div(CurveEq(D, x1, y1)), Div(CurveEq(D, x2, y2))
  PROVE  Div(i * x2 + y2)
<1> DEFINE q1 == x1 * y1 q2 == x2 * y2 h == i * x2 + y2 c == q1 * h L == i * x1 + e * y1
           k1 == y1 * y1 - x1 * x1 - 1 - D * ((x1 * x1) * (y1 * y1))
           k2 == y2 * y2 - x2 * x2 - 1 - D * ((x2 * x2) * (y2 * y2))
           j1 == i * i + 1 j2 == e * e - 1
           a == D * (q1 * q1) b == D * (q2 * q2)
           f1 == x1 * x1 - a * (x2 * x2) f2 == y1 * y1 - 1 o == 1 f4 == -a
           T == L * L - D * (c * c)
<1>1. /\ q1 \in Int /\ q2 \in Int /\ h \in Int /\ c \in Int /\ L \in Int /\ k1 \in Int /\ k2 \in Int
      /\ j1 \in Int /\ j2 \in Int /\ a \in Int /\ b \in Int /\ f1 \in Int /\ f2 \in Int /\ o \in Int
      /\ f4 \in Int /\ T \in Int
  OBVIOUS
<1>2. k1 = y1 * y1 - x1 * x1 - 1 - a /\ k2 = y2 * y2 - x2 * x2 - 1 - b
  <2>1. (x1 * x1) * (y1 * y1) = q1 * q1 /\ (x2 * x2) * (y2 * y2) = q2 * q2
    OBVIOUS
  <2>2. QED
    BY <2>1
<1>3. e = D * (q1 * q2)
  BY DEF Cross
<1>4. e * e = a * b
  <2>1. (D * (q1 * q2)) * (D * (q1 * q2)) = (D * (q1 * q1)) * (D * (q2 * q2))
    <3> HIDE DEF q1, q2
    <3> QED
      BY <1>1
  <2>2. QED
    BY <1>3, <2>1
<1>5. L * L = (i * i) * (x1 * x1) + 2 * (i * (e * q1)) + (e * e) * (y1 * y1)
  OBVIOUS
<1>6. D * (c * c) = a * ((i * i) * (x2 * x2) + y2 * y2) + 2 * (i * (e * q1))
  <2>1. D * (c * c) = a * (h * h)
    <3> HIDE DEF q1, h
    <3> QED
      BY <1>1
  <2>2. h * h = (i * i) * (x2 * x2) + y2 * y2 + 2 * (i * q2)
    OBVIOUS
  <2> DEFINE g == (i * i) * (x2 * x2) + y2 * y2
  <2>3. g \in Int
    OBVIOUS
  <2>4. a * (g + 2 * (i * q2)) = a * g + 2 * (i * ((D * (q1 * q2)) * q1))
    <3> HIDE DEF q1, q2, g
    <3> QED
      BY <1>1, <2>3
  <2>5. QED
    <3> HIDE DEF q1, q2, a, h, c
    <3> QED
      BY <1>3, <2>1, <2>2, <2>4
<1>7. T = (j1 * f1 + j2 * f2) + (o * k1 + f4 * k2)
  <2> DEFINE I == i * i E == e * e A1 == x1 * x1 B1 == y1 * y1 A2 == x2 * x2
             B2 == y2 * y2 r == 2 * (i * (e * q1))
  <2>1. /\ I \in Int /\ E \in Int /\ A1 \in Int /\ B1 \in Int /\ A2 \in Int /\ B2 \in Int /\ r \in Int
        /\ L * L = I * A1 + r + E * B1 /\ D * (c * c) = a * (I * A2 + B2) + r
        /\ k1 = B1 - A1 - 1 - a /\ k2 = B2 - A2 - 1 - b /\ j1 = I + 1 /\ j2 = E - 1 /\ E = a * b
        /\ f1 = A1 - a * A2 /\ f2 = B1 - 1
    <3>1. /\ I \in Int /\ E \in Int /\ A1 \in Int /\ B1 \in Int /\ A2 \in Int /\ B2 \in Int /\ r \in Int
      OBVIOUS
    <3>2. L * L = I * A1 + r + E * B1 /\ D * (c * c) = a * (I * A2 + B2) + r
      BY <1>5, <1>6
    <3>3. k1 = B1 - A1 - 1 - a /\ k2 = B2 - A2 - 1 - b /\ E = a * b
      BY <1>2, <1>4
    <3>4. j1 = I + 1 /\ j2 = E - 1 /\ f1 = A1 - a * A2 /\ f2 = B1 - 1
      OBVIOUS
    <3>5. QED
      BY <3>1, <3>2, <3>3, <3>4
  <2>2. (I * A1 + r + (a * b) * B1) - (a * (I * A2 + B2) + r)
          = ((I + 1) * (A1 - a * A2) + (a * b - 1) * (B1 - 1))
              + (o * (B1 - A1 - 1 - a) + f4 * (B2 - A2 - 1 - b))
    <3> HIDE DEF I, A1, B1, A2, B2, r, a, b
    <3> QED
      BY <1>1, <2>1
  <2>3. T = (I * A1 + r + (a * b) * B1) - (a * (I * A2 + B2) + r)
    <3> HIDE DEF I, A1, B1, A2, B2, r, a, b, E, L, c
    <3> QED
      BY <2>1
  <2> HIDE DEF I, A1, B1, A2, B2, r, a, b, E, k1, k2, j1, j2, f1, f2, o, f4, T
  <2>4. QED
    BY <2>1, <2>2, <2>3
<1>8. Div(T)
  <2> DEFINE u == j1 * f1 + j2 * f2 v == o * k1 + f4 * k2
  <2>0. Div(j1) /\ Div(j2) /\ Div(k1) /\ Div(k2)
    BY DEF CurveEq
  <2> HIDE DEF j1, j2, k1, k2, f1, f2, f4, o, T
  <2>1. Div(f1 * j1 + f2 * j2) /\ f1 * j1 + f2 * j2 = u /\ u \in Int
    BY <1>1, <2>0, DivComb
  <2>2. Div(v) /\ v \in Int
    BY <1>1, <2>0, DivComb
  <2>3. T = u + v
    BY <1>7
  <2> HIDE DEF u, v
  <2>4. Div(u + v)
    BY <2>1, <2>2, DivSum
  <2>5. QED
    BY <2>3, <2>4
<1>9. Div(c)
  <2>1. Sq(D * (c * c))
    <3> HIDE DEF L, c
    <3> QED
      BY <1>1, <1>8 DEF Sq
  <2> HIDE DEF c
  <2>2. QED
    BY <1>1, <2>1, SqCancel
<1>10. ~Div(q1)
  <2> SUFFICES ASSUME Div(q1) PROVE FALSE
    OBVIOUS
  <2> DEFINE w == (D * q2) * e
  <2>1. w \in Int /\ e * e = w * q1
    <3> HIDE DEF q1, q2
    <3>1. (D * (q1 * q2)) * e = w * q1 /\ w \in Int
      BY <1>1
    <3>2. QED
      BY <1>3, <3>1
  <2> DEFINE E == e * e
  <2>2. Div(E) /\ E \in Int /\ Div(E - 1)
    <3> HIDE DEF q1, w
    <3>1. Div(w * q1)
      BY <1>1, <2>1, DivTimes
    <3>2. QED
      BY <2>1, <3>1
  <2> DEFINE g == E - 1
  <2>3. g \in Int /\ Div(g) /\ E - g = 1
    BY <2>2
  <2> HIDE DEF E, g
  <2>4. Div(1)
    <3>1. Div(E - g)
      BY <2>2, <2>3, DivSum
    <3>2. QED
      BY <2>3, <3>1
  <2>5. 1 \in Field
    BY FieldP DEF Field
  <2>6. QED
    BY <2>4, <2>5, NotDiv
<1>11. Div(h)
  <2> HIDE DEF q1, h
  <2> QED
    BY <1>1, <1>9, <1>10, NoZeroDivisors
<1>12. QED
  BY <1>11

(* No two points make a denominator zero.                                  *)
LEMMA Complete ==
  ASSUME NEW D \in Int, NEW i \in Int, NEW x1 \in Int, NEW y1 \in Int, NEW x2 \in Int, NEW y2 \in Int,
         NEW e \in Int, e = Cross(D, x1, y1, x2, y2), ~Sq(D), Div(i * i + 1),
         Div(CurveEq(D, x1, y1)), Div(CurveEq(D, x2, y2))
  PROVE  ~Div(1 + e) /\ ~Div(1 - e)
<1>1. ASSUME Div(e * e - 1) PROVE FALSE
  <2>1. Div(i * x2 + y2)
    BY <1>1, Half
  <2> DEFINE n1 == -y1 n2 == -y2
  <2>2. /\ n1 \in Int /\ n2 \in Int /\ n1 * n1 = y1 * y1 /\ n2 * n2 = y2 * y2
        /\ (x1 * n1) * (x2 * n2) = (x1 * y1) * (x2 * y2)
    OBVIOUS
  <2>3. Div(CurveEq(D, x1, n1)) /\ Div(CurveEq(D, x2, n2)) /\ e = Cross(D, x1, n1, x2, n2)
    <3> HIDE DEF n1, n2
    <3> QED
      BY <2>2 DEF CurveEq, Cross
  <2>4. Div(i * x2 + n2)
    <3> HIDE DEF n1, n2
    <3> QED
      BY <1>1, <2>2, <2>3, Half
  <2> DEFINE a == i * x2 + y2 b == i * x2 + n2
  <2>5. a \in Int /\ b \in Int /\ a - b = 2 * y2 /\ Div(a) /\ Div(b)
    BY <2>1, <2>4
  <2> HIDE DEF a, b
  <2>6. Div(2 * y2)
    <3>1. Div(a - b)
      BY <2>5, DivSum
    <3>2. QED
      BY <2>5, <3>1
  <2>7. Div(y2)
    <3>1. 2 \in Field /\ 2 # 0
      BY FieldP DEF Field
    <3>2. ~Div(2)
      BY <3>1, NotDiv
    <3>3. QED
      BY <2>6, <3>2, NoZeroDivisors
  <2> DEFINE w == ((D * (x1 * y1)) * x2) * e E == e * e
  <2>8. w \in Int /\ E \in Int /\ E = w * y2 /\ E - 1 \in Int /\ Div(E - 1)
    <3>1. (D * ((x1 * y1) * (x2 * y2))) * e = w * y2 /\ w \in Int
      OBVIOUS
    <3>2. QED
      BY <1>1, <3>1 DEF Cross
  <2> DEFINE g == E - 1
  <2>9. g \in Int /\ Div(g) /\ E - g = 1
    BY <2>8
  <2>10. Div(E)
    <3> HIDE DEF w, E
    <3>1. Div(w * y2)
      BY <2>7, <2>8, DivTimes
    <3>2. QED
      BY <2>8, <3>1
  <2> HIDE DEF E, g
  <2>11. Div(1)
    <3>1. Div(E - g)
      BY <2>8, <2>9, <2>10, DivSum
    <3>2. QED
      BY <2>9, <3>1
  <2>12. 1 \in Field
    BY FieldP DEF Field
  <2>13. QED
    BY <2>11, <2>12, NotDiv
<1> DEFINE u == 1 + e v == 1 - e k == -1
<1>2. u \in Int /\ v \in Int /\ k * (u * v) = e * e - 1 /\ u * v \in Int /\ k \in Int
  OBVIOUS
<1>3. Div(u) \/ Div(v) => Div(u * v)
  <2> HIDE DEF u, v
  <2> QED
    BY <1>2, DivTimes
<1>4. Div(u * v) => Div(e * e - 1)
  <2> DEFINE w == u * v
  <2>1. w \in Int /\ k * w = e * e - 1
    BY <1>2
  <2> HIDE DEF w, k
  <2>2. Div(w) => Div(k * w)
    BY <1>2, <2>1, DivTimes
  <2>3. QED
    BY <2>1, <2>2 DEF w
<1>5. QED
  BY <1>1, <1>3, <1>4

(* feSqrtM1; -1 is a square, and feD, -(A^2 - 4) over a square, is none.   *)
LEMMA RootM1 ==
  /\ feSqrtM1 \in Field /\ feSqrtM1 \in Int /\ Div(feSqrtM1 * feSqrtM1 + 1)
  /\ Sq(-1) /\ ~Sq(feD)
<1> DEFINE i == feSqrtM1
<1>1. fieldP - 1 \in Field /\ Square(fieldP - 1) /\ fieldP \in Int
  BY FieldP, EllAssumption DEF EllAssumption, Field
<1>2. i \in Field /\ i \in Int /\ Div(i * i - (fieldP - 1))
  BY <1>1, EvenRoot DEF feSqrtM1
<1> HIDE DEF i
<1>3. Div(i * i + 1)
  <2> DEFINE a == i * i - (fieldP - 1)
  <2>1. a \in Int /\ Div(a) /\ fieldP = 1 * fieldP /\ a + fieldP = i * i + 1
    BY <1>1, <1>2
  <2>2. Div(fieldP)
    BY <2>1 DEF Div
  <2> HIDE DEF a
  <2>3. Div(a + fieldP)
    BY <1>1, <2>1, <2>2, DivSum
  <2>4. QED
    BY <2>1, <2>3
<1>4. Sq(-1)
  <2>1. i * i - (-1) = i * i + 1 /\ -1 \in Int
    BY <1>2
  <2>2. QED
    BY <1>2, <1>3, <2>1 DEF Sq
<1>5. ASSUME Sq(feD) PROVE FALSE
  <2> DEFINE D == feD A == feA a == A + 2 s == a * a h == D * a + (A - 2) t == A * A - 4 n == -t k == -1
  <2>1. A \in Int /\ D \in Int /\ Div(h) /\ Sq(D) /\ Sq(k)
    BY <1>4, <1>5, FieldP, TheD
  <2>2. /\ a \in Int /\ s \in Int /\ t \in Int /\ n \in Int /\ D * s \in Int /\ h \in Int /\ k \in Int
        /\ a * h = D * s - n /\ k * n = t
    <3> HIDE DEF A, D
    <3> QED
      BY <2>1
  <2>3. Sq(s)
    <3> HIDE DEF a
    <3>1. a * a - s = 0
      BY <2>2
    <3>2. QED
      BY <2>2, <3>1, DivZero DEF Sq
  <2>4. Sq(D * s)
    <3> HIDE DEF D, s
    <3> QED
      BY <2>1, <2>2, <2>3, SqMul
  <2>5. Sq(n)
    <3> HIDE DEF a, h, n, s, D
    <3>1. Div(a * h)
      BY <2>1, <2>2, DivTimes
    <3> DEFINE m == D * s
    <3>2. m \in Int /\ Sq(m) /\ Div(m - n)
      BY <2>2, <2>4, <3>1
    <3> HIDE DEF m
    <3>3. QED
      BY <2>2, <3>2, SqCong
  <2>6. Sq(t)
    <3> HIDE DEF k, n, t
    <3>1. Sq(k * n)
      BY <2>1, <2>2, <2>5, SqMul
    <3>2. QED
      BY <2>2, <3>1
  <2>7. QED
    BY <2>6, Squares
<1>6. QED
  BY <1>2, <1>3, <1>4, <1>5 DEF i

LEMMA IdentityPoint == Identity \in Point
<1>1. 0 \in Field /\ 1 \in Field
  BY FieldP DEF Field
<1>2. CurveEq(feD, 0, 1) = 0
  <2>1. feD * ((0 * 0) * (1 * 1)) = 0
    BY TheD
  <2>2. QED
    BY <2>1 DEF CurveEq
<1>3. QED
  BY <1>1, <1>2, CurveDef, DivZero DEF Identity

(* z / a, computed from numbers that are equal to z and a.                 *)
LEMMA Divided ==
  ASSUME NEW a \in Int, NEW b \in Int, NEW Z \in Int, NEW Z0 \in Int,
         Div(b - a), Div(Z - Z0), ~Div(a)
  PROVE  /\ fe(Z * Invert(fe(b))) \in Field /\ fe(Z * Invert(fe(b))) \in Int
         /\ Div(fe(Z * Invert(fe(b))) * a - Z0)
<1> DEFINE f == fe(b) w == Invert(f) n == Z * w z == fe(n)
<1>1. f \in Field /\ f \in Int /\ Div(f - b)
  BY FeFacts
<1>2. f # 0
  <2> SUFFICES ASSUME f = 0 PROVE FALSE
    OBVIOUS
  <2> DEFINE s == f - b t == b - a m == s + t
  <2>1. s \in Int /\ t \in Int /\ m \in Int /\ Div(s) /\ Div(t) /\ -m = a
    <3> HIDE DEF f
    <3> QED
      BY <1>1
  <2> HIDE DEF s, t
  <2>2. Div(m)
    BY <2>1, DivSum
  <2> HIDE DEF m
  <2>3. Div(-m)
    BY <2>1, <2>2, DivTimes
  <2>4. QED
    BY <2>1, <2>3
<1>3. w \in Int /\ Div(f * w - 1)
  <2> HIDE DEF f
  <2> QED
    BY <1>1, <1>2, InvertFacts
<1>4. n \in Int
  <2> HIDE DEF w
  <2> QED
    BY <1>3
<1>5. z \in Field /\ z \in Int /\ Div(z - n)
  <2> HIDE DEF n
  <2> QED
    BY <1>4, FeFacts
<1> DEFINE c1 == z - n c2 == f * w - 1 c3 == f - b c4 == b - a c5 == Z - Z0
           k3 == -(Z * w) o == 1
           s1 == a * c1 + Z * c2 s2 == k3 * c3 + k3 * c4 d == z * a - Z0
<1>6. /\ c1 \in Int /\ c2 \in Int /\ c3 \in Int /\ c4 \in Int /\ c5 \in Int /\ k3 \in Int
      /\ d \in Int /\ d = (s1 + s2) + c5
  <2> HIDE DEF z, w, f
  <2> QED
    BY <1>1, <1>3, <1>4, <1>5
<1>7. Div(c1) /\ Div(c2) /\ Div(c3) /\ Div(c4) /\ Div(c5)
  BY <1>1, <1>3, <1>5
<1> HIDE DEF c1, c2, c3, c4, c5, k3, d
<1>8. Div(s1) /\ s1 \in Int /\ Div(s2) /\ s2 \in Int
  BY <1>6, <1>7, DivComb
<1> HIDE DEF s1, s2
<1> DEFINE s == s1 + s2
<1>9. Div(s) /\ s \in Int /\ d = s + c5
  BY <1>6, <1>8, DivSum
<1> HIDE DEF s
<1>10. Div(d)
  <2>1. Div(s + c5)
    BY <1>6, <1>7, <1>9, DivSum
  <2>2. QED
    BY <1>9, <2>1
<1>11. QED
  BY <1>5, <1>10 DEF d

(* A point is never lost: the sum of two points is one.                    *)
LEMMA AddPoint ==
  ASSUME NEW P \in Point, NEW Q \in Point
  PROVE  Add(P, Q) \in Point
<1> DEFINE x1 == P[1] y1 == P[2] x2 == Q[1] y2 == Q[2] D == feD
           X0 == SumX(x1, y1, x2, y2) Y0 == SumY(x1, y1, x2, y2) e0 == Cross(D, x1, y1, x2, y2)
           q == x1 * x2 * y1 * y2 f == fe(q) g == D * f e == fe(g)
           X == fe(x1 * y2 + y1 * x2) Y == fe(y1 * y2 + x1 * x2)
           x3 == fe(X * Invert(fe(1 + e))) y3 == fe(Y * Invert(fe(1 - e)))
<1>1. Add(P, Q) = <<x3, y3>>
  BY Zenon DEF Add
<1>2. /\ x1 \in Int /\ y1 \in Int /\ x2 \in Int /\ y2 \in Int /\ D \in Int
      /\ Div(CurveEq(D, x1, y1)) /\ Div(CurveEq(D, x2, y2))
  BY PointFacts, TheD
<1> HIDE DEF x1, y1, x2, y2, D
<1>3. /\ X0 \in Int /\ Y0 \in Int /\ q \in Int /\ e0 \in Int /\ e0 = D * q
      /\ Div(SumEq(D, X0, Y0, e0))
  <2>1. X0 \in Int /\ Y0 \in Int /\ e0 \in Int /\ Div(SumEq(D, X0, Y0, e0))
    BY <1>2, SumOnCurve
  <2>2. q \in Int /\ (x1 * y1) * (x2 * y2) = q
    BY <1>2
  <2>3. e0 = D * q
    <3> HIDE DEF q
    <3> QED
      BY <2>2 DEF Cross
  <2>4. QED
    BY <2>1, <2>2, <2>3
<1>4. X \in Int /\ Y \in Int /\ Div(X - X0) /\ Div(Y - Y0)
  <2>1. X = fe(X0)
    BY DEF SumX
  <2>2. Y = fe(Y0)
    BY DEF SumY
  <2> HIDE DEF X0, Y0, X, Y
  <2>3. QED
    BY <1>3, <2>1, <2>2, FeFacts
<1>5. e \in Int /\ Div(e - e0)
  <2>1. f \in Int /\ Div(f - q)
    <3> HIDE DEF q
    <3> QED
      BY <1>3, FeFacts
  <2>2. g \in Int
    <3> HIDE DEF f
    <3> QED
      BY <1>2, <2>1
  <2>3. e \in Int /\ Div(e - g)
    <3> HIDE DEF g
    <3> QED
      BY <2>2, FeFacts
  <2> DEFINE v == f - q w == e - g h == e - e0 o == 1
  <2>4. v \in Int /\ w \in Int /\ Div(v) /\ Div(w) /\ h \in Int /\ h = D * v + o * w /\ o \in Int
    <3>1. g = D * f /\ e0 = D * q
      BY <1>3
    <3> HIDE DEF f, q, e, g, e0
    <3>2. D * (f - q) = D * f - D * q /\ D * f \in Int /\ D * q \in Int
      BY <1>2, <1>3, <2>1
    <3>3. QED
      BY <1>3, <2>1, <2>2, <2>3, <3>1, <3>2
  <2> HIDE DEF v, w, h, o
  <2>5. Div(D * v + o * w)
    BY <1>2, <2>4, DivComb
  <2>6. QED
    BY <2>3, <2>4, <2>5 DEF h
<1>6. ~Div(1 + e0) /\ ~Div(1 - e0)
  <2>1. ~Sq(D)
    BY RootM1 DEF D
  <2> DEFINE i == feSqrtM1
  <2>2. i \in Int /\ Div(i * i + 1) /\ e0 = Cross(D, x1, y1, x2, y2)
    BY RootM1
  <2> HIDE DEF e0, i
  <2>3. QED
    BY <1>2, <1>3, <2>1, <2>2, Complete
<1>7. x3 \in Field /\ x3 \in Int /\ Div(x3 * (1 + e0) - X0)
  <2> DEFINE a == 1 + e0 b == 1 + e
  <2>1. a \in Int /\ b \in Int /\ b - a = e - e0 /\ ~Div(a)
    <3> HIDE DEF e, e0
    <3> QED
      BY <1>3, <1>5, <1>6
  <2>2. Div(b - a)
    BY <1>5, <2>1
  <2> HIDE DEF X, X0
  <2>3. x3 = fe(X * Invert(fe(b)))
    OBVIOUS
  <2> HIDE DEF a, b, x3
  <2>4. QED
    BY <1>3, <1>4, <2>1, <2>2, <2>3, Divided DEF a
<1>8. y3 \in Field /\ y3 \in Int /\ Div(y3 * (1 - e0) - Y0)
  <2> DEFINE a == 1 - e0 b == 1 - e v == e - e0
  <2>1. a \in Int /\ b \in Int /\ b - a = -v /\ ~Div(a) /\ v \in Int
    <3> HIDE DEF e, e0
    <3> QED
      BY <1>3, <1>5, <1>6
  <2>2. Div(b - a)
    <3>1. Div(v)
      BY <1>5
    <3> HIDE DEF v
    <3>2. Div(-v)
      BY <2>1, <3>1, DivTimes
    <3>3. QED
      BY <2>1, <3>2
  <2> HIDE DEF Y, Y0
  <2>3. y3 = fe(Y * Invert(fe(b)))
    OBVIOUS
  <2> HIDE DEF a, b, y3
  <2>4. QED
    BY <1>3, <1>4, <2>1, <2>2, <2>3, Divided DEF a
<1>9. Div(CurveEq(D, x3, y3))
  <2> HIDE DEF X0, Y0, x3, y3, e0
  <2> QED
    BY <1>2, <1>3, <1>6, <1>7, <1>8, SumDivided
<1>10. QED
  <2> HIDE DEF x3, y3
  <2> QED
    BY <1>1, <1>7, <1>8, <1>9, CurveDef DEF D

(* A set that has 0, and n + 1 with n, has every number.                   *)
LEMMA Induction ==
  ASSUME NEW S, 0 \in S, \A n \in Nat : n \in S => n + 1 \in S
  PROVE  \A n \in Nat : n \in S
<1> SUFFICES ASSUME Nat \ S # {} PROVE FALSE
  OBVIOUS
<1>1. PICK x \in Nat \ S : \A y \in Nat \ S : x <= y
  BY Least
<1>2. x - 1 \in Nat /\ ~(x <= x - 1) /\ (x - 1) + 1 = x
  BY <1>1
<1>3. QED
  BY <1>1, <1>2

(* Doubling and adding stays on the curve.                                 *)
LEMMA TimesPoint ==
  ASSUME NEW n \in Nat, NEW P \in Point
  PROVE  Times(n, P) \in Point
<1> DEFINE Odd(k) == IF k % 2 = 1 THEN P ELSE Identity
           Body(g, k) == IF k = 0 THEN Identity ELSE Add(Add(g[k \div 2], g[k \div 2]), Odd(k))
           OnTo(m) == \E g \in [0..m -> Point] : \A k \in 0..m : g[k] = Body(g, k)
           f == CHOOSE g : g = [k \in 0..n |-> Body(g, k)]
<1>1. \A h \in Point, k \in Nat : Add(Add(h, h), Odd(k)) \in Point
  BY AddPoint, IdentityPoint
<1>2. \A k \in Nat : k # 0 => k \div 2 \in Nat /\ k \div 2 < k
  OBVIOUS
<1> HIDE DEF Odd
<1>3. \A m \in Nat : OnTo(m)
  <2> DEFINE S == {m \in Nat : OnTo(m)}
  <2>1. 0 \in S
    <3> DEFINE g == [k \in 0..0 |-> Identity]
    <3>1. g \in [0..0 -> Point] /\ \A k \in 0..0 : g[k] = Body(g, k)
      BY IdentityPoint
    <3> HIDE DEF g
    <3>2. QED
      BY <3>1
  <2>2. ASSUME NEW m \in Nat, m \in S PROVE m + 1 \in S
    <3>1. PICK g \in [0..m -> Point] : \A k \in 0..m : g[k] = Body(g, k)
      BY <2>2
    <3> DEFINE h == [k \in 0..(m + 1) |-> IF k = m + 1 THEN Body(g, m + 1) ELSE g[k]]
    <3>2. (m + 1) \div 2 \in 0..m /\ m + 1 # 0 /\ m + 1 \in Nat
      BY <1>2
    <3>3. Body(g, m + 1) \in Point
      BY <1>1, <3>2
    <3>4. h \in [0..(m + 1) -> Point]
      <4> HIDE DEF Body
      <4> QED
        BY <3>3
    <3>5. ASSUME NEW k \in 0..(m + 1) PROVE h[k] = Body(h, k)
      <4>1. CASE k = m + 1
        <5>1. h[(m + 1) \div 2] = g[(m + 1) \div 2]
          BY <3>2
        <5>2. h[k] = Body(g, m + 1)
          <6> HIDE DEF Body
          <6> QED
            BY <4>1
        <5> HIDE DEF h
        <5>3. QED
          BY <4>1, <5>1, <5>2
      <4>2. CASE k \in 0..m
        <5>1. k # m + 1 /\ (k # 0 => k \div 2 \in 0..m /\ k \div 2 # m + 1)
          BY <1>2, <4>2
        <5>2. h[k] = g[k] /\ (k # 0 => h[k \div 2] = g[k \div 2])
          <6> HIDE DEF Body
          <6> QED
            BY <4>2, <5>1
        <5> HIDE DEF h
        <5>3. QED
          BY <3>1, <4>2, <5>2
      <4>3. QED
        BY <4>1, <4>2
    <3> HIDE DEF h, Body
    <3>6. OnTo(m + 1)
      BY <3>4, <3>5
    <3>7. QED
      BY <3>2, <3>6
  <2> HIDE DEF OnTo
  <2>3. \A m \in Nat : m \in S
    <3> HIDE DEF S
    <3> QED
      BY <2>1, <2>2, Induction
  <2>4. QED
    BY <2>3
<1>4. f = [k \in 0..n |-> Body(f, k)]
  <2>1. PICK g \in [0..n -> Point] : \A k \in 0..n : g[k] = Body(g, k)
    BY <1>3
  <2> HIDE DEF Body
  <2>2. g = [k \in 0..n |-> Body(g, k)]
    BY <2>1
  <2>3. QED
    BY <2>2, Zenon
<1>5. Times(n, P) = f[n]
  BY Zenon DEF Times, Odd
<1> HIDE DEF f
<1>6. \A m \in Nat : \A k \in 0..m : k <= n => f[k] \in Point
  <2> DEFINE S == {m \in Nat : \A k \in 0..m : k <= n => f[k] \in Point}
  <2>0. \A k \in 0..n : f[k] = Body(f, k)
    <3> HIDE DEF Body
    <3> QED
      BY <1>4
  <2>1. 0 \in S
    BY <2>0, IdentityPoint
  <2>2. ASSUME NEW m \in Nat, m \in S PROVE m + 1 \in S
    <3> SUFFICES ASSUME NEW k \in 0..(m + 1), k <= n PROVE f[k] \in Point
      OBVIOUS
    <3>1. CASE k \in 0..m
      BY <2>2, <3>1
    <3>2. CASE k = m + 1
      <4>1. k # 0 /\ k \div 2 \in 0..m /\ k \div 2 <= n /\ k \in 0..n /\ k \in Nat
        BY <1>2, <3>2
      <4>2. f[k \div 2] \in Point
        BY <2>2, <4>1
      <4>3. QED
        BY <1>1, <2>0, <4>1, <4>2
    <3>3. QED
      BY <3>1, <3>2
  <2>3. \A m \in Nat : m \in S
    <3> HIDE DEF S
    <3> QED
      BY <2>1, <2>2, Induction
  <2>4. QED
    BY <2>3
<1>7. QED
  BY <1>5, <1>6


(* Two pairs of coordinates with the same squares.                         *)
LEMMA SameSquares ==
  ASSUME NEW x \in Field, NEW y \in Field, NEW X \in Int, NEW Y \in Int,
         Div(x * x - X * X), Div(y * y - Y * Y), Div(CurveEq(feD, X, Y))
  PROVE  <<x, y>> \in Point
<1> DEFINE D == feD XX == X * X YY == Y * Y xx == x * x yy == y * y
           v == xx - XX w == yy - YY k == -(1 + D * yy) l == 1 - D * XX
           c == CurveEq(D, X, Y) d == CurveEq(D, x, y)
<1>1. /\ x \in Int /\ y \in Int /\ D \in Int /\ XX \in Int /\ YY \in Int /\ xx \in Int /\ yy \in Int
      /\ Div(v) /\ Div(w) /\ Div(c) /\ d \in Int
  <2>1. x \in Int /\ y \in Int /\ D \in Int /\ d \in Int
    BY CurveDef, TheD
  <2>2. XX \in Int /\ YY \in Int /\ xx \in Int /\ yy \in Int
    BY <2>1
  <2>3. Div(v) /\ Div(w) /\ Div(c)
    OBVIOUS
  <2> HIDE DEF v, w, c, d
  <2>4. QED
    BY <2>1, <2>2, <2>3
<1>2. c = YY - XX - 1 - D * (XX * YY) /\ d = yy - xx - 1 - D * (xx * yy)
  BY DEF CurveEq
<1>3. v \in Int /\ w \in Int /\ k \in Int /\ l \in Int /\ c \in Int /\ d = c + (k * v + l * w)
  <2> HIDE DEF D, XX, YY, xx, yy, c, d
  <2>1. v \in Int /\ w \in Int /\ k \in Int /\ l \in Int /\ c \in Int
    BY <1>1, <1>2
  <2>2. yy - xx - 1 - D * (xx * yy) = (YY - XX - 1 - D * (XX * YY)) + (k * v + l * w)
    BY <1>1
  <2>3. QED
    BY <1>2, <2>1, <2>2
<1> DEFINE s == k * v + l * w
<1>4. Div(s) /\ s \in Int /\ d = c + s
  <2> HIDE DEF k, v, l, w, c, d
  <2> QED
    BY <1>1, <1>3, DivComb
<1>5. Div(d)
  <2> HIDE DEF s, c, d
  <2>1. Div(c + s)
    BY <1>1, <1>3, <1>4, DivSum
  <2>2. QED
    BY <1>4, <2>1
<1>6. QED
  <2> HIDE DEF d
  <2>1. Div(CurveEq(D, x, y))
    BY <1>5 DEF d
  <2>2. QED
    BY <2>1, CurveDef

(* What feLopX and feLopY are chosen for.                                  *)
LEMMA LopFacts ==
  /\ feLopX \in Field /\ feLopX \in Int /\ feLopY \in Field /\ feLopY \in Int
  /\ Div(CurveEq(feD, feLopX, feLopY))
<1> DEFINE Lop(x) == \E r \in Field : fe(r * r) = fe(feD + 1) /\ fe(feD * fe(x * x)) = fe(r + 1)
           x == feLopX y == feLopY i == feSqrtM1 D == feD
<1>1. \E z \in Field : z % 2 = 0 /\ Lop(z)
  <2>1. PICK z \in Field : Lop(z)
    BY EllAssumption DEF EllAssumption
  <2>2. z \in Int /\ 0 <= z /\ z < fieldP /\ fieldP \in Nat /\ fieldP % 2 = 1
    BY FieldInt, FieldP, OddP
  <2>3. CASE z % 2 = 0
    BY <2>1, <2>3
  <2>4. CASE z % 2 = 1
    <3> DEFINE s == fe(-z) a == s * s b == z * z
    <3>0. z # 0
      BY <2>2, <2>4
    <3>1. s = fieldP - z /\ s \in Field /\ s \in Int /\ Div(s * s - z * z)
      BY <3>0, Negate
    <3>2. s % 2 = 0
      BY <2>2, <2>4, <3>1
    <3>3. fe(a) = fe(b)
      <4> HIDE DEF s
      <4>1. a \in Int /\ b \in Int /\ Div(a - b)
        BY <2>2, <3>1
      <4> HIDE DEF a, b
      <4>2. fe(b) \in Field /\ fe(b) \in Int /\ Div(b - fe(b))
        BY <4>1, FeFacts
      <4> DEFINE v == a - b w == b - fe(b)
      <4>3. v \in Int /\ w \in Int /\ Div(v) /\ Div(w) /\ v + w = a - fe(b)
        BY <4>1, <4>2
      <4> HIDE DEF v, w
      <4>4. Div(v + w)
        BY <4>3, DivSum
      <4>5. QED
        BY <4>1, <4>2, <4>3, <4>4, FeUnique
    <3>4. Lop(s)
      <4> HIDE DEF s
      <4> QED
        BY <2>1, <3>3
    <3>5. QED
      BY <3>1, <3>2, <3>4
  <2>5. QED
    BY <2>2, <2>3, <2>4
<1>2. x \in Field /\ Lop(x)
  BY <1>1, Zenon DEF feLopX
<1>3. PICK r \in Field : fe(r * r) = fe(D + 1) /\ fe(D * fe(x * x)) = fe(r + 1)
  BY <1>2
<1>4. x \in Int /\ r \in Int /\ D \in Int /\ i \in Int /\ Div(i * i + 1)
  BY <1>2, FieldInt, TheD, RootM1
<1> HIDE DEF x, D, i
<1> DEFINE X == x * x f == fe(X) g == D * X
<1>5. Div(r * r - (D + 1)) /\ Div(g - (r + 1)) /\ X \in Int /\ g \in Int
  <2>1. X \in Int /\ g \in Int
    BY <1>4
  <2>2. \A a, b \in Int : fe(a) = fe(b) => Div(a - b)
    <3> SUFFICES ASSUME NEW a \in Int, NEW b \in Int, fe(a) = fe(b) PROVE Div(a - b)
      OBVIOUS
    <3> DEFINE v == a - fe(a) w == fe(b) - b
    <3>1. v \in Int /\ w \in Int /\ Div(v) /\ Div(w) /\ v + w = a - b
      BY FeFacts
    <3> HIDE DEF v, w
    <3>2. Div(v + w)
      BY <3>1, DivSum
    <3>3. QED
      BY <3>1, <3>2
  <2>3. Div(r * r - (D + 1))
    <3> DEFINE a == r * r b == D + 1
    <3>1. a \in Int /\ b \in Int /\ fe(a) = fe(b)
      BY <1>3, <1>4
    <3> HIDE DEF a, b
    <3>2. Div(a - b)
      BY <2>2, <3>1
    <3>3. QED
      BY <3>2 DEF a, b
  <2>4. f \in Int /\ Div(X - f)
    <3> HIDE DEF X
    <3> QED
      BY <2>1, FeFacts
  <2> DEFINE h == D * f
  <2>5. Div(h - (r + 1)) /\ h \in Int
    <3> DEFINE b == r + 1
    <3>1. h \in Int /\ b \in Int /\ fe(h) = fe(b)
      <4>1. h \in Int
        <5> HIDE DEF f
        <5> QED
          BY <1>4, <2>4
      <4>2. fe(h) = fe(b)
        BY <1>3
      <4>3. QED
        BY <1>4, <4>1, <4>2
    <3> HIDE DEF h, b
    <3>2. Div(h - b)
      BY <2>2, <3>1
    <3>3. QED
      BY <3>1, <3>2 DEF b
  <2>6. Div(g - (r + 1))
    <3> DEFINE v == X - f w == h - (r + 1) z == g - (r + 1) o == 1
    <3>1. v \in Int /\ w \in Int /\ z \in Int /\ o \in Int /\ Div(v) /\ Div(w) /\ z = D * v + o * w
      <4> HIDE DEF X, f
      <4> QED
        BY <1>4, <2>1, <2>4, <2>5
    <3> HIDE DEF v, w, z, o
    <3>2. Div(D * v + o * w)
      BY <1>4, <3>1, DivComb
    <3>3. QED
      BY <3>1, <3>2 DEF z
  <2>7. QED
    BY <2>1, <2>3, <2>6
<1> DEFINE n == -x * i Y == y * y N == n * n
<1>6. n \in Int /\ y \in Field /\ y \in Int /\ Div(y - n) /\ Y \in Int
  <2>1. n \in Int /\ y = fe(n)
    BY <1>4 DEF feLopY, x, i
  <2> HIDE DEF n, y
  <2>2. y \in Field /\ y \in Int /\ Div(y - n)
    BY <2>1, FeFacts
  <2>3. QED
    BY <2>1, <2>2
(* y^2 = -x^2                                                              *)
<1>7. Div(Y + X)
  <2> DEFINE v == y - n w == i * i + 1 k == y + n z == Y + X
  <2>1. v \in Int /\ w \in Int /\ k \in Int /\ z \in Int /\ Div(v) /\ Div(w)
    <3> HIDE DEF y, n, Y
    <3> QED
      BY <1>4, <1>5, <1>6
  <2>2. z = k * v + X * w
    <3>1. N = X * (i * i)
      BY <1>4
    <3>2. Y - N = k * v /\ N \in Int
      <4> HIDE DEF y, n
      <4> QED
        BY <1>6
    <3>3. X * (i * i + 1) = X * (i * i) + X
      <4> HIDE DEF X
      <4> QED
        BY <1>4, <1>5
    <3> DEFINE p == k * v q == X * w
    <3>4. p = Y - N /\ q = N + X /\ p \in Int
      BY <1>6, <3>1, <3>2, <3>3
    <3> HIDE DEF p, q, Y, N, X
    <3>5. Y + X = p + q
      BY <1>5, <1>6, <3>2, <3>4
    <3>6. QED
      BY <3>5 DEF p, q
  <2> HIDE DEF v, w, k, z, X
  <2>3. Div(k * v + X * w)
    BY <1>5, <2>1, DivComb
  <2>4. QED
    BY <2>2, <2>3 DEF z
<1> DEFINE c == CurveEq(D, x, y)
<1>8. c = Y - X - 1 - D * (X * Y) /\ c \in Int
  <2>1. c = Y - X - 1 - D * (X * Y)
    BY DEF CurveEq
  <2> HIDE DEF X, Y, c
  <2>2. QED
    BY <1>4, <1>5, <1>6, <2>1
<1>9. Div(D * c)
  <2> DEFINE v == Y + X w == g - (r + 1) u == r * r - (D + 1)
             k == D * (1 - D * X) l == g + r - 1 o == 1
             s1 == k * v + l * w z == D * c
  <2>1. /\ v \in Int /\ w \in Int /\ u \in Int /\ k \in Int /\ l \in Int /\ z \in Int /\ s1 \in Int
        /\ Div(v) /\ Div(w) /\ Div(u)
    <3> HIDE DEF X, Y, c
    <3> QED
      BY <1>4, <1>5, <1>6, <1>7, <1>8
  <2>2. z = s1 + u
    <3> HIDE DEF X, Y, c
    <3>1. D * (Y - X - 1 - D * (X * Y)) = ((D * (1 - D * X)) * (Y + X) + (D * X + r - 1) * (D * X - (r + 1)))
                                            + (r * r - (D + 1))
      BY <1>4, <1>5, <1>6
    <3>2. QED
      BY <1>8, <3>1
  <2>3. Div(s1)
    <3> HIDE DEF v, w, k, l
    <3> QED
      BY <2>1, DivComb
  <2> HIDE DEF s1, u, z
  <2>4. Div(s1 + u)
    BY <2>1, <2>3, DivSum
  <2>5. QED
    BY <2>2, <2>4 DEF z
<1>10. ~Div(D)
  <2>1. Div(D) => Sq(D)
    <3>1. 0 * 0 - D = -D
      BY <1>4
    <3>2. Div(D) => Div(-D)
      BY <1>4, DivTimes
    <3>3. QED
      BY <3>1, <3>2 DEF Sq
  <2>2. QED
    BY <2>1, RootM1 DEF D
<1>11. Div(c)
  <2> HIDE DEF c
  <2> QED
    BY <1>4, <1>8, <1>9, <1>10, NoZeroDivisors
<1>12. QED
  BY <1>2, <1>4, <1>6, <1>11 DEF x, D

-----------------------------------------------------------------------------
(* The keys are points                                                     *)

LEMMA Coordinate ==
  ASSUME NEW x \in Field, NEW k \in Field, NEW n, NEW out,
         out = Select(x, Select(k, 0, Bit(n, 2)), Bit(n, 1))
  PROVE  /\ out \in Field /\ selectLowOrderPoint(x, k, n) \in Field
         /\ Div(selectLowOrderPoint(x, k, n) * selectLowOrderPoint(x, k, n) - out * out)
<1>1. 0 \in Field
  BY FieldP DEF Field
<1>2. out \in Field /\ out \in Int
  <2>1. out \in Field
    BY <1>1 DEF Select
  <2>2. QED
    BY <2>1, FieldInt
<1>3. selectLowOrderPoint(x, k, n) = out \/ selectLowOrderPoint(x, k, n) = fe(-out)
  BY DEF selectLowOrderPoint, Select
<1>4. fe(-out) \in Field /\ Div(fe(-out) * fe(-out) - out * out)
  BY <1>2, Negate
<1>5. Div(out * out - out * out)
  <2>1. out * out - out * out = 0
    BY <1>2
  <2>2. QED
    BY <2>1, DivZero
<1>6. CASE selectLowOrderPoint(x, k, n) = out
  BY <1>2, <1>5, <1>6, Zenon
<1>7. CASE selectLowOrderPoint(x, k, n) = fe(-out)
  BY <1>2, <1>4, <1>7, Zenon
<1>8. QED
  BY <1>3, <1>6, <1>7

(* The bits that clamping drops choose one of eight points.                *)
LEMMA LowPointPoint ==
  ASSUME NEW n \in Nat
  PROVE  LowPoint(n) \in Point
<1> DEFINE m == n + 2
           X == Select(feLopX, Select(feSqrtM1, 0, Bit(n, 2)), Bit(n, 1))
           Y == Select(feLopY, Select(1, 0, Bit(m, 2)), Bit(m, 1))
           x == selectLowOrderPoint(feLopX, feSqrtM1, n)
           y == selectLowOrderPoint(feLopY, 1, m)
<1>1. feLopX \in Field /\ feLopY \in Field /\ feSqrtM1 \in Field /\ 1 \in Field
  <2>1. 1 \in Field
    BY FieldP DEF Field
  <2>2. QED
    BY <2>1, LopFacts, RootM1
<1>2. /\ X \in Field /\ x \in Field /\ Div(x * x - X * X)
      /\ Y \in Field /\ y \in Field /\ Div(y * y - Y * Y)
  <2> HIDE DEF m, X, Y
  <2>1. X \in Field /\ x \in Field /\ Div(x * x - X * X)
    BY <1>1, Coordinate DEF X
  <2>2. Y \in Field /\ y \in Field /\ Div(y * y - Y * Y)
    BY <1>1, Coordinate DEF Y
  <2>3. QED
    BY <2>1, <2>2
<1>3. Bit(m, 1) = Bit(n, 1) /\ Bit(m, 2) = 1 - Bit(n, 2) /\ Bit(n, 2) \in {0, 1}
  BY DEF Bit
<1>4. Div(CurveEq(feD, X, Y))
  <2> HIDE DEF m
  <2>1. CASE Bit(n, 1) = 1
    <3>1. X = feLopX /\ Y = feLopY
      BY <1>3, <2>1 DEF Select
    <3>2. QED
      BY <3>1, LopFacts
  <2>2. CASE Bit(n, 1) # 1 /\ Bit(n, 2) = 1
    <3>1. X = feSqrtM1 /\ Y = 0
      BY <1>3, <2>2 DEF Select
    <3> DEFINE i == feSqrtM1 c == CurveEq(feD, i, 0) v == i * i + 1
    <3>2. i \in Int /\ feD \in Int /\ v \in Int /\ Div(v)
      BY RootM1, TheD
    <3>3. c = -v
      <4>1. feD * ((i * i) * (0 * 0)) = 0 /\ 0 * 0 = 0
        BY <3>2
      <4>2. c = 0 - i * i - 1 - 0
        BY <4>1, Zenon DEF CurveEq
      <4>3. QED
        BY <3>2, <4>2
    <3> HIDE DEF v, c, X, Y
    <3>4. Div(-v)
      BY <3>2, DivTimes
    <3>5. QED
      BY <3>1, <3>3, <3>4 DEF c
  <2>3. CASE Bit(n, 1) # 1 /\ Bit(n, 2) = 0
    <3>1. X = 0 /\ Y = 1
      BY <1>3, <2>3 DEF Select
    <3>2. CurveEq(feD, 0, 1) = 0
      <4>1. feD * ((0 * 0) * (1 * 1)) = 0
        BY TheD
      <4>2. QED
        BY <4>1 DEF CurveEq
    <3>3. QED
      BY <3>1, <3>2, DivZero
  <2>4. QED
    BY <1>3, <2>1, <2>2, <2>3
<1>5. <<x, y>> \in Point
  <2> HIDE DEF X, Y, x, y
  <2>1. X \in Int /\ Y \in Int
    BY <1>2, FieldInt
  <2>2. QED
    BY <1>2, <1>4, <2>1, SameSquares
<1>6. QED
  BY <1>5 DEF LowPoint

(* There are finitely many points, and B is one.                           *)
LEMMA BasePoint == B \in Point /\ order \in Nat
<1>1. \E P \in Point \ {Identity} : Times(order, P) = Identity
  BY EllAssumption DEF EllAssumption
<1> DEFINE q == order
<1> HIDE DEF q
<1>2. B = CHOOSE P \in Point \ {Identity} : Times(q, P) = Identity
  BY Zenon DEF B, q
<1>3. \E P \in Point \ {Identity} : Times(q, P) = Identity
  BY <1>1 DEF q
<1>4. B \in Point \ {Identity}
  BY <1>2, <1>3
<1>5. IsFiniteSet(Point)
  <2>1. 0 \in Int /\ fieldP - 1 \in Int
    BY FieldP
  <2>2. IsFiniteSet(Field)
    BY <2>1, FS_Interval DEF Field
  <2>3. IsFiniteSet(Field \X Field)
    BY <2>2, FS_Product
  <2>4. Point \subseteq Field \X Field
    BY DEF Point
  <2>5. QED
    BY <2>3, <2>4, FS_Subset
<1>6. Cardinality(Point) \in Nat
  BY <1>5, FS_CardinalityType
<1>7. order \in Nat
  <2> DEFINE c == Cardinality(Point)
  <2>1. c \in Nat
    BY <1>6
  <2> HIDE DEF c
  <2>2. c \div 8 \in Nat
    BY <2>1
  <2>3. QED
    BY <2>2 DEF order, c
<1>8. QED
  BY <1>4, <1>7

(* Clamping leaves a number of additions.                                  *)
LEMMA PrivateNumber ==
  ASSUME NEW n \in PrivateKey
  PROVE  n \in Nat /\ Clamp(n) \in Nat
<1> DEFINE q == order l == (q + 1) \div 2
<1>1. q \in Nat
  BY BasePoint
<1>2. n \in (8 * l)..(8 * q - 1)
  BY DEF PrivateKey
<1> HIDE DEF q
<1>3. l \in Nat
  BY <1>1
<1> HIDE DEF l
<1>4. n \in Nat
  BY <1>1, <1>2, <1>3
<1>5. Clamp(n) \in Nat
  BY <1>4 DEF Clamp
<1>6. QED
  BY <1>4, <1>5

(* Every private key gives the key of a point of the curve, so the         *)
(* representative it has, if it has one, is decoded to that key.           *)
THEOREM KeysDecode == RoundTrip
<1> SUFFICES ASSUME NEW k \in GenerateKeypair
             PROVE  RepresentativeToPublic(k.representative) = k.public
  BY DEF RoundTrip
<1>0. PICK n \in PrivateKey, tweak \in Tweak : k = scalarBaseMult(n, tweak) /\ k.ok
  BY DEF GenerateKeypair
<1> DEFINE P == Add(Times(Clamp(n), B), LowPoint(n)) u == MontgomeryU(P)
           e == uToRepresentative(u, tweak)
<1>1. P \in Point
  <2>1. n \in Nat /\ Clamp(n) \in Nat
    BY PrivateNumber
  <2>2. Times(Clamp(n), B) \in Point
    BY <2>1, BasePoint, TimesPoint
  <2>3. LowPoint(n) \in Point
    BY <2>1, LowPointPoint
  <2>4. QED
    BY <2>2, <2>3, AddPoint
<1>2. k = [ok |-> e.ok, private |-> n, tweak |-> tweak, public |-> u,
           representative |-> e.repr]
  BY <1>0, Zenon DEF scalarBaseMult, scalarBaseMultDirty
<1> HIDE DEF P
<1>3. uToRepresentative(MontgomeryU(P), tweak).ok
  BY <1>0, <1>2
<1>4. RepresentativeToPublic(uToRepresentative(MontgomeryU(P), tweak).repr) = MontgomeryU(P)
  BY <1>1, <1>3, PointDecodes
<1>5. QED
  <2> HIDE DEF u, e
  <2>1. RepresentativeToPublic(e.repr) = u
    BY <1>4 DEF u, e
  <2>2. QED
    BY <1>2, <2>1


(* The peer reads the key that was drawn, before any attempt of a run.     *)
THEOREM EphemeralsDecode == Spec => []EphemeralsRead
<1>1. EphemeralsRead
  BY KeysDecode DEF EphemeralsRead
<1>2. QED
  BY <1>1, PTL
=============================================================================
