-------------------------- MODULE RealityListener ---------------------------
(***************************************************************************)
(* obfs/reality/reality.go: acceptLoop starts a goroutine for each         *)
(* connection, which reads the first TLS record, looks for a token in it,  *)
(* and either hands the connection to Accept or relays it to the decoy     *)
(* site.                                                                   *)
(*                                                                         *)
(* A client's stream is the sequence 1, 2, 3, ...: the header of the first *)
(* record is Header long, the record FirstRecord long.  0 stands for a     *)
(* byte the client never sent.  What the first record is: the ClientHello  *)
(* of DialReality with a token, or the same one sent again; "browser", one *)
(* with no token; "plain", no handshake record by its header.  A member of *)
(* Conn is used for one connection after another.                          *)
(***************************************************************************)
EXTENDS RealityAuth, ClientHello

CONSTANTS Header, FirstRecord,
          Length,        \* of a client's stream, the TLS handshake included
          Answer,        \* length of what the decoy site sends
          Incomplete,    \* connections whose first record may come in parts, or
                         \* stay incomplete
          HalfClose      \* may a client shut down its sending side?

ASSUME ListenerAssumption ==
    /\ Header \in Nat \ {0} /\ FirstRecord \in Nat /\ Length \in Nat /\ Answer \in Nat
    /\ Header < FirstRecord /\ FirstRecord < Length
    /\ Incomplete \subseteq Conn /\ HalfClose \in BOOLEAN
    /\ \A k \in Token : \E h \in Hello : h.sid = <<k>>
    /\ \E h \in Hello : \A k \in Token : h.sid # <<k>>
    /\ "browser" \notin Token /\ "plain" \notin Token

VARIABLES
    pc,          \* the handler of each connection
    first,       \* what its first record is
    sent, fin,   \* by the client: how much; whether its sending side is shut
    got,         \* how much of it has been read
    into,        \* what the TLS server or the decoy site has been given
    dsent, back, \* what the site has sent; what reached the client
    handed,      \* history: how often a token's connection went to Accept
    closed,      \* l.closed
    acceptor     \* the caller of Accept: "loop" or "returned"

conns == <<pc, first, got, into, back, handed>>
peers == <<sent, fin, dsent>>
vars  == <<conns, peers, closed, acceptor, authVars>>

All(x) == [c \in Conn |-> x]

Init ==
    /\ AuthInit
    /\ pc = All("none") /\ first = All("plain") /\ handed = [k \in Token |-> 0]
    /\ sent = All(0) /\ fin = All(FALSE) /\ got = All(0) /\ into = All(<<>>)
    /\ dsent = All(0) /\ back = All(0)
    /\ closed = FALSE /\ acceptor = "loop"

Stream(from, to) == [i \in 1..(to - from + 1) |-> from + i - 1]

Goto(c, l) == pc' = [pc EXCEPT ![c] = l]
At(c, l)   == pc[c] = l

(* The handler is through with c, which is closed or someone else's.       *)
Leave(c) ==
    /\ Goto(c, "done") /\ first' = [first EXCEPT ![c] = "plain"]
    /\ into' = [into EXCEPT ![c] = <<>>]
    /\ got' = [got EXCEPT ![c] = 0] /\ back' = [back EXCEPT ![c] = 0]
    /\ sent' = [sent EXCEPT ![c] = 0] /\ fin' = [fin EXCEPT ![c] = FALSE]
    /\ dsent' = [dsent EXCEPT ![c] = 0]
    /\ UNCHANGED <<closed, acceptor, authVars>>

-----------------------------------------------------------------------------
(* acceptLoop and the first record                                         *)

acceptLoop(c, f) ==
    /\ (At(c, "none") \/ At(c, "done")) /\ ~closed
    /\ Goto(c, "read") /\ first' = [first EXCEPT ![c] = f]
    /\ UNCHANGED <<got, into, back, handed, peers, closed, acceptor>>

(* A client of the tunnel: a new token for every attempt to connect.       *)
DialReality(c, k) == makeAuthSessionID(k) /\ acceptLoop(c, k)

Connect(c) ==
    /\ \E f \in Made \cup {"browser", "plain"} : acceptLoop(c, f)
    /\ UNCHANGED authVars

(* How much readFirstRecord wants: a header that is no handshake ends it.  *)
Wanted(c) == IF first[c] = "plain" THEN Header ELSE FirstRecord

Read(c) ==
    /\ At(c, "read") /\ got[c] < sent[c] /\ got[c] < Wanted(c)
    /\ got' = [got EXCEPT ![c] = IF sent[c] < Wanted(c) THEN sent[c] ELSE Wanted(c)]
    /\ UNCHANGED <<pc, first, into, back, handed, closed, acceptor, peers, authVars>>

(* `bytes' is what readFirstRecord returns: the next to see the stream     *)
(* begins with it.                                                         *)
Pass(c, bytes, l) ==
    /\ into' = [into EXCEPT ![c] = bytes]
    /\ Goto(c, l)
    /\ UNCHANGED <<first, got, back, handed, closed, acceptor, peers>>

First_Body(c) == Stream(Header + 1, got[c])                      \* mutant
First(c) == Stream(1, got[c])

(* The tokens among the session ids of the ClientHellos.                   *)
TokensIn ==
    [h \in Hello |-> LET ch == parseClientHello(Record(h, Len(Body(h))))
                     IN  {k \in Token : ch.ok /\ ch.sid = <<k>>}]

helloOf(f) == CHOOSE h \in Hello : IF f = "browser" THEN \A k \in Token : h.sid # <<k>>
                                   ELSE h.sid = <<f>>

Offered(c) == IF first[c] = "plain" THEN {} ELSE TokensIn[helloOf(first[c])] \cap Made

Classify(c) ==
    /\ At(c, "read") /\ got[c] = Wanted(c)
    /\ IF \E k \in Offered(c) : InWindow(ts[k], now)
       THEN /\ \E k \in Offered(c) : verify(c, k)
            /\ Goto(c, "verify")
            /\ UNCHANGED <<first, got, into, back, handed, closed, acceptor, peers>>
       ELSE Pass(c, First(c), "dial") /\ UNCHANGED authVars

Verdict_Anyway(c) ==                                             \* mutant
    /\ At(c, "verify")
    /\ \E p \in pending : p.conn = c /\ checkAndAdd(p) /\ Pass(c, First(c), "tls")
Verdict(c) ==
    /\ At(c, "verify")
    /\ \E p \in pending : /\ p.conn = c /\ checkAndAdd(p)
                          /\ Pass(c, First(c), IF Accepts(p) THEN "tls" ELSE "dial")

(* EOF or the deadline: a short header is dropped, a short body padded.    *)
ReadFails(c) ==
    /\ At(c, "read") /\ c \in Incomplete
    /\ got[c] = sent[c] /\ got[c] < Wanted(c)
    /\ Pass(c, IF got[c] < Header THEN <<>>
               ELSE Stream(1, got[c]) \o [i \in 1..(FirstRecord - got[c]) |-> 0], "dial")
    /\ UNCHANGED authVars

-----------------------------------------------------------------------------
(* A client with a token: TLS over prefixConn, then the hand-over          *)

Take(c) ==               \* one more byte is read and passed on
    /\ got[c] < sent[c]
    /\ got' = [got EXCEPT ![c] = @ + 1]
    /\ into' = [into EXCEPT ![c] = Append(@, got'[c])]
    /\ UNCHANGED <<pc, first, back, handed, closed, acceptor, peers, authVars>>

TlsRead(c) == At(c, "tls") /\ Take(c)

TlsDone(c) ==
    /\ At(c, "tls") /\ got[c] = Length
    /\ Goto(c, "offer")
    /\ UNCHANGED <<first, got, into, back, handed, closed, acceptor, peers, authVars>>

TlsFails(c) == At(c, "tls") /\ Leave(c) /\ UNCHANGED handed  \* refused, or the deadline

Accept(c) ==             \* l.conns <- sc meets <-l.conns
    /\ At(c, "offer") /\ acceptor = "loop"
    /\ Leave(c)
    /\ handed' = [handed EXCEPT ![first[c]] = @ + 1]

Released_Never == FALSE                                          \* mutant
Released == closed

Withdraw(c) ==           \* <-l.closed
    /\ At(c, "offer") /\ Released
    /\ Leave(c) /\ UNCHANGED handed

AcceptClosed ==
    /\ acceptor = "loop" /\ closed
    /\ acceptor' = "returned"
    /\ UNCHANGED <<conns, closed, peers, authVars>>

markClosed ==            \* by Close, or by an error of ln.Accept in acceptLoop
    /\ ~closed /\ closed' = TRUE
    /\ UNCHANGED <<conns, acceptor, peers, authVars>>

-----------------------------------------------------------------------------
(* relay                                                                   *)

Dial(c) ==               \* and write what was read
    /\ At(c, "dial") /\ Goto(c, "copy")
    /\ UNCHANGED <<first, got, into, back, handed, closed, acceptor, peers, authVars>>

DialFails(c) == At(c, "dial") /\ Leave(c) /\ UNCHANGED handed

CopyUp(c) == At(c, "copy") /\ Take(c)

CopyDown(c) ==
    /\ At(c, "copy") /\ back[c] < dsent[c]
    /\ back' = [back EXCEPT ![c] = @ + 1]
    /\ UNCHANGED <<pc, first, got, into, handed, closed, acceptor, peers, authVars>>

Uploaded(c)   == fin[c] /\ got[c] = sent[c]
Downloaded(c) == dsent[c] = Answer /\ back[c] = dsent[c]

(* <-done: the first copy that ends closes both connections.               *)
RelayEnds(c) ==
    /\ At(c, "copy") /\ (Uploaded(c) \/ Downloaded(c))
    /\ Leave(c) /\ UNCHANGED handed

-----------------------------------------------------------------------------
(* The peers: the site answers the first record and closes                 *)

ClientSends(c) ==
    /\ pc[c] \in {"read", "tls", "copy"} /\ ~fin[c] /\ sent[c] < Length
    /\ sent' = [sent EXCEPT ![c] = IF c \in Incomplete \/ @ > 0 THEN @ + 1 ELSE FirstRecord]
    /\ UNCHANGED <<conns, fin, dsent, closed, acceptor, authVars>>

ClientShuts(c) ==
    /\ HalfClose /\ At(c, "copy") /\ ~fin[c]       \* only the relay reads on until then
    /\ fin' = [fin EXCEPT ![c] = TRUE]
    /\ UNCHANGED <<conns, sent, dsent, closed, acceptor, authVars>>

SiteSends(c) ==
    /\ At(c, "copy") /\ Len(into[c]) >= Header /\ dsent[c] < Answer
    /\ dsent' = [dsent EXCEPT ![c] = @ + 1]
    /\ UNCHANGED <<conns, sent, fin, closed, acceptor, authVars>>

readFirstRecord(c) == Read(c) \/ Classify(c) \/ ReadFails(c)
relay(c)  == Dial(c) \/ DialFails(c) \/ CopyUp(c) \/ CopyDown(c) \/ RelayEnds(c)
handle(c) == \/ readFirstRecord(c) \/ Verdict(c) \/ TlsRead(c) \/ TlsDone(c) \/ TlsFails(c)
             \/ Accept(c) \/ Withdraw(c) \/ relay(c)

Next ==
    \/ \E c \in Conn : \/ Connect(c) \/ \E k \in Token : DialReality(c, k)
                       \/ handle(c) \/ ClientSends(c) \/ ClientShuts(c) \/ SiteSends(c)
    \/ AcceptClosed \/ markClosed
    \/ Tick /\ UNCHANGED <<conns, peers, closed, acceptor>>

(* The select of a handler that is ready; Accept is called until it fails. *)
Fairness == \A c \in Conn : WF_vars(Accept(c) \/ Withdraw(c))

Spec == Init /\ [][Next]_vars /\ Fairness

-----------------------------------------------------------------------------
(* Properties                                                              *)

(* ParsesAsSent of every ClientHello; a fact about the parser, looked at   *)
(* before the first connection.                                            *)
ParsedAsSent == pc = All("none") => \A h \in Hello : ParsesAsSent(h)

Past(k) == {c \in Conn : pc[c] \in {"tls", "offer"} /\ first[c] = k}

(* A token opens one tunnel: of all the connections that carry it, also at *)
(* the same time, at most one gets past the lookup or to Accept.           *)
TokenOpensOne ==
    \A k \in Token : /\ \A c, d \in Past(k) : c = d
                     /\ handed[k] <= 1
                     /\ handed[k] = 1 => Past(k) = {}

Faithful(c) == IsPrefix(into[c], Stream(1, sent[c]))

(* Who gets the stream next, the TLS server or the decoy site, gets what   *)
(* the client sent, in order and from the first byte, if the first record  *)
(* was complete; that of a token already taken too.                        *)
Transparent == \A c \in Conn \ Incomplete : Faithful(c)

(* The same of every connection, also when the client stops or stalls      *)
(* inside its first record.                                                *)
NothingAltered == \A c \in Conn : Faithful(c)

(* A connection that is ready is handed over or closed, whether or not the *)
(* listener is closed while its handler waits for Accept.                  *)
OfferEnds == \A c \in Conn : At(c, "offer") ~> At(c, "done")

(* A relay that ended on its own gave the client the whole answer.         *)
AnswerComplete ==
    [][\A c \in Conn : RelayEnds(c) /\ got[c] >= FirstRecord => back[c] = Answer]_vars
=============================================================================
