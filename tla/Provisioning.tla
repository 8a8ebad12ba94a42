---------------------------- MODULE Provisioning ----------------------------
(***************************************************************************)
(* How a user gets in: `mirage adduser' (cmd/mirage/adduser.go) appends a  *)
(* line to the peers file and prints a link; the server reads the file     *)
(* when it starts (cmd/mirage/peers.go, server.New); the client imports    *)
(* the link.  Several adduser processes may run, and the server may start  *)
(* at any moment between their steps.                                      *)
(*                                                                         *)
(* The file is a sequence of lines; a line is a sequence of fields, each   *)
(* with a tag that says what it parses as.  User n has key pair n.         *)
(***************************************************************************)
EXTENDS Profile, Sequences, SequencesExt

CONSTANTS User,          \* adduser processes, numbered from 1
          Flags,         \* the command lines they may be given
          HandWritten,   \* what may be in the file before: [lines, terminated]
          ServerKey,
          IPOf         \* the address in each CIDR netip.ParsePrefix takes

ASSUME ProvisioningAssumption ==
    /\ User \subseteq Nat \ {NoKey}
    /\ ServerKey \in Nat \ {NoKey}

VARIABLES pc, flags,     \* of each adduser process
          file,
          links,         \* printed so far, with the flags they were asked for
          server,        \* peers of the running server, or Down
          loaded         \* the links printed when it started

vars == <<pc, flags, file, links, server, loaded>>

Down == {}               \* loadPeers refuses a file without peers
BadPSK == -1             \* a -reality-psk that does not decode

Init ==
    /\ pc = [u \in User |-> "parse"]
    /\ flags \in [User -> Flags]
    /\ file \in HandWritten
    /\ links = {} /\ server = Down /\ loaded = {}

Goto(u, l) == pc' = [pc EXCEPT ![u] = l]

-----------------------------------------------------------------------------
(* The peers file                                                          *)

Field(tag, v) == [tag |-> tag, val |-> v]
Glue(a, b)    == Field(IF a.tag = "#" THEN "#" ELSE "glued", a.val)

(* O_APPEND, one WriteString of the line and its newline: without a newline *)
(* at the end of the file the line continues the last one.                 *)
AppendLine(f, l) ==
    [lines |-> IF f.terminated THEN Append(f.lines, l)
               ELSE Append(Front(f.lines),
                      Front(Last(f.lines)) \o <<Glue(Last(Last(f.lines)), Head(l))>> \o Tail(l)),
     terminated |-> TRUE]

PeerLine_Prefix(u, fl) == <<Field("key", u), Field("cidr", fl.addr)>>     \* mutant
PeerLine(u, fl) ==
    <<Field("key", u), Field("ip", IPOf[fl.addr])>>
        \o IF fl.name = "" THEN <<>> ELSE <<Field("name", fl.name)>>

Ignored(l)   == l = <<>> \/ Head(l).tag = "#"
Malformed(l) == Len(l) < 2 \/ l[1].tag # "key" \/ l[2].tag # "ip"

(* loadPeers, then server.New: the peers, or Down when either fails.       *)
loadPeers(f) ==
    LET lines == {l \in ToSet(f.lines) : ~Ignored(l)}
    IN  IF lines = {} \/ \E l \in lines : Malformed(l) THEN Down
        ELSE {[key |-> l[1].val, ip |-> l[2].val] : l \in lines}

-----------------------------------------------------------------------------
(* cmdAddUser                                                              *)

Complete(fl) == fl.addr \in DOMAIN IPOf /\ fl.endpoint # ""

Refuse(u) ==             \* a required flag is missing or does not parse
    /\ pc[u] = "parse" /\ ~Complete(flags[u])
    /\ Goto(u, "failed")
    /\ UNCHANGED <<flags, file, links, server, loaded>>

AppendPeer(u) ==
    /\ pc[u] = "parse" /\ Complete(flags[u])
    /\ file' = AppendLine(file, PeerLine(u, flags[u]))
    /\ Goto(u, "link")
    /\ UNCHANGED <<flags, links, server, loaded>>

NewProfile(u, fl) ==
    [name |-> fl.name, endpoint |-> fl.endpoint, pub |-> ServerKey, priv |-> u,
     addr |-> fl.addr, peer |-> fl.peer, mtu |-> fl.mtu, ka |-> fl.ka,
     transport |-> fl.transport, sni |-> fl.sni, psk |-> fl.psk]

Linkable(u) == flags[u].psk # BadPSK /\ Validate(NewProfile(u, flags[u]))

PrintLink(u) ==
    /\ pc[u] = "link" /\ Linkable(u)
    /\ links' = links \cup {[user |-> u, url |-> URL(NewProfile(u, flags[u]))]}
    /\ Goto(u, "done")
    /\ UNCHANGED <<flags, file, server, loaded>>

Fail(u) ==               \* the PSK does not decode or the profile is invalid
    /\ pc[u] = "link" /\ ~Linkable(u)
    /\ Goto(u, "failed")
    /\ UNCHANGED <<flags, file, links, server, loaded>>

-----------------------------------------------------------------------------

StartServer ==           \* also the restart that adduser asks for
    /\ server' = loadPeers(file)
    /\ loaded' = links
    /\ UNCHANGED <<pc, flags, file, links>>

cmdAddUser(u) == Refuse(u) \/ AppendPeer(u) \/ PrintLink(u) \/ Fail(u)

Next == StartServer \/ \E u \in User : cmdAddUser(u)

Spec == Init /\ [][Next]_vars

-----------------------------------------------------------------------------
(* Properties                                                              *)

(* A server started after a link was printed serves its user, at the       *)
(* address the link tells the client to use.                               *)
PrintedIsServed ==
    \A x \in loaded : [key |-> x.user, ip |-> IPOf[x.url.query["addr"]]] \in server

(* The client that imports a link runs with what adduser was asked for.    *)
LinkFaithful ==
    \A x \in links :
        /\ ParseURL(x.url) # Failed
        /\ LET asked == flags[x.user]
               got   == Import(ParseURL(x.url))
           IN  /\ got.connect = asked.endpoint /\ got.key = x.user
               /\ got.server = ServerKey /\ got.addr = asked.addr
               /\ got.transport = Or(asked.transport, "", "udp")
               /\ asked.peer # "" => got.peer = asked.peer
               /\ asked.sni # "" => got.sni = asked.sni
               /\ asked.mtu # 0 => got.mtu = asked.mtu
               /\ asked.ka # 0 => got.ka = asked.ka
               /\ asked.transport = "reality" => got.psk = asked.psk

(* A link is all the client needs to connect.                              *)
LinkConnects == \A x \in links : Dials(Import(ParseURL(x.url)))

(* adduser adds a user and prints his link, or does neither.               *)
NoOrphan ==
    \A u \in User : pc[u] = "failed" =>
        \A l \in ToSet(file.lines) : \A i \in DOMAIN l : l[i] # Field("key", u)
=============================================================================
