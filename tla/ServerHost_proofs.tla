------------------------- MODULE ServerHost_proofs --------------------------
(***************************************************************************)
(* Proofs about ServerHost for any number of adduser processes beside any  *)
(* number of starts, failures and kills of the server: EnableNAT is        *)
(* idempotent, a link is what was asked for, and its user is served.       *)
(***************************************************************************)
EXTENDS ServerHost, TLAPS

-----------------------------------------------------------------------------
(* EnableNAT                                                               *)

(* What is in the tables follows from where cmdServer stands: the rules    *)
(* before the one ensure is at are there, and the one it adds is not.      *)
Ensured(r) == \/ at \in {"check", "add"} /\ r < rule
              \/ at \in {"listen", "load", "up"}

HostInv ==
    /\ at \in {"off", "nat", "check", "add", "listen", "load", "up"}
    /\ rule \in Rule
    /\ rules \in [Rule -> {0, 1}]
    /\ at \notin {"off", "nat"} => forward = TRUE
    /\ \A r \in Rule : Ensured(r) => rules[r] = 1
    /\ at = "add" => rules[rule] = 0

LEMMA InvInit == HostInit => HostInv
  BY DEF HostInit, HostInv, Rule, Ensured

LEMMA InvStep ==
  ASSUME HostInv, Contention = {FALSE}, [HostNext]_allVars
  PROVE  HostInv'
<1> USE DEF HostInv, Ensured, Rule
<1>1. CASE UNCHANGED allVars
  BY <1>1 DEF allVars, hostVars
<1>2. CASE setupTun
  BY <1>2 DEF setupTun
<1>3. CASE Forward
  BY <1>3 DEF Forward
<1>4. CASE Check
  <2>1. CASE rules[rule] > 0
    <3>1. NextRule(rule) /\ UNCHANGED <<rules, forward>>
      BY <1>4, <2>1 DEF Check, Present
    <3>2. rules[rule] = 1
      BY <2>1
    <3> QED
      BY <1>4, <3>1, <3>2 DEF NextRule, Check
  <2>2. CASE ~(rules[rule] > 0)
    <3>1. at' = "add" /\ UNCHANGED <<rule, rules, forward>> /\ at = "check"
      BY <1>4, <2>2 DEF Check, Present
    <3>2. rules[rule] = 0
      BY <2>2
    <3> QED
      BY <3>1, <3>2
  <2> QED
    BY <2>1, <2>2
<1>5. CASE Add
  <2>1. rules' \in [Rule -> {0, 1}] /\ rules'[rule] = 1
    BY <1>5 DEF Add
  <2> QED
    BY <1>5, <2>1 DEF Add, NextRule
<1>6. CASE ListenUDP
  BY <1>6 DEF ListenUDP
<1>7. CASE Serve
  BY <1>7 DEF Serve
<1>8. CASE Exit
  BY <1>8 DEF Exit
<1>9. CASE \E u \in User : cmdAddUser(u) /\ UNCHANGED hostVars
  BY <1>9 DEF hostVars
<1> QED
  BY <1>1, <1>2, <1>3, <1>4, <1>5, <1>6, <1>7, <1>8, <1>9 DEF HostNext, cmdServer, EnableNAT

(* RulesOnce, if iptables -C fails only for a rule that is not there       *)
(* (netcfg.go:82-89).                                                      *)
THEOREM Idempotent == Contention = {FALSE} => (HostSpec => []RulesOnce)
<1> SUFFICES ASSUME Contention = {FALSE}
             PROVE  HostSpec => []RulesOnce
  OBVIOUS
<1>1. HostInv /\ [HostNext]_allVars => HostInv'
  BY InvStep
<1>2. HostInv => RulesOnce
  BY DEF HostInv, RulesOnce, Ensured, Rule
<1> QED
  BY InvInit, <1>1, <1>2, PTL DEF HostSpec

-----------------------------------------------------------------------------
(* What a link says                                                        *)

LEMMA Queried ==
  ASSUME NEW p, NEW k \in DOMAIN Omitted, NEW default
  PROVE  /\ k \in DOMAIN URL(p).query <=> Params(p)[k] \notin Omitted[k]
         /\ k \in DOMAIN URL(p).query => URL(p).query[k] = Params(p)[k]
         /\ Get(URL(p), k, default) = IF Params(p)[k] \in Omitted[k] THEN default
                                      ELSE Params(p)[k]
<1>1. URL(p).query = [j \in Given(p) |-> Params(p)[j]]
  BY DEF URL
<1>2. /\ k \in DOMAIN URL(p).query <=> Params(p)[k] \notin Omitted[k]
      /\ k \in DOMAIN URL(p).query => URL(p).query[k] = Params(p)[k]
  BY <1>1 DEF Given
<1>3. QED
  BY <1>2 DEF Get

(* The keys of the query are those that URL sets.                          *)
LEMMA QueryKeys ==
  ASSUME NEW p
  PROVE  /\ {"pk", "addr", "peer", "mtu", "ka", "t", "sni", "psk"} \subseteq DOMAIN Omitted
         /\ Params(p)["pk"] = p.pub /\ Params(p)["addr"] = p.addr /\ Params(p)["peer"] = p.peer
         /\ Params(p)["mtu"] = p.mtu /\ Params(p)["ka"] = p.ka /\ Params(p)["t"] = p.transport
         /\ Params(p)["sni"] = p.sni /\ Params(p)["psk"] = p.psk
         /\ Omitted["pk"] = {} /\ Omitted["addr"] = {""} /\ Omitted["peer"] = {""}
         /\ Omitted["mtu"] = {0} /\ Omitted["ka"] = {0} /\ Omitted["t"] = {"", "udp"}
         /\ Omitted["sni"] = {""} /\ Omitted["psk"] = {NoKey}
BY DEF Params, Omitted

(* What Parsed makes of each parameter that is there, or is not.           *)
LEMMA ParsedFields ==
  ASSUME NEW p, NEW q, q = Parsed(URL(p))
  PROVE  /\ q.name = p.name /\ q.endpoint = p.endpoint /\ q.priv = p.priv /\ q.pub = p.pub
         /\ q.addr = p.addr /\ q.peer = p.peer /\ q.sni = p.sni /\ q.psk = p.psk
         /\ q.transport = IF p.transport = "" THEN "udp" ELSE p.transport
         /\ (p.mtu # 0 => q.mtu = p.mtu)
         /\ (p.ka # 0 => q.ka = p.ka)
<1>1. /\ URL(p).user = p.priv /\ URL(p).host = p.endpoint /\ URL(p).fragment = p.name
  BY DEF URL
<1>2. q.name = p.name /\ q.endpoint = p.endpoint /\ q.priv = p.priv
  BY <1>1 DEF Parsed
<1>3. q.pub = p.pub
  <2>1. q.pub = Get(URL(p), "pk", NoKey)
    BY DEF Parsed
  <2>2. QED
    BY <2>1, Queried, QueryKeys, ZenonT(30)
<1>4. q.addr = p.addr
  <2>1. q.addr = Get(URL(p), "addr", "")
    BY DEF Parsed
  <2>2. QED
    BY <2>1, Queried, QueryKeys, ZenonT(30)
<1>5. q.peer = p.peer
  <2>1. q.peer = Get(URL(p), "peer", "")
    BY DEF Parsed
  <2>2. QED
    BY <2>1, Queried, QueryKeys, ZenonT(30)
<1>6. q.sni = p.sni
  <2>1. q.sni = Get(URL(p), "sni", "")
    BY DEF Parsed
  <2>2. QED
    BY <2>1, Queried, QueryKeys, ZenonT(30)
<1>7. q.psk = p.psk
  <2>1. q.psk = Get(URL(p), "psk", NoKey)
    BY DEF Parsed
  <2>2. QED
    BY <2>1, Queried, QueryKeys, ZenonT(30)
<1>8. q.transport = IF p.transport = "" THEN "udp" ELSE p.transport
  <2>1. q.transport = Get(URL(p), "t", "udp")
    BY DEF Parsed
  <2>2. QED
    BY <2>1, Queried, QueryKeys, ZenonT(30)
<1>9. (p.mtu # 0 => q.mtu = p.mtu)
  <2>1. q.mtu = Get(URL(p), "mtu", 1380)
    BY DEF Parsed
  <2>2. "mtu" \in DOMAIN Omitted /\ Params(p)["mtu"] = p.mtu /\ Omitted["mtu"] = {0}
    BY QueryKeys
  <2>3. QED
    BY <2>1, <2>2, Queried
<1>10. (p.ka # 0 => q.ka = p.ka)
  <2>1. q.ka = Get(URL(p), "ka", 10)
    BY DEF Parsed
  <2>2. "ka" \in DOMAIN Omitted /\ Params(p)["ka"] = p.ka /\ Omitted["ka"] = {0}
    BY QueryKeys
  <2>3. QED
    BY <2>1, <2>2, Queried
<1>11. QED
  BY <1>2, <1>3, <1>4, <1>5, <1>6, <1>7, <1>8, <1>9, <1>10

(* A profile that validates comes back from its link.                      *)
LEMMA RoundTrip ==
  ASSUME NEW p, Validate(p), p.endpoint # Unparsable
  PROVE  ParseURL(URL(p)) = Parsed(URL(p)) /\ ParseURL(URL(p)) # Failed
<1> DEFINE q == Parsed(URL(p))
<1>1. /\ URL(p).scheme = "mirage" /\ URL(p).user = p.priv /\ URL(p).host = p.endpoint
  BY DEF URL
<1>2. "pk" \in DOMAIN URL(p).query
  BY Queried, QueryKeys
<1>3. /\ q.endpoint = p.endpoint /\ q.priv = p.priv /\ q.pub = p.pub
      /\ q.transport = IF p.transport = "" THEN "udp" ELSE p.transport
  BY ParsedFields
<1>4. Validate(q)
  <2> HIDE DEF q
  <2>1. QED
    BY <1>3 DEF Validate, Transports
<1>5. ParseURL(URL(p)) = q
  BY <1>1, <1>2, <1>4 DEF ParseURL, Validate
<1>6. q # Failed
  <2>1. "name" \in DOMAIN q
    BY DEF Parsed
  <2>2. "name" \notin DOMAIN Failed
    BY DEF Failed
  <2>3. QED
    BY <2>1, <2>2
<1>7. QED
  BY <1>5, <1>6

-----------------------------------------------------------------------------
(* What adduser leaves behind                                              *)

LinkInv ==
    /\ pc \in [User -> {"parse", "link", "done", "failed"}] /\ flags \in [User -> Flags]
    /\ \A u \in User : pc[u] = "link" => Complete(flags[u])
    /\ \A x \in links : /\ x.user \in User /\ Complete(flags[x.user]) /\ Linkable(x.user)
                        /\ x.url = URL(NewProfile(x.user, flags[x.user]))

(* Only adduser prints, and it prints what the profile it validated gives. *)
LEMMA LinkStep ==
  ASSUME LinkInv, [HostNext]_allVars
  PROVE  LinkInv'
<1>1. CASE UNCHANGED <<pc, flags, links>>
  BY <1>1 DEF LinkInv, Complete, Linkable, Validate
<1>2. ASSUME NEW u \in User, Refuse(u) \/ AppendPeer(u) \/ Fail(u)
      PROVE  LinkInv'
  <2>1. PICK l \in {"link", "failed"} :
          /\ pc' = [pc EXCEPT ![u] = l] /\ UNCHANGED <<flags, links>>
          /\ l = "link" => Complete(flags[u])
    BY <1>2 DEF Refuse, AppendPeer, Fail, Goto
  <2>2. QED
    BY <2>1 DEF LinkInv, Linkable
<1>3. ASSUME NEW u \in User, PrintLink(u)
      PROVE  LinkInv'
  <2> DEFINE y == [user |-> u, url |-> URL(NewProfile(u, flags[u]))]
  <2>1. /\ pc[u] = "link" /\ Linkable(u) /\ links' = links \cup {y}
        /\ pc' = [pc EXCEPT ![u] = "done"] /\ UNCHANGED flags
    BY <1>3 DEF PrintLink, Goto
  <2>2. y.user = u /\ y.url = URL(NewProfile(u, flags[u]))
    OBVIOUS
  <2> HIDE DEF y
  <2>3. QED
    BY <2>1, <2>2 DEF LinkInv, Linkable
<1>4. CASE cmdServer \/ UNCHANGED allVars
  BY <1>1, <1>4 DEF cmdServer, setupTun, EnableNAT, Forward, Check, Add, ListenUDP, Serve,
     StartServer, Exit, vars, allVars
<1>5. QED
  BY <1>2, <1>3, <1>4 DEF HostNext, cmdAddUser

(* What the theorems assume of the command lines: net/netip takes no empty *)
(* address, and net/url takes the endpoint.                                *)
Usable == "" \notin DOMAIN IPOf /\ \A fl \in Flags : fl.endpoint # Unparsable

(* What the client gets out of a link is what adduser was asked for.       *)
LEMMA PrintedFaithful ==
  ASSUME Usable, LinkInv
  PROVE  LinkFaithful
<1> SUFFICES ASSUME NEW x \in links
             PROVE  /\ ParseURL(x.url) # Failed
        /\ LET asked == flags[x.user]
               got   == Import(ParseURL(x.url))
           IN  /\ got.connect = asked.endpoint /\ got.key = x.user
               /\ got.server = ServerKey /\ got.addr = asked.addr
               /\ got.transport = Or(asked.transport, "", "udp")
               /\ asked.peer # "" => got.peer = asked.peer
               /\ asked.sni # "" => got.sni = asked.sni
               /\ asked.mtu # 0 => got.mtu = asked.mtu
               /\ asked.ka # 0 => got.ka = asked.ka
               /\ asked.transport = "reality" => got.psk = asked.psk
  BY DEF LinkFaithful
<1> DEFINE fl == flags[x.user]
           p  == NewProfile(x.user, fl)
           q  == Parsed(URL(p))
<1>1. fl \in Flags /\ Complete(fl) /\ Validate(p) /\ x.url = URL(p)
  BY DEF LinkInv, Linkable
<1>2. /\ p.endpoint = fl.endpoint /\ p.priv = x.user /\ p.pub = ServerKey /\ p.addr = fl.addr
      /\ p.peer = fl.peer /\ p.mtu = fl.mtu /\ p.ka = fl.ka /\ p.sni = fl.sni
      /\ p.psk = fl.psk /\ p.transport = fl.transport
  BY DEF NewProfile
<1>3. ParseURL(x.url) = q /\ ParseURL(x.url) # Failed
  BY <1>1, <1>2, RoundTrip DEF Usable
<1>4. fl.addr # ""
  BY <1>1 DEF Complete, Usable
<1> HIDE DEF fl, p
<1>5. /\ q.endpoint = fl.endpoint /\ q.priv = x.user /\ q.pub = ServerKey /\ q.addr = fl.addr
      /\ q.peer = fl.peer /\ q.sni = fl.sni /\ q.psk = fl.psk
      /\ q.transport = IF fl.transport = "" THEN "udp" ELSE fl.transport
      /\ (fl.mtu # 0 => q.mtu = fl.mtu)
      /\ (fl.ka # 0 => q.ka = fl.ka)
  <2>1. /\ q.endpoint = p.endpoint /\ q.priv = p.priv /\ q.pub = p.pub /\ q.addr = p.addr
        /\ q.peer = p.peer /\ q.sni = p.sni /\ q.psk = p.psk
        /\ q.transport = IF p.transport = "" THEN "udp" ELSE p.transport
        /\ (p.mtu # 0 => q.mtu = p.mtu)
        /\ (p.ka # 0 => q.ka = p.ka)
    BY ParsedFields
  <2> HIDE DEF q
  <2>2. QED
    BY <1>2, <2>1
<1> HIDE DEF q
<1> DEFINE got == Import(q)
<1>6. got.connect = fl.endpoint /\ got.key = x.user /\ got.server = ServerKey
  BY <1>5 DEF Import
<1>7. /\ got.addr = fl.addr
      /\ fl.peer # "" => got.peer = fl.peer
      /\ fl.sni # "" => got.sni = fl.sni
  BY <1>4, <1>5 DEF Import, Or
<1>8. (fl.mtu # 0 => got.mtu = fl.mtu) /\ (fl.ka # 0 => got.ka = fl.ka)
  <2>1. q.mtu # 0 => got.mtu = q.mtu
    BY DEF Import, Or
  <2>2. q.ka # 0 => got.ka = q.ka
    BY DEF Import, Or
  <2> HIDE DEF got
  <2>3. fl.mtu # 0 => got.mtu = fl.mtu
    BY <1>5, <2>1
  <2>4. fl.ka # 0 => got.ka = fl.ka
    BY <1>5, <2>2
  <2>5. QED
    BY <2>3, <2>4
<1>9. got.transport = IF fl.transport = "" THEN "udp" ELSE fl.transport
  BY <1>5 DEF Import, Or
<1>10. fl.transport = "reality" => got.psk = fl.psk
  BY <1>5 DEF Import
<1> HIDE DEF got
<1>11. QED
  BY <1>3, <1>6, <1>7, <1>8, <1>9, <1>10 DEF got, fl, Or

(* Every link that is printed is the URL of a valid profile, built from a  *)
(* command line (adduser.go:76-88).                                        *)
THEOREM LinkInvariance == HostSpec => []LinkInv
<1>1. HostInit => LinkInv
  BY DEF HostInit, Init, LinkInv
<1>2. LinkInv /\ [HostNext]_allVars => LinkInv'
  BY LinkStep
<1>3. QED
  BY <1>1, <1>2, PTL DEF HostSpec

(* LinkFaithful, whatever the command lines and the file: the client that  *)
(* imports a link runs with what adduser was asked for, since ParseURL     *)
(* undoes URL (profile.go).                                                *)
THEOREM LinksAreFaithful == Usable => (HostSpec => []LinkFaithful)
<1> SUFFICES ASSUME Usable
             PROVE  HostSpec => []LinkFaithful
  OBVIOUS
<1>1. LinkInv => LinkFaithful
  BY PrintedFaithful
<1>2. QED
  BY <1>1, LinkInvariance, PTL

-----------------------------------------------------------------------------
(* The peers file                                                          *)

(* A file that loadPeers accepts, unless it has no peers.                  *)
InOrder(f) ==
    /\ f.terminated = TRUE
    /\ f.lines \in Seq(ToSet(f.lines))
    /\ \A l \in ToSet(f.lines) : Ignored(l) \/ ~Malformed(l)

LEMMA PeerLineRead ==
  ASSUME NEW u, NEW fl, NEW l, l = PeerLine(u, fl)
  PROVE  /\ ~Ignored(l) /\ ~Malformed(l)
         /\ l[1].val = u /\ l[2].val = IPOf[fl.addr]
<1> DEFINE a == Field("key", u)
           b == Field("ip", IPOf[fl.addr])
           n == Field("name", fl.name)
<1>1. a.tag = "key" /\ a.val = u /\ b.tag = "ip" /\ b.val = IPOf[fl.addr]
  BY DEF Field
<1>2. l = <<a, b>> \o <<>> \/ l = <<a, b>> \o <<n>>
  BY DEF PeerLine
<1> HIDE DEF a, b, n
<1>3. Len(l) >= 2 /\ l # <<>> /\ Head(l) = a /\ l[1] = a /\ l[2] = b
  <2>1. CASE l = <<a, b>> \o <<>>
    BY <2>1
  <2>2. CASE l = <<a, b>> \o <<n>>
    BY <2>2
  <2>3. QED
    BY <1>2, <2>1, <2>2
<1>4. QED
  BY <1>1, <1>3 DEF Ignored, Malformed

(* A line appended to an ordered file is served from the next load on.     *)
LEMMA Appended ==
  ASSUME NEW f, InOrder(f), NEW l, ~Malformed(l)
  PROVE  /\ InOrder(AppendLine(f, l))
         /\ ToSet(AppendLine(f, l).lines) = ToSet(f.lines) \cup {l}
<1> DEFINE s == f.lines
           t == Append(s, l)
<1>1. s \in Seq(ToSet(s))
  BY DEF InOrder
<1>2. AppendLine(f, l).lines = t /\ AppendLine(f, l).terminated = TRUE
  BY DEF AppendLine, InOrder
<1>3. /\ DOMAIN t = 1..(Len(s) + 1) /\ t[Len(s) + 1] = l /\ Len(s) \in Nat
      /\ DOMAIN s = 1..Len(s) /\ \A i \in 1..Len(s) : t[i] = s[i]
  BY <1>1
<1> HIDE DEF t
<1>4. ToSet(t) = ToSet(s) \cup {l}
  BY <1>3 DEF ToSet
<1>5. t \in Seq(ToSet(t))
  <2>1. s \in Seq(ToSet(s) \cup {l})
    BY <1>1
  <2>2. Append(s, l) \in Seq(ToSet(s) \cup {l})
    BY <2>1
  <2>3. QED
    BY <1>4, <2>2 DEF t
<1>6. QED
  BY <1>2, <1>4, <1>5 DEF InOrder

(* loadPeers fills the map with what the lines of the file say.            *)
LEMMA Loaded ==
  ASSUME NEW f, InOrder(f), NEW u, NEW fl, PeerLine(u, fl) \in ToSet(f.lines)
  PROVE  [key |-> u, ip |-> IPOf[fl.addr]] \in loadPeers(f)
<1> DEFINE lines == {l \in ToSet(f.lines) : ~Ignored(l)}
           mine  == PeerLine(u, fl)
<1>1. mine \in lines /\ mine[1].val = u /\ mine[2].val = IPOf[fl.addr]
  BY PeerLineRead
<1>2. ~(lines = {} \/ \E l \in lines : Malformed(l))
  BY <1>1 DEF InOrder
<1>3. loadPeers(f) = {[key |-> l[1].val, ip |-> l[2].val] : l \in lines}
  BY <1>2 DEF loadPeers
<1> HIDE DEF lines, mine
<1>4. [key |-> mine[1].val, ip |-> mine[2].val] \in loadPeers(f)
  BY <1>1, <1>3
<1>5. QED
  BY <1>1, <1>4

(* Whoever has a link, or is about to get one, has a line in the file.     *)
FileInv ==
    /\ InOrder(file)
    /\ \A u \in User : pc[u] = "link" => PeerLine(u, flags[u]) \in ToSet(file.lines)
    /\ \A x \in links : PeerLine(x.user, flags[x.user]) \in ToSet(file.lines)
    /\ PrintedIsServed

LEMMA FileInvInit ==
  ASSUME \A f \in HandWritten : InOrder(f), Init
  PROVE  FileInv
BY DEF Init, FileInv, PrintedIsServed

(* A step that changes nothing adduser keeps.                              *)
LEMMA FileInvSame ==
  ASSUME FileInv, UNCHANGED <<pc, flags, file, links>>, PrintedIsServed'
  PROVE  FileInv'
BY DEF FileInv

(* The steps of the server.                                                *)
LEMMA StartStep ==
  ASSUME Usable, LinkInv, FileInv, StartServer
  PROVE  FileInv'
<1>1. /\ server' = loadPeers(file) /\ loaded' = links
      /\ UNCHANGED <<pc, flags, file, links>>
  BY DEF StartServer
<1>2. ASSUME NEW x \in links
      PROVE  [key |-> x.user, ip |-> IPOf[x.url.query["addr"]]] \in loadPeers(file)
  <2> DEFINE fl == flags[x.user]
             p  == NewProfile(x.user, fl)
  <2>1. Complete(fl) /\ x.url = URL(p) /\ PeerLine(x.user, fl) \in ToSet(file.lines)
    BY DEF LinkInv, FileInv
  <2>2. p.addr = fl.addr /\ fl.addr # ""
    BY <2>1 DEF NewProfile, Complete, Usable
  <2>3. "addr" \in DOMAIN Omitted /\ Params(p)["addr"] = p.addr /\ Omitted["addr"] = {""}
    BY QueryKeys
  <2>4. URL(p).query["addr"] = p.addr
    BY <2>2, <2>3, Queried
  <2>5. [key |-> x.user, ip |-> IPOf[fl.addr]] \in loadPeers(file)
    BY <2>1, Loaded DEF FileInv
  <2>6. QED
    BY <2>1, <2>2, <2>4, <2>5
<1>3. PrintedIsServed'
  BY <1>1, <1>2 DEF PrintedIsServed
<1>4. QED
  BY <1>1, <1>3, FileInvSame

(* The steps of a user who runs adduser.                                   *)
LEMMA AddUserStep ==
  ASSUME LinkInv, FileInv, NEW u \in User, cmdAddUser(u)
  PROVE  FileInv'
<1>1. PrintedIsServed'
  BY DEF cmdAddUser, Refuse, AppendPeer, PrintLink, Fail, FileInv, PrintedIsServed
<1>2. CASE Refuse(u) \/ Fail(u)
  <2>1. pc' = [pc EXCEPT ![u] = "failed"] /\ UNCHANGED <<flags, file, links>>
    BY <1>2 DEF Refuse, Fail, Goto
  <2>2. QED
    BY <1>1, <2>1 DEF LinkInv, FileInv
<1>3. CASE AppendPeer(u)
  <2> DEFINE l == PeerLine(u, flags[u])
  <2>1. /\ pc' = [pc EXCEPT ![u] = "link"] /\ UNCHANGED <<flags, links>>
        /\ file' = AppendLine(file, l)
    BY <1>3 DEF AppendPeer, Goto
  <2>2. InOrder(file') /\ ToSet(file'.lines) = ToSet(file.lines) \cup {l}
    <3>1. ~Malformed(l)
      BY PeerLineRead
    <3> HIDE DEF l
    <3>2. QED
      BY <2>1, <3>1, Appended DEF FileInv
  <2>3. QED
    BY <1>1, <2>1, <2>2 DEF LinkInv, FileInv
<1>4. CASE PrintLink(u)
  <2> DEFINE y == [user |-> u, url |-> URL(NewProfile(u, flags[u]))]
  <2>1. /\ pc[u] = "link" /\ links' = links \cup {y}
        /\ pc' = [pc EXCEPT ![u] = "done"] /\ UNCHANGED <<flags, file>>
    BY <1>4 DEF PrintLink, Goto
  <2>2. y.user = u
    OBVIOUS
  <2> HIDE DEF y
  <2>3. PeerLine(u, flags[u]) \in ToSet(file.lines)
    BY <2>1 DEF FileInv
  <2>4. QED
    BY <1>1, <2>1, <2>2, <2>3 DEF LinkInv, FileInv
<1>5. QED
  BY <1>2, <1>3, <1>4 DEF cmdAddUser

LEMMA FileStep ==
  ASSUME Usable, LinkInv, FileInv, [HostNext]_allVars
  PROVE  FileInv'
<1>1. CASE UNCHANGED allVars
  BY <1>1, FileInvSame DEF allVars, vars, FileInv, PrintedIsServed
<1>2. CASE setupTun \/ EnableNAT \/ ListenUDP
  BY <1>2, FileInvSame DEF setupTun, EnableNAT, Forward, Check, Add, ListenUDP, vars, FileInv,
     PrintedIsServed
<1>3. CASE Serve
  BY <1>3, StartStep DEF Serve
<1>4. CASE Exit
  BY <1>4, FileInvSame DEF Exit, PrintedIsServed
<1>5. ASSUME NEW u \in User, cmdAddUser(u)
      PROVE  FileInv'
  BY <1>5, AddUserStep
<1>6. QED
  BY <1>1, <1>2, <1>3, <1>4, <1>5 DEF HostNext, cmdServer

(* PrintedIsServed, for any number of users and starts of the server in    *)
(* any order: if the file was in order before the first adduser, a server  *)
(* that starts after a link was printed has its peer, at the address the   *)
(* link carries (adduser.go:56-60, peers.go).                              *)
THEOREM PrintedServed ==
  ASSUME Usable, \A f \in HandWritten : InOrder(f)
  PROVE  HostSpec => []PrintedIsServed
<1>1. HostInit => FileInv
  BY FileInvInit DEF HostInit
<1>2. LinkInv /\ FileInv /\ [HostNext]_allVars => FileInv'
  BY FileStep
<1>3. FileInv => PrintedIsServed
  BY DEF FileInv
<1>4. QED
  BY <1>1, <1>2, <1>3, LinkInvariance, PTL DEF HostSpec
=============================================================================
