------------------------------ MODULE Profile -------------------------------
(***************************************************************************)
(* config/profile.go: the connection profile, its mirage:// link, and what *)
(* cmdClient makes of an imported profile.                                 *)
(*                                                                         *)
(* A profile is a record; "" and NoKey are the empty values.  A link keeps *)
(* the parameters of its query as a function from the names that occur in  *)
(* it.  Escaping is the business of net/url: only a host net/url refuses   *)
(* is told apart (Unparsable).                                             *)
(***************************************************************************)
EXTENDS Integers

NoKey      == 0                    \* a key or PSK that is missing
Unparsable == "host:port?"         \* an endpoint url.Parse does not accept
Failed     == [err |-> TRUE]

Transports == {"udp", "tls", "reality"}

Validate(p) ==
    /\ p.priv # NoKey /\ p.pub # NoKey
    /\ p.endpoint # ""
    /\ p.transport \in Transports \cup {""}

(* The query parameters and the values for which one is left out.          *)
Params(p)  == [pk   |-> p.pub,  addr |-> p.addr, peer |-> p.peer,
               mtu  |-> p.mtu,  ka   |-> p.ka,   t    |-> p.transport,
               sni  |-> p.sni,  psk  |-> p.psk]
Omitted    == [pk |-> {}, addr |-> {""}, peer |-> {""}, mtu |-> {0}, ka |-> {0},
               t |-> {"", "udp"}, sni |-> {""}, psk |-> {NoKey}]

Given_NoTls(p) ==                                                \* mutant
    {k \in DOMAIN Omitted : Params(p)[k] \notin Omitted[k] /\ ~(k = "t" /\ p.psk = NoKey)}
Given(p) == {k \in DOMAIN Omitted : Params(p)[k] \notin Omitted[k]}

URL(p) ==
    [scheme |-> "mirage", user |-> p.priv, host |-> p.endpoint, fragment |-> p.name,
     query  |-> [k \in Given(p) |-> Params(p)[k]]]

Get(u, k, default) == IF k \in DOMAIN u.query THEN u.query[k] ELSE default

Parsed(u) ==
    [name |-> u.fragment, endpoint |-> u.host, priv |-> u.user,
     pub  |-> Get(u, "pk", NoKey),  addr |-> Get(u, "addr", ""),
     peer |-> Get(u, "peer", ""),   transport |-> Get(u, "t", "udp"),
     sni  |-> Get(u, "sni", ""),    mtu |-> Get(u, "mtu", 1380),
     ka   |-> Get(u, "ka", 10),     psk |-> Get(u, "psk", NoKey)]

ParseURL(u) ==
    IF /\ u.scheme = "mirage" /\ u.host # Unparsable
       /\ u.user # NoKey /\ "pk" \in DOMAIN u.query
       /\ Validate(Parsed(u))
    THEN Parsed(u) ELSE Failed

-----------------------------------------------------------------------------
(* cmdClient                                                               *)

Or(v, empty, default) == IF v = empty THEN default ELSE v

(* The flags of cmdClient after the import of profile p.                   *)
Import(p) ==
    [connect |-> p.endpoint, server |-> p.pub, key |-> p.priv,
     addr |-> Or(p.addr, "", "10.7.0.2/24"),   peer |-> Or(p.peer, "", "10.7.0.1"),
     mtu  |-> Or(p.mtu, 0, 1380),              ka   |-> Or(p.ka, 0, 10),
     sni  |-> Or(p.sni, "", "www.microsoft.com"),
     transport |-> Or(p.transport, "", "udp"),
     psk  |-> IF p.transport = "reality" THEN p.psk ELSE NoKey]

(* dial ends the program when the reality transport has no PSK.            *)
Dials(flags) == flags.transport = "reality" => flags.psk # NoKey
=============================================================================
