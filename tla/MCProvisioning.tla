--------------------------- MODULE MCProvisioning ---------------------------
(* Two users; their flags differ in what the code tells apart.             *)
EXTENDS ServerHost

CONSTANTS Addrs, Endpoints, Sorts, PSKs, KAs, Newline

MCIPOf == "10.7.0.2/24" :> "10.7.0.2" @@ "10.7.0.3/16" :> "10.7.0.3"

AllFlags ==
    [addr : Addrs, peer : {"10.7.0.1"}, name : {"", "laptop"}, endpoint : Endpoints,
     transport : Sorts, sni : {"example.com"}, psk : PSKs, mtu : {1380}, ka : KAs]

(* Whoever has no name, and nobody else, asks for no keepalive.            *)
MCFlags == {f \in AllFlags : f.name = "" <=> f.ka = 0}

Old == <<Field("key", 9), Field("ip", "10.7.0.9")>>

(* No file, or a comment and a peer, with or without the last newline.     *)
MCHandWritten ==
    {[lines |-> <<>>, terminated |-> TRUE]}
    \cup [lines : {<< <<Field("#", "peers")>>, Old >>}, terminated : Newline]

PSK     == 77
AllPSKs == {NoKey, PSK, BadPSK}
=============================================================================
