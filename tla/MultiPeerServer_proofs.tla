----------------------- MODULE MultiPeerServer_proofs -----------------------
(***************************************************************************)
(* Safety of the multi-peer server for any number of peers, sessions, ids  *)
(* and addresses.                                                          *)
(***************************************************************************)
EXTENDS MultiPeerServer, TLAPS

LEMMA RefFacts ==
    ASSUME TypeOK
    PROVE  /\ Made \subseteq Ref /\ NoSession \notin Ref
           /\ made \in Nat /\ MaxSessions \in Nat
  BY ServerAssumption DEF TypeOK, Made, Ref, NoSession

LEMMA InitType == Init => TypeOK
  <1> SUFFICES ASSUME Init PROVE TypeOK
    OBVIOUS
  <1> USE DEF Init
  <1>1. made \in 0..MaxSessions  BY ServerAssumption
  <1>2. loaded \in [Thread -> [ctr : Nat, to : Addr \cup {NoSession}]]
    BY DEF Nothing
  <1>3. /\ pc \in [Thread -> Label] /\ tunLog \in [Ref -> [Counter -> Nat]]
        /\ sendMu \in Thread \cup {"free"}
    BY DEF Label
  <1> QED  BY <1>1, <1>2, <1>3 DEF TypeOK

-----------------------------------------------------------------------------
(* Sending: TypeOK needs to know that a goroutine inside sendTo works on a *)
(* session, and NonceUnique that sendMu is held from the read of the       *)
(* counter to its increment.                                               *)
Sending(t) == pc[t] \in {"seal", "send"}

Working ==
    /\ \A t \in Thread : pc[t] = "lock" \/ Sending(t) => cur[t] \in Made
    /\ pc["serve"] = "start" => pc["tun"] = "start"

Locked ==
    /\ \A t \in Thread : Sending(t) <=> sendMu = t
    /\ \A t \in Thread : pc[t] = "send" => loaded[t].ctr = sendCounter[cur[t]]

Used == \A o \in out : o.ctr < sendCounter[o.ref]

SendInv == TypeOK /\ Working /\ Locked /\ Used /\ NonceUnique

LEMMA TypeStep ==
    ASSUME TypeOK, Working, [Next]_vars
    PROVE  TypeOK'
  <1> USE DEF TypeOK, Made, table, maps, rx, tx, ctl, Goto
  <1>1. CASE Serve
    BY <1>1 DEF Serve, Thread, Label
  <1>2. CASE RecvFails
    BY <1>2 DEF RecvFails, Thread, Label
  <1>3. ASSUME NEW r \in Ref, NEW c \in Counter, NEW src \in Addr,
               ServeData(r, c, src) \/ ServeOther(r, c, src)
        PROVE  TypeOK'
    <2>1. CASE ServeData(r, c, src)
      BY <2>1 DEF ServeData, Accept
    <2>2. CASE ServeOther(r, c, src)
      BY <2>2 DEF ServeOther, Accept
    <2> QED  BY <1>3, <2>1, <2>2
  <1>4. ASSUME NEW r \in Ref, NEW c \in Counter, NEW src \in Addr,
               ServeKeepalive(r, c, src)
        PROVE  TypeOK'
    BY <1>4 DEF ServeKeepalive, Accept, Thread, Label
  <1>5. ASSUME NEW p \in Key, NEW src \in Addr, NEW i \in Id,
               HandshakeReply(p, src, i)
        PROVE  TypeOK'
    BY <1>5, ServerAssumption, SMTT(30) DEF HandshakeReply, Known, Made, Ref, Thread, Label
  <1>6. CASE Register
    BY <1>6 DEF Register, Evict, Thread, Label
  <1>7. CASE tunReader
    BY <1>7 DEF tunReader, ReadPacket, TunError, Thread, Label
  <1>8. ASSUME NEW t \in Thread, sendTo(t)
        PROVE  TypeOK'
    <2>1. CASE Lock(t)
      BY <2>1 DEF Lock, Thread, Label
    <2>2. CASE SealBegin(t)
      <3>1. cur[t] \in Ref
        BY <2>2, ServerAssumption DEF SealBegin, Working, Sending, Ref
      <3> QED  BY <2>2, <3>1 DEF SealBegin, Thread, Label
    <2>3. CASE SealSend(t)
      <3>1. cur[t] \in Made /\ cur[t] \in Ref
        BY <2>3, ServerAssumption DEF SealSend, Working, Sending, Ref
      <3>2. loaded[t].ctr \in Nat /\ loaded[t].to \in Addr \cup {NoSession}
        OBVIOUS
      <3>3. sendCounter' \in [Ref -> Nat]
        <4>1. sendCounter \in [Ref -> Nat]  OBVIOUS
        <4>2. sendCounter' = [sendCounter EXCEPT ![cur[t]] = @ + 1]
          BY <2>3 DEF SealSend
        <4>3. sendCounter[cur[t]] + 1 \in Nat  BY <3>1, <4>1
        <4> HIDE DEF TypeOK
        <4> QED  BY <4>1, <4>2, <4>3
      <3>4. Kind[t] \in {"keepalive", "data"} /\ Idle[t] \in Label
        BY DEF Thread, Kind, Idle, Label
      <3>5. out' \subseteq [ref : Made, ctr : Nat, to : Addr \cup {NoSession},
                            typ : {"keepalive", "data"}]
        BY <2>3, <3>1, <3>2, <3>4 DEF SealSend
      <3>6. loaded' \in [Thread -> [ctr : Nat, to : Addr \cup {NoSession}]]
        BY <2>3 DEF SealSend, Nothing
      <3> QED  BY <2>3, <3>3, <3>4, <3>5, <3>6 DEF SealSend, Unlocked
    <2> QED  BY <1>8, <2>1, <2>2, <2>3 DEF sendTo
  <1>9. CASE Stop
    BY <1>9 DEF Stop
  <1>10. CASE UNCHANGED vars
    BY <1>10 DEF vars, Made
  <1> QED  BY <1>1, <1>2, <1>3, <1>4, <1>5, <1>6, <1>7, <1>8, <1>9, <1>10
           DEF Next, Receive

LEMMA InitSend == Init => SendInv
  <1> SUFFICES ASSUME Init PROVE SendInv
    OBVIOUS
  <1>1. /\ out = {} /\ sendMu = "free" /\ sendMu \notin Thread
        /\ \A t \in Thread : pc[t] = "start"
    BY DEF Init, Thread
  <1>2. pc["tun"] = "start"
    BY <1>1 DEF Thread
  <1> QED  BY <1>1, <1>2, InitType DEF SendInv, Working, Locked, Used, NonceUnique, Sending

LEMMA SendStep ==
    ASSUME SendInv, [Next]_vars
    PROVE  SendInv'
  <1>1. TypeOK'
    BY TypeStep DEF SendInv
  <1> USE DEF SendInv, Sending, tx, Goto
  (* Outside sendTo nothing it relies on changes.                          *)
  <1>2. ASSUME UNCHANGED tx,
               \A t \in Thread : Sending(t)' <=> Sending(t),
               \A t \in Thread : pc'[t] = "send" <=> pc[t] = "send",
               \A t \in Thread : Sending(t) => cur'[t] = cur[t],
               Working'
        PROVE  SendInv'
    BY <1>1, <1>2 DEF Locked, Used, NonceUnique
  <1>3. CASE Serve
    <2>1. /\ pc' = [serve |-> "recv", tun |-> "read"] /\ UNCHANGED tx
          /\ UNCHANGED cur /\ pc["serve"] = "start" /\ pc["tun"] = "start"
      BY <1>3 DEF Serve, Working
    <2>2. \A t \in Thread : ~Sending(t) /\ ~Sending(t)' /\ pc'[t] # "lock"
      BY <2>1 DEF Thread
    <2>3. Working'
      BY <2>1, <2>2 DEF Working
    <2> QED  BY <1>2, <2>1, <2>2, <2>3
  (* Serve's own steps: only its pc moves, between states outside sendTo.  *)
  <1>4. ASSUME UNCHANGED tx, made' \in Nat, made' >= made,
               cur' = [cur EXCEPT !["serve"] = cur'["serve"]],
               pc["serve"] \in {"recv", "register"},
               \/ pc'["serve"] = "lock" /\ cur'["serve"] \in Made
               \/ pc'["serve"] \in {"recv", "register", "done"},
               pc' = [pc EXCEPT !["serve"] = pc'["serve"]]
        PROVE  SendInv'
    <2>1. \A t \in Thread : Sending(t)' <=> Sending(t)
      BY <1>4 DEF Thread, TypeOK
    <2>2. \A t \in Thread : pc'[t] = "send" <=> pc[t] = "send"
      BY <1>4 DEF Thread, TypeOK
    <2>3. \A t \in Thread : Sending(t) => cur'[t] = cur[t]
      BY <1>4 DEF Thread, TypeOK
    <2>4. Made \subseteq Made'
      BY <1>4, RefFacts DEF Made
    <2>5. Working'
      BY <1>4, <2>4 DEF Working, Thread, TypeOK
    <2> QED  BY <1>2, <1>4, <2>1, <2>2, <2>3, <2>5
  <1>5. CASE RecvFails \/ Register
    BY <1>4, <1>5, RefFacts DEF RecvFails, Register, TypeOK, table
  <1>6. CASE Receive
    BY <1>4, <1>6, RefFacts DEF Receive, ServeData, ServeOther, ServeKeepalive, Accept,
       HandshakeReply, TypeOK, table
  <1>7. CASE tunReader
    <2>1. /\ UNCHANGED tx /\ UNCHANGED made /\ pc["tun"] = "read"
          /\ \/ cur' = cur /\ pc' = [pc EXCEPT !["tun"] = "done"]
             \/ \E dst \in IP :
                  /\ byIP[dst] \in Made
                  /\ cur' = [cur EXCEPT !["tun"] = byIP[dst]]
                  /\ pc' = [pc EXCEPT !["tun"] = "lock"]
      BY <1>7 DEF tunReader, TunError, ReadPacket, TypeOK, table
    <2>2. \A t \in Thread : Sending(t)' <=> Sending(t)
      BY <2>1 DEF Thread, TypeOK
    <2>3. \A t \in Thread : pc'[t] = "send" <=> pc[t] = "send"
      BY <2>1 DEF Thread, TypeOK
    <2>4. \A t \in Thread : Sending(t) => cur'[t] = cur[t]
      BY <2>1 DEF Thread, TypeOK
    <2>5. Working'
      BY <2>1 DEF Working, Thread, TypeOK, Made
    <2> QED  BY <1>2, <2>1, <2>2, <2>3, <2>4, <2>5
  <1>8. ASSUME NEW t \in Thread, sendTo(t)
        PROVE  SendInv'
    <2>0. pc \in [Thread -> Label] /\ sendCounter \in [Ref -> Nat]
      BY DEF TypeOK
    <2>1. CASE Lock(t)
      <3>1. /\ pc[t] = "lock" /\ sendMu = "free" /\ sendMu' = t
            /\ pc' = [pc EXCEPT ![t] = "seal"]
            /\ UNCHANGED <<sendCounter, loaded, out, cur, made>>
        BY <2>1 DEF Lock, Free, table
      <3>2. \A u \in Thread : ~Sending(u) /\ u # "free"
        BY <3>1 DEF Locked, Thread
      <3>3. \A u \in Thread : Sending(u)' <=> u = t
        BY <2>0, <3>1, <3>2
      <3>4. Locked'
        BY <2>0, <3>1, <3>2, <3>3 DEF Locked
      <3>5. Working'
        BY <2>0, <3>1 DEF Working, Thread, Made
      <3> QED  BY <1>1, <3>1, <3>4, <3>5 DEF Used, NonceUnique
    <2>2. CASE SealBegin(t)
      <3>1. /\ pc[t] = "seal" /\ pc' = [pc EXCEPT ![t] = "send"]
            /\ UNCHANGED <<sendCounter, sendMu, out, cur, made>>
            /\ loaded' = [loaded EXCEPT ![t] =
                   [ctr |-> sendCounter[cur[t]], to |-> ep[cur[t]]]]
        BY <2>2 DEF SealBegin, table
      <3>2. \A u \in Thread : Sending(u)' <=> Sending(u)
        BY <2>0, <3>1
      <3>3. sendMu = t /\ \A u \in Thread : u # t => pc'[u] # "send"
        BY <2>0, <3>1 DEF Locked
      <3>4. Locked'
        BY <2>0, <3>1, <3>2, <3>3 DEF Locked, TypeOK
      <3>5. Working'
        BY <2>0, <3>1, <3>2 DEF Working, Thread, Made
      <3> QED  BY <1>1, <3>1, <3>4, <3>5 DEF Used, NonceUnique
    <2>3. CASE SealSend(t)
      <3> DEFINE new == [ref |-> cur[t], ctr |-> loaded[t].ctr,
                         to |-> loaded[t].to, typ |-> Kind[t]]
      <3>1. /\ pc[t] = "send" /\ sendMu' = "free"
            /\ pc' = [pc EXCEPT ![t] = Idle[t]]
            /\ sendCounter' = [sendCounter EXCEPT ![cur[t]] = @ + 1]
            /\ cur' = [cur EXCEPT ![t] = NoSession]
            /\ UNCHANGED made
            /\ out' \subseteq out \cup {new}
        BY <2>3 DEF SealSend, Unlocked, table
      <3>2. Idle[t] \in {"recv", "read"}
        BY DEF Idle, Thread
      <3>3. sendMu = t /\ \A u \in Thread : u # t => ~Sending(u)
        BY <3>1 DEF Locked
      <3>4. \A u \in Thread : ~Sending(u)'
        BY <2>0, <3>1, <3>2, <3>3
      <3>5. Locked'
        BY <3>1, <3>4 DEF Locked, Thread
      <3>6. Working'
        BY <2>0, <3>1, <3>2, <3>4 DEF Working, Thread, Made, TypeOK
      <3>7. cur[t] \in Ref /\ loaded[t].ctr = sendCounter[cur[t]]
        BY <3>1, RefFacts DEF Locked, Working
      <3>8. \A r \in Ref : sendCounter'[r] >= sendCounter[r]
        BY <2>0, <3>1
      <3>9. sendCounter'[cur[t]] = sendCounter[cur[t]] + 1
        BY <2>0, <3>1, <3>7
      <3>10. \A o \in out : o.ref \in Ref /\ o.ctr \in Nat
        BY RefFacts DEF TypeOK
      <3>11. Used'
        <4> SUFFICES ASSUME NEW o \in out \cup {new}
                     PROVE  o.ctr < sendCounter'[o.ref]
          BY <3>1 DEF Used
        <4>1. CASE o \in out
          BY <2>0, <3>1, <3>8, <3>10, <4>1 DEF Used
        <4>2. CASE o = new
          BY <2>0, <3>7, <3>9, <4>2
        <4> QED  BY <4>1, <4>2
      <3>12. NonceUnique'
        <4>1. \A o \in out : ~(o.ref = new.ref /\ o.ctr = new.ctr)
          BY <2>0, <3>7, <3>10 DEF Used
        <4> QED  BY <3>1, <4>1 DEF NonceUnique
      <3> QED  BY <1>1, <3>5, <3>6, <3>11, <3>12
    <2> QED  BY <1>8, <2>1, <2>2, <2>3 DEF sendTo
  <1>9. CASE Stop \/ UNCHANGED vars
    <2>1. UNCHANGED <<tx, pc, cur, made>>
      BY <1>9 DEF Stop, vars, table
    <2>2. Working'
      BY <2>1 DEF Working, Made
    <2> QED  BY <1>2, <2>1, <2>2
  <1> QED  BY <1>3, <1>5, <1>6, <1>7, <1>8, <1>9 DEF Next

(* Every session counter is sealed under at most once, however the two     *)
(* goroutines are scheduled, sessions are replaced and the server stops.   *)
THEOREM NonceSafety == Spec => []NonceUnique
  <1>1. SendInv /\ [Next]_vars => SendInv'
    BY SendStep
  <1>2. SendInv => NonceUnique
    BY DEF SendInv
  <1> QED  BY InitSend, <1>1, <1>2, PTL DEF Spec

(* All state keeps its type.                                               *)
THEOREM TypeCorrect == Spec => []TypeOK
  <1>1. SendInv /\ [Next]_vars => SendInv'
    BY SendStep
  <1>2. SendInv => TypeOK
    BY DEF SendInv
  <1> QED  BY InitSend, <1>1, <1>2, PTL DEF Spec

-----------------------------------------------------------------------------
(* The registry, when randIndex avoids the ids in use and the peers' list  *)
(* gives every peer an address of its own.                                 *)
DistinctAddresses ==
    \A p, q \in Peer : TunnelIP[p] = TunnelIP[q] => p = q

(* Between HandshakeReply and Register the new session is in no map and    *)
(* its id is still unused.                                                 *)
Pending ==
    pc["serve"] = "register" =>
        LET r == cur["serve"] IN
        /\ r \in Made /\ id[r] \in Id /\ peer[r] \in Peer
        /\ byID[id[r]] = NoSession
        /\ \A p \in Peer : byPeer[p] # r
        /\ \A i \in Id : byID[i] # r

(* A session belongs to a known peer, and the id that leads to a registered *)
(* one is its own.                                                         *)
Registered ==
    /\ \A r \in Made : id[r] \in Id /\ peer[r] \in Peer
    /\ \A p \in Peer : byPeer[p] # NoSession => id[byPeer[p]] \in Id
    /\ \A i \in Id : byID[i] # NoSession =>
          id[byID[i]] = i /\ peer[byID[i]] \in Peer

RegistryInv == TypeOK /\ Pending /\ Registered /\ RegistryConsistent

LEMMA InitRegistry == Init => RegistryInv
  <1> SUFFICES ASSUME Init PROVE RegistryInv
    OBVIOUS
  <1>1. /\ pc["serve"] = "start" /\ pc["tun"] = "start"
        /\ \A p \in Peer : byPeer[p] = NoSession
        /\ \A i \in Id : byID[i] = NoSession
    BY DEF Init, Thread
  <1>2. Made = {}
    BY DEF Init, Made
  <1> QED  BY <1>1, <1>2, InitType
           DEF RegistryInv, Pending, Registered, RegistryConsistent

LEMMA ReplyRegistry ==
    ASSUME RegistryInv, ~IdsCollide,
           NEW p \in Key, NEW src \in Addr, NEW i \in Id,
           HandshakeReply(p, src, i)
    PROVE  Pending' /\ Registered' /\ RegistryConsistent'
  <1> DEFINE r == made + 1
  <1>1. /\ pc'["serve"] = "register" /\ cur'["serve"] = r
        /\ made' = r /\ r \in Ref /\ r \notin Made /\ r # NoSession
        /\ id' = [id EXCEPT ![r] = i] /\ peer' = [peer EXCEPT ![r] = p]
        /\ UNCHANGED maps /\ byID[i] = NoSession /\ p \in Peer
    BY ServerAssumption DEF HandshakeReply, Known, RegistryInv, TypeOK, Goto, Thread, Ref,
       Made, randIndex, NoSession
  <1> HIDE DEF r
  <1>2. /\ \A q \in Peer : byPeer[q] # r
        /\ \A j \in Id : byID[j] # r
    BY <1>1 DEF RegistryInv, TypeOK
  <1>3. id'[r] = i /\ peer'[r] = p
    BY <1>1 DEF RegistryInv, TypeOK
  <1>4. \A x \in Made : id'[x] = id[x] /\ peer'[x] = peer[x]
    BY <1>1, RefFacts DEF RegistryInv, TypeOK
  <1>5. r \in Made'
    BY <1>1 DEF Made, RegistryInv, TypeOK, Ref
  <1>6. Pending'
    BY <1>1, <1>2, <1>3, <1>5 DEF Pending, maps
  <1>7. Registered'
    <2>1. \A x \in Made' : x \in Made \/ x = r
      BY <1>1 DEF Made, RegistryInv, TypeOK, r
    <2> QED  BY <1>1, <1>3, <1>4, <2>1 DEF Registered, RegistryInv, TypeOK, maps
  <1>8. RegistryConsistent'
    BY <1>1, <1>4 DEF RegistryConsistent, RegistryInv, TypeOK, maps
  <1> QED  BY <1>6, <1>7, <1>8

LEMMA RegisterRegistry ==
    ASSUME RegistryInv, DistinctAddresses, Register
    PROVE  Pending' /\ Registered' /\ RegistryConsistent'
  <1> DEFINE r   == cur["serve"]
             p   == peer[r]
             old == byPeer[p]
  <1>1. /\ pc'["serve"] = "recv" /\ UNCHANGED <<id, peer, made>>
        /\ byID' = [Evict(byID, old) EXCEPT ![id[r]] = r]
        /\ byIP' = [byIP EXCEPT ![TunnelIP[p]] = r]
        /\ byPeer' = [byPeer EXCEPT ![p] = r]
        /\ pc["serve"] = "register"
    BY DEF Register, RegistryInv, TypeOK, Goto, Thread, table
  <1>2. /\ r \in Made /\ id[r] \in Id /\ p \in Peer /\ byID[id[r]] = NoSession
        /\ \A q \in Peer : byPeer[q] # r
        /\ \A i \in Id : byID[i] # r
        /\ r # NoSession
    BY <1>1, RefFacts DEF RegistryInv, Pending
  <1>3. old # NoSession => /\ id[old] \in Id /\ byID[id[old]] = old
                           /\ peer[old] = p /\ id[old] # id[r]
    BY <1>2 DEF RegistryInv, Registered, RegistryConsistent
  <1> HIDE DEF r, p, old
  <1>4. \A i \in Id : byID'[i] = IF i = id[r] THEN r
                                ELSE IF old # NoSession /\ i = id[old] THEN NoSession
                                ELSE byID[i]
    BY <1>1, <1>2, <1>3 DEF Evict, RegistryInv, TypeOK
  <1>5. \A q \in Peer : byPeer'[q] = IF q = p THEN r ELSE byPeer[q]
    BY <1>1, <1>2 DEF RegistryInv, TypeOK
  <1>6. \A q \in Peer : byIP'[TunnelIP[q]] = IF q = p THEN r ELSE byIP[TunnelIP[q]]
    BY <1>1, <1>2, ServerAssumption DEF RegistryInv, TypeOK, DistinctAddresses
  <1>7. Pending'
    BY <1>1 DEF Pending
  <1>8. p = peer[r] /\ old = byPeer[p]
    BY DEF p, old
  <1>9. Registered'
    <2>1. \A x \in Made' : id'[x] \in Id /\ peer'[x] \in Peer
      BY <1>1 DEF RegistryInv, Registered, Made
    <2>2. \A q \in Peer : byPeer'[q] # NoSession => id'[byPeer'[q]] \in Id
      BY <1>1, <1>2, <1>5 DEF RegistryInv, Registered
    <2>3. \A i \in Id : byID'[i] # NoSession =>
             id'[byID'[i]] = i /\ peer'[byID'[i]] \in Peer
      BY <1>1, <1>2, <1>4, <1>8 DEF RegistryInv, Registered
    <2> QED  BY <2>1, <2>2, <2>3 DEF Registered
  <1>10. ASSUME NEW q \in Peer, byPeer'[q] # NoSession
         PROVE  /\ byID'[id'[byPeer'[q]]] = byPeer'[q]
                /\ byIP'[TunnelIP[q]] = byPeer'[q]
                /\ peer'[byPeer'[q]] = q
    <2>1. CASE q = p
      BY <1>1, <1>2, <1>4, <1>5, <1>6, <1>8, <2>1
    <2>2. CASE q # p
      <3> DEFINE x == byPeer[q]
      <3>1. byPeer'[q] = x /\ byIP'[TunnelIP[q]] = byIP[TunnelIP[q]] /\ x # NoSession
        BY <1>5, <1>6, <1>10, <2>2
      <3>2. byID[id[x]] = x /\ byIP[TunnelIP[q]] = x /\ peer[x] = q /\ id[x] \in Id
        BY <3>1 DEF RegistryInv, Registered, RegistryConsistent
      <3>3. id[x] # id[r] /\ (old # NoSession => id[x] # id[old])
        BY <1>2, <1>3, <2>2, <3>1, <3>2
      <3>4. byID'[id[x]] = x
        BY <1>4, <3>2, <3>3
      <3> QED  BY <1>1, <3>1, <3>2, <3>4
    <2> QED  BY <2>1, <2>2
  <1>11. ASSUME NEW i \in Id, byID'[i] # NoSession
         PROVE  byPeer'[peer'[byID'[i]]] = byID'[i]
    <2>1. CASE i = id[r]
      BY <1>1, <1>2, <1>4, <1>5, <1>8, <2>1
    <2>2. CASE i # id[r]
      <3> DEFINE y == byID[i]
      <3>1. byID'[i] = y /\ y # NoSession /\ (old # NoSession => i # id[old])
        BY <1>4, <1>11, <2>2
      <3>2. id[y] = i /\ peer[y] \in Peer /\ byPeer[peer[y]] = y
        BY <3>1 DEF RegistryInv, Registered, RegistryConsistent
      <3>3. peer[y] # p
        BY <1>8, <3>1, <3>2
      <3> QED  BY <1>1, <1>5, <3>1, <3>2, <3>3
    <2> QED  BY <2>1, <2>2
  <1> QED  BY <1>7, <1>9, <1>10, <1>11 DEF RegistryConsistent

LEMMA RegistryStep ==
    ASSUME RegistryInv, ~IdsCollide, DistinctAddresses, [Next]_vars
    PROVE  Pending' /\ Registered' /\ RegistryConsistent'
  (* Only HandshakeReply and Register touch what the registry is made of.  *)
  <1>1. ASSUME UNCHANGED <<table, maps>>,
               pc'["serve"] = "register" =>
                   pc["serve"] = "register" /\ cur'["serve"] = cur["serve"]
        PROVE  Pending' /\ Registered' /\ RegistryConsistent'
    BY <1>1 DEF RegistryInv, Pending, Registered, RegistryConsistent, table, maps, Made
  <1> USE DEF Goto, Thread, RegistryInv, TypeOK
  <1>2. CASE Serve \/ RecvFails
    BY <1>1, <1>2 DEF Serve, RecvFails
  <1>3. CASE Receive
    <2>1. ASSUME NEW p \in Key, NEW src \in Addr, NEW i \in Id,
                 HandshakeReply(p, src, i)
          PROVE  Pending' /\ Registered' /\ RegistryConsistent'
      BY <2>1, ReplyRegistry
    <2>2. ASSUME NEW r \in Ref, NEW c \in Counter, NEW src \in Addr,
                 ServeData(r, c, src) \/ ServeOther(r, c, src) \/ ServeKeepalive(r, c, src)
          PROVE  Pending' /\ Registered' /\ RegistryConsistent'
      BY <1>1, <2>2 DEF ServeData, ServeOther, ServeKeepalive, Accept
    <2> QED  BY <1>3, <2>1, <2>2 DEF Receive
  <1>4. CASE Register
    BY <1>4, RegisterRegistry
  <1>5. CASE tunReader
    BY <1>1, <1>5 DEF tunReader, ReadPacket, TunError
  <1>6. ASSUME NEW t \in Thread, sendTo(t)
        PROVE  Pending' /\ Registered' /\ RegistryConsistent'
    BY <1>1, <1>6 DEF sendTo, Lock, SealBegin, SealSend, Idle
  <1>7. CASE Stop \/ UNCHANGED vars
    BY <1>1, <1>7 DEF Stop, vars
  <1> QED  BY <1>2, <1>3, <1>4, <1>5, <1>6, <1>7 DEF Next

LEMMA RegistryInvariance ==
    ASSUME ~IdsCollide, DistinctAddresses
    PROVE  Spec => [](SendInv /\ RegistryInv)
  <1>1. SendInv /\ RegistryInv /\ [Next]_vars => SendInv' /\ RegistryInv'
    <2> SUFFICES ASSUME SendInv, RegistryInv, [Next]_vars
                 PROVE  SendInv' /\ RegistryInv'
      OBVIOUS
    <2>1. SendInv'
      BY SendStep
    <2>2. Pending' /\ Registered' /\ RegistryConsistent'
      BY RegistryStep
    <2> QED  BY <2>1, <2>2 DEF SendInv, RegistryInv
  <1> QED  BY InitSend, InitRegistry, <1>1, PTL DEF Spec

(* Between registrations byID, byIP and byPeer agree: every registered     *)
(* peer is reachable both ways and no replaced session is.                 *)
THEOREM RegistrySafety ==
    ASSUME ~IdsCollide, DistinctAddresses
    PROVE  Spec => []RegistryConsistent
  <1>1. RegistryInv => RegistryConsistent
    BY DEF RegistryInv
  <1> QED  BY RegistryInvariance, <1>1, PTL

-----------------------------------------------------------------------------
(* The server implements the Relay.  Beyond the invariants above this      *)
(* needs that no goroutine works on a session before it is registered, and *)
(* that a record written to the TUN is one the filter remembers.           *)
Served ==
    /\ \A i \in Id : byID[i] \in Issued \cup {NoSession}
    /\ \A a \in IP : byIP[a] \in Issued \cup {NoSession}
    /\ \A t \in Thread : pc[t] = "lock" \/ Sending(t) => cur[t] \in Issued

Remembered ==
    \A r \in Ref, c \in Counter :
        tunLog[r][c] \in {0, 1} /\ (tunLog[r][c] = 1 => c \in accepted[r])

RelayInv == SendInv /\ RegistryInv /\ Served /\ Remembered

LEMMA InitRelay == Init => RelayInv
  <1> SUFFICES ASSUME Init PROVE RelayInv
    OBVIOUS
  <1>1. Served
    BY DEF Init, Served, Sending, Thread
  <1>2. Remembered
    BY DEF Init, Remembered
  <1> QED  BY <1>1, <1>2, InitSend, InitRegistry DEF RelayInv

(* Registration is the only step that issues a session.                    *)
LEMMA IssuedStep ==
    ASSUME RelayInv, [Next]_vars
    PROVE  /\ ~Register => Issued' = Issued
           /\ Register => Issued' = Issued \cup {cur["serve"]}
  <1> USE DEF Issued, Made, Goto, Thread, RelayInv, RegistryInv, TypeOK, table
  <1>1. ASSUME made' = made, (pc'["serve"] = "register") = (pc["serve"] = "register"),
               cur'["serve"] = cur["serve"] \/ pc["serve"] # "register", ~Register
        PROVE  Issued' = Issued
    BY <1>1
  <1>2. ASSUME Register PROVE Issued' = Issued \cup {cur["serve"]}
    BY <1>2 DEF Register, Pending
  <1>3. ASSUME NEW p \in Key, NEW src \in Addr, NEW i \in Id,
               HandshakeReply(p, src, i)
        PROVE  Issued' = Issued
    <2>1. /\ made' = made + 1 /\ cur'["serve"] = made + 1 /\ pc'["serve"] = "register"
          /\ pc["serve"] = "recv" /\ made \in Nat
      BY <1>3, RefFacts DEF HandshakeReply
    <2>2. ASSUME NEW n \in Nat PROVE (1..(n + 1)) \ {n + 1} = 1..n
      <3>1. ASSUME NEW k PROVE k \in (1..(n + 1)) \ {n + 1} <=> k \in 1..n
        OBVIOUS
      <3> QED  BY <3>1
    <2>3. (1..(made + 1)) \ {made + 1} = 1..made
      BY <2>1, <2>2
    <2> QED  BY <2>1, <2>3
  <1>4. CASE Serve \/ RecvFails \/ tunReader \/ Stop \/ UNCHANGED vars
    BY <1>1, <1>4 DEF Serve, RecvFails, tunReader, TunError, ReadPacket, Stop, vars, Register
  <1>5. ASSUME NEW r \in Ref, NEW c \in Counter, NEW src \in Addr,
               ServeData(r, c, src) \/ ServeOther(r, c, src) \/ ServeKeepalive(r, c, src)
        PROVE  Issued' = Issued
    BY <1>1, <1>5 DEF ServeData, ServeOther, ServeKeepalive, Accept, Register
  <1>6. ASSUME NEW t \in Thread, sendTo(t)
        PROVE  Issued' = Issued
    BY <1>1, <1>6 DEF sendTo, Lock, SealBegin, SealSend, Idle, Register
  <1>7. Register \/ Issued' = Issued
    BY <1>3, <1>4, <1>5, <1>6 DEF Next, Receive
  <1>8. Register => ~(Issued' = Issued)
    <2> SUFFICES ASSUME Register PROVE cur["serve"] \in Issued' /\ cur["serve"] \notin Issued
      BY <1>2
    <2> QED  BY <1>2 DEF Register, Pending
  <1> QED  BY <1>2, <1>7, <1>8

LEMMA ServedStep ==
    ASSUME RelayInv, [Next]_vars
    PROVE  Served'
  <1>1. Issued \subseteq Issued'
    BY IssuedStep
  <1> USE DEF Goto, Thread, RelayInv, RegistryInv, TypeOK
  <1>2. ASSUME UNCHANGED maps,
               \A t \in Thread : pc'[t] = "lock" \/ Sending(t)' => cur'[t] \in Issued
        PROVE  Served'
    BY <1>1, <1>2 DEF Served, maps
  <1>3. CASE Serve \/ RecvFails \/ Stop \/ UNCHANGED vars
    BY <1>2, <1>3 DEF Serve, RecvFails, Stop, vars, Served, Sending
  <1>4. CASE tunReader
    BY <1>2, <1>4 DEF tunReader, TunError, ReadPacket, Served, Sending
  <1>5. ASSUME NEW t \in Thread, sendTo(t)
        PROVE  Served'
    BY <1>2, <1>5 DEF sendTo, Lock, SealBegin, SealSend, Idle, Served, Sending
  <1>6. ASSUME NEW p \in Key, NEW src \in Addr, NEW i \in Id,
               HandshakeReply(p, src, i)
        PROVE  Served'
    BY <1>2, <1>6 DEF HandshakeReply, Served, Sending
  <1>7. ASSUME NEW r \in Ref, NEW c \in Counter, NEW src \in Addr,
               ServeData(r, c, src) \/ ServeOther(r, c, src) \/ ServeKeepalive(r, c, src)
        PROVE  Served'
    <2>1. CASE ServeData(r, c, src) \/ ServeOther(r, c, src)
      BY <1>2, <2>1 DEF ServeData, ServeOther, Served, Sending
    <2>2. CASE ServeKeepalive(r, c, src)
      <3>1. /\ byID[id[r]] = r /\ r \in Made /\ r # NoSession /\ id[r] \in Id
            /\ UNCHANGED maps /\ pc' = [pc EXCEPT !["serve"] = "lock"]
            /\ cur' = [cur EXCEPT !["serve"] = r]
        BY <2>2, RefFacts DEF ServeKeepalive, Accept, Opens, Registered
      <3>2. r \in Issued
        BY <3>1 DEF Served
      <3> QED  BY <1>2, <3>1, <3>2 DEF Served, Sending
    <2> QED  BY <1>7, <2>1, <2>2
  <1>8. CASE Register
    <2>1. /\ Issued' = Issued \cup {cur["serve"]}
          /\ pc' = [pc EXCEPT !["serve"] = "recv"]
          /\ cur' = [cur EXCEPT !["serve"] = NoSession]
      BY <1>8, IssuedStep DEF Register
    <2>2. \A i \in Id : byID'[i] \in Issued' \cup {NoSession}
      <3>1. \A i \in Id : byID'[i] \in {byID[i], cur["serve"], NoSession}
        BY <1>8 DEF Register, Evict
      <3> QED  BY <2>1, <3>1 DEF Served
    <2>3. \A a \in IP : byIP'[a] \in Issued' \cup {NoSession}
      BY <1>8, <2>1 DEF Register, Served
    <2>4. \A t \in Thread : pc'[t] = "lock" \/ Sending(t)' => cur'[t] \in Issued'
      BY <2>1 DEF Served, Sending
    <2> QED  BY <2>2, <2>3, <2>4 DEF Served
  <1> QED  BY <1>3, <1>4, <1>5, <1>6, <1>7, <1>8 DEF Next, Receive

(* What Serve writes to the TUN is new to it.                              *)
LEMMA RememberedStep ==
    ASSUME RelayInv, [Next]_vars
    PROVE  Remembered'
  <1> USE DEF RelayInv, RegistryInv, TypeOK
  <1>1. ASSUME UNCHANGED <<accepted, tunLog>> PROVE Remembered'
    BY <1>1 DEF Remembered
  <1>2. ASSUME NEW r \in Ref, NEW c \in Counter, NEW src \in Addr, Accept(r, c, src),
               tunLog' = tunLog \/ tunLog' = [tunLog EXCEPT ![r][c] = @ + 1]
        PROVE  Remembered'
    <2>1. /\ c \notin accepted[r] /\ accepted' = [accepted EXCEPT ![r] = @ \cup {c}]
          /\ tunLog[r][c] = 0
      BY <1>2 DEF Accept, Opens, Fresh, Remembered
    <2> SUFFICES ASSUME NEW q \in Ref, NEW d \in Counter
                 PROVE  tunLog'[q][d] \in {0, 1} /\ (tunLog'[q][d] = 1 => d \in accepted'[q])
      BY DEF Remembered
    <2>2. tunLog[q][d] \in {0, 1} /\ (tunLog[q][d] = 1 => d \in accepted[q])
      BY DEF Remembered
    <2>3. CASE q = r /\ d = c
      BY <1>2, <2>1, <2>3
    <2>4. CASE ~(q = r /\ d = c)
      <3>1. tunLog'[q][d] = tunLog[q][d]
        BY <1>2, <2>4
      <3>2. accepted[q] \subseteq accepted'[q]
        BY <2>1
      <3> QED  BY <2>2, <3>1, <3>2
    <2> QED  BY <2>3, <2>4
  <1>3. ASSUME NEW r \in Ref, NEW c \in Counter, NEW src \in Addr,
               ServeData(r, c, src) \/ ServeOther(r, c, src) \/ ServeKeepalive(r, c, src)
        PROVE  Remembered'
    BY <1>2, <1>3 DEF ServeData, ServeOther, ServeKeepalive
  <1>4. CASE ~(\E r \in Ref, c \in Counter, src \in Addr :
                  ServeData(r, c, src) \/ ServeOther(r, c, src) \/ ServeKeepalive(r, c, src))
    BY <1>1, <1>4 DEF Next, Receive, Serve, RecvFails, Register, tunReader, ReadPacket,
       TunError, sendTo, Lock, SealBegin, SealSend, Stop, HandshakeReply, rx, vars
  <1> QED  BY <1>3, <1>4

LEMMA RelayStep ==
    ASSUME ~IdsCollide, DistinctAddresses, RelayInv, [Next]_vars
    PROVE  RelayInv'
  <1>1. SendInv'
    BY SendStep DEF RelayInv
  <1>2. Pending' /\ Registered' /\ RegistryConsistent'
    BY RegistryStep DEF RelayInv
  <1> QED  BY <1>1, <1>2, ServedStep, RememberedStep DEF RelayInv, SendInv, RegistryInv

(* Each step of the server is one of the Relay or none.                    *)
LEMMA RelaySteps ==
    ASSUME RelayInv, [Next]_vars
    PROVE  [RY!Next]_(RY!vars)
  <1>0. /\ ~Register => Issued' = Issued
        /\ Register => Issued' = Issued \cup {cur["serve"]}
    BY IssuedStep
  <1> USE DEF RelayInv, RegistryInv, TypeOK
  <1>a. ASSUME pc["serve"] # "register" \/ pc'["serve"] = pc["serve"]
        PROVE  ~Register
    BY <1>a DEF Register, Goto, Thread
  <1>1. ASSUME pc["serve"] # "register" \/ pc'["serve"] = pc["serve"],
               UNCHANGED <<maps, tunLog, out>>
        PROVE  UNCHANGED RY!vars
    BY <1>0, <1>1, <1>a DEF RY!vars, maps
  <1>2. CASE Register
    <2> DEFINE r == cur["serve"]
               p == peer[r]
    <2>1. /\ byPeer' = [byPeer EXCEPT ![p] = r] /\ UNCHANGED <<tunLog, out>>
          /\ Issued' = Issued \cup {r}
      BY <1>0, <1>2 DEF Register, rx, tx
    <2>2. p \in Peer /\ r \in Ref \ Issued
      BY <1>2, RefFacts DEF Register, Pending, Issued
    <2>3. RY!Login
      BY <2>1, <2>2 DEF RY!Login
    <2> QED  BY <2>3 DEF RY!Next
  <1>3. ASSUME NEW r \in Ref, NEW c \in Counter, NEW src \in Addr, ServeData(r, c, src)
        PROVE  RY!Next
    <2>1. /\ tunLog' = [tunLog EXCEPT ![r][c] = @ + 1] /\ UNCHANGED <<maps, out>>
          /\ c \notin accepted[r] /\ byID[id[r]] = r /\ r \in Made
          /\ pc["serve"] = "recv" /\ ~Register
      BY <1>3, <1>a DEF ServeData, Accept, Opens, Fresh, tx
    <2>2. tunLog[r][c] = 0
      BY <2>1 DEF Remembered
    <2>3. /\ id[r] \in Id /\ peer[r] \in Peer /\ byPeer[peer[r]] = r /\ r # NoSession
      BY <2>1, RefFacts DEF Registered, RegistryConsistent
    <2>4. tunLog' = [tunLog EXCEPT ![r][c] = 1]
      BY <2>1, <2>2
    <2>5. RY!Deliver
      BY <1>0, <2>1, <2>2, <2>3, <2>4 DEF RY!Deliver, maps
    <2> QED  BY <2>5 DEF RY!Next
  <1>4. ASSUME NEW t \in Thread, SealSend(t)
        PROVE  [RY!Next]_(RY!vars)
    <2> DEFINE new == [ref |-> cur[t], ctr |-> loaded[t].ctr,
                       to |-> loaded[t].to, typ |-> Kind[t]]
    <2>1. /\ out' = out \/ out' = out \cup {new}
          /\ UNCHANGED <<maps, tunLog>> /\ pc[t] = "send"
      BY <1>4 DEF SealSend, rx
    <2>2. ~Register
      <3>1. pc' = [pc EXCEPT ![t] = Idle[t]]
        BY <1>4 DEF SealSend, Goto
      <3>2. pc["serve"] # "register" \/ pc'["serve"] = pc["serve"]
        BY <2>1, <3>1 DEF Thread
      <3> QED  BY <1>a, <3>2
    <2>3. CASE out' = out
      BY <1>0, <2>1, <2>2, <2>3 DEF RY!vars, maps
    <2>4. CASE out' = out \cup {new}
      <3>1. new.ref = cur[t] /\ new.ctr = loaded[t].ctr /\ new \in out'
        BY <2>4
      <3>2. cur[t] \in Issued
        BY <2>1 DEF Served, Sending
      <3>3. loaded[t].ctr = sendCounter[cur[t]]
        BY <2>1 DEF SendInv, Locked
      <3>4. \A o \in out : ~(o.ref = cur[t] /\ o.ctr = loaded[t].ctr)
        <4>1. sendCounter[cur[t]] \in Nat
          BY <2>1, RefFacts DEF SendInv, Working, Sending
        <4> QED  BY <3>3, <4>1 DEF SendInv, Used
      <3>5. RY!Send
        BY <1>0, <2>1, <2>2, <2>4, <3>1, <3>2, <3>4 DEF RY!Send, RY!Used, maps
      <3> QED  BY <3>5 DEF RY!Next
    <2> QED  BY <2>1, <2>3, <2>4
  <1>5. CASE Serve \/ RecvFails \/ tunReader \/ Stop \/ UNCHANGED vars
    <2>1. /\ UNCHANGED <<maps, tunLog, out>>
          /\ pc["serve"] # "register" \/ pc'["serve"] = pc["serve"]
      BY <1>5 DEF Serve, RecvFails, tunReader, TunError, ReadPacket, Stop, vars,
         rx, tx, Goto, Thread
    <2> QED  BY <1>1, <2>1
  <1>6. ASSUME NEW t \in Thread, Lock(t) \/ SealBegin(t)
        PROVE  [RY!Next]_(RY!vars)
    <2>1. /\ UNCHANGED <<maps, tunLog, out>>
          /\ pc["serve"] # "register" \/ pc'["serve"] = pc["serve"]
      BY <1>6 DEF Lock, SealBegin, rx, Goto, Thread
    <2> QED  BY <1>1, <2>1
  <1>7. ASSUME NEW p \in Key, NEW src \in Addr, NEW i \in Id,
               HandshakeReply(p, src, i)
        PROVE  [RY!Next]_(RY!vars)
    BY <1>1, <1>7 DEF HandshakeReply, tx
  <1>8. ASSUME NEW r \in Ref, NEW c \in Counter, NEW src \in Addr,
               ServeOther(r, c, src) \/ ServeKeepalive(r, c, src)
        PROVE  [RY!Next]_(RY!vars)
    BY <1>1, <1>8 DEF ServeOther, ServeKeepalive, Accept, tx
  <1> QED  BY <1>2, <1>3, <1>4, <1>5, <1>6, <1>7, <1>8 DEF Next, Receive, sendTo

(* The server implements the Relay: one session for each peer, packets of  *)
(* replaced sessions are dead, none is written to the TUN twice and no     *)
(* counter is used twice, for any number of peers, sessions and records.   *)
THEOREM ServerIsRelay ==
    ASSUME ~IdsCollide, DistinctAddresses
    PROVE  Spec => ImplementsRelay
  <1>1. Init => RY!Init
    BY DEF Init, RY!Init, Issued, Made
  <1>2. RelayInv /\ [Next]_vars => RelayInv'
    BY RelayStep
  <1>3. RelayInv /\ [Next]_vars => [RY!Next]_(RY!vars)
    BY RelaySteps
  <1> QED  BY InitRelay, <1>1, <1>2, <1>3, PTL DEF Spec, ImplementsRelay, RY!Spec
=============================================================================
