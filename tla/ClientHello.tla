---------------------------- MODULE ClientHello -----------------------------
(***************************************************************************)
(* obfs/reality/clienthello.go: finding the session id and the server name *)
(* in the first TLS record of a connection.  A record is a sequence of     *)
(* bytes.  Everything of variable length in it is a vector, with its       *)
(* length in front of it in one, two or three bytes.                       *)
(***************************************************************************)
EXTENDS Integers, Sequences, SequencesExt

CONSTANTS randomLen,                \* 32
          Hello                     \* the fields of the ClientHellos that arrive

Byte == 0..255

(* Big endian, as encoding/binary and the shifts have it.                  *)
Number(s) == IF Len(s) = 1 THEN s[1]
             ELSE IF Len(s) = 2 THEN 256 * s[1] + s[2]
             ELSE 256 * (256 * s[1] + s[2]) + s[3]

(* The vector of b that begins after p bytes, its length in w bytes.       *)
Vector_Open(b, p, w) ==                                          \* mutant
    LET end == p + w + Number(SubSeq(b, p + 1, p + w))
    IN  IF p + w > Len(b) THEN [ok |-> FALSE, end |-> p + w]
        ELSE [ok |-> TRUE, end |-> end,
              val |-> SubSeq(b, p + w + 1, IF end < Len(b) THEN end ELSE Len(b))]
Vector(b, p, w) ==
    LET end == p + w + Number(SubSeq(b, p + 1, p + w))
    IN  IF p + w > Len(b) \/ end > Len(b) THEN [ok |-> FALSE, end |-> Len(b)]
        ELSE [ok |-> TRUE, end |-> end, val |-> SubSeq(b, p + w + 1, end)]

From(b, p) == SubSeq(b, p + 1, Len(b))

(* parseSNI: the first host name of the first server_name extension, empty *)
(* when there is none or when anything on the way to it is cut short.      *)
hostName[d \in Seq(Byte)] ==
    LET name == Vector(d, 1, 2)
    IN  IF ~name.ok THEN <<>>
        ELSE IF d[1] = 0 THEN name.val
        ELSE hostName[From(d, name.end)]

parseSNI[ext \in Seq(Byte)] ==
    LET data == Vector(ext, 2, 2)
        list == Vector(data.val, 0, 2)
    IN  IF ~data.ok THEN <<>>
        ELSE IF ext[1] + ext[2] # 0 THEN parseSNI[From(ext, data.end)]
        ELSE IF list.ok THEN hostName[From(data.val, 2)] ELSE <<>>

errParseCH == [ok |-> FALSE]

parseBody(b) ==
    LET sid  == Vector(b, 2 + randomLen, 1)
        cs   == Vector(b, sid.end, 2)
        cm   == Vector(b, cs.end, 1)
        exts == Vector(b, cm.end, 2)
    IN  IF ~(sid.ok /\ cs.ok /\ cm.ok) THEN errParseCH
        ELSE IF cm.end + 2 > Len(b) THEN [ok |-> TRUE, sid |-> sid.val, sni |-> <<>>]
        ELSE IF exts.ok THEN [ok |-> TRUE, sid |-> sid.val, sni |-> parseSNI[exts.val]]
        ELSE errParseCH

(* 22 is a handshake record, 1 in it a ClientHello.                        *)
parseClientHello(rec) ==
    LET hs   == Vector(rec, 3, 2)
        body == Vector(hs.val, 1, 3)
    IN  IF /\ Len(rec) >= 5 /\ rec[1] = 22
           /\ hs.ok /\ hs.val # <<>> /\ hs.val[1] = 1
           /\ body.ok
        THEN parseBody(body.val)
        ELSE errParseCH

-----------------------------------------------------------------------------
(* What a client sends: h has the session id, the cipher suites, the       *)
(* compression methods and the extensions; one of type 0 has names.        *)

BigEndian(w, n) ==
    IF w = 1 THEN <<n>>
    ELSE IF w = 2 THEN <<n \div 256, n % 256>>
    ELSE <<(n \div 256) \div 256, (n \div 256) % 256, n % 256>>
Prefixed(w, s) == BigEndian(w, Len(s)) \o s

NameEntry(n) == <<n.type>> \o Prefixed(2, n.name)
NameList(ns) == FlattenSeq([i \in DOMAIN ns |-> NameEntry(ns[i])])
Extension(e) ==
    BigEndian(2, e.type) \o Prefixed(2, IF e.type = 0 THEN Prefixed(2, NameList(e.names)) ELSE e.data)

Fixed(h) == [i \in 1..(2 + randomLen) |-> 3]
                \o Prefixed(1, h.sid) \o Prefixed(2, h.suites) \o Prefixed(1, h.comps)
Extensions(h) == FlattenSeq([i \in DOMAIN h.exts |-> Extension(h.exts[i])])
Body(h) == Fixed(h) \o Prefixed(2, Extensions(h))

(* Its record, all the same when the ClientHello in it stops after n bytes. *)
Record(h, n) == <<22, 3, 1>> \o Prefixed(2, <<1>> \o Prefixed(3, SubSeq(Body(h), 1, n)))

(* The fields have the types of their vectors and fit into them, and the   *)
(* whole into one record.  A session id is looked at by nobody here.       *)
Size(w) == IF w = 1 THEN 256 ELSE IF w = 2 THEN 256 * 256 ELSE 256 * (256 * 256)

FitName(n) == n.type \in Byte /\ n.name \in Seq(Byte) /\ Len(n.name) < Size(2)
FitExtension(e) ==
    /\ e.type \in 0..(Size(2) - 1) /\ e.data \in Seq(Byte) /\ Len(e.data) < Size(2)
    /\ e.names \in Seq(Range(e.names)) /\ \A i \in DOMAIN e.names : FitName(e.names[i])
    /\ Len(NameList(e.names)) + 2 < Size(2)

ASSUME HelloAssumption ==
    /\ randomLen \in Nat
    /\ \A h \in Hello :
        /\ h.sid \in Seq(Range(h.sid)) /\ Len(h.sid) < Size(1)
        /\ h.suites \in Seq(Byte) /\ Len(h.suites) < Size(2)
        /\ h.comps \in Seq(Byte) /\ Len(h.comps) < Size(1)
        /\ h.exts \in Seq(Range(h.exts)) /\ \A i \in DOMAIN h.exts : FitExtension(h.exts[i])
        /\ Len(Extensions(h)) < Size(2) /\ Len(Body(h)) + 4 < Size(2)

(* The first name of type 0 in the first extension of type 0.              *)
FirstOf(s) == LET S == {i \in DOMAIN s : s[i].type = 0}
              IN  IF S = {} THEN {} ELSE {s[CHOOSE i \in S : \A j \in S : i <= j]}
SentName(h) ==
    LET hosts == UNION {FirstOf(e.names) : e \in FirstOf(h.exts)}
    IN  IF hosts = {} THEN <<>> ELSE (CHOOSE n \in hosts : TRUE).name

(* The parser finds in a ClientHello the session id and the name that were *)
(* put there, whatever follows the record; and it refuses one that stops   *)
(* short, except where its extensions may be missing.                      *)
ParsesAsSent(h) ==
    \A n \in 0..Len(Body(h)) : \A junk \in {<<>>, <<1>>} :
        parseClientHello(Record(h, n) \o junk) =
            IF n = Len(Body(h)) THEN [ok |-> TRUE, sid |-> h.sid, sni |-> SentName(h)]
            ELSE IF n \in Len(Fixed(h))..(Len(Fixed(h)) + 1)
                 THEN [ok |-> TRUE, sid |-> h.sid, sni |-> <<>>]
            ELSE errParseCH
=============================================================================
