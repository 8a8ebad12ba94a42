----------------------------- MODULE StreamConn -----------------------------
(***************************************************************************)
(* transport.StreamConn: records framed as [len:2 BE][record] on a byte    *)
(* stream.  Send and Recv of one StreamConn share its field hdr: Send      *)
(* encodes the length there and writes it out, Recv reads the header into  *)
(* it and decodes the length from it.  Each step below is one access to    *)
(* hdr or to the connection, so a Send and a Recv of the same end          *)
(* interleave as two goroutines do.                                        *)
(*                                                                         *)
(* A byte has Base values, so that MaxRecordSize stays small.              *)
(***************************************************************************)
EXTENDS Integers, Sequences, SequencesExt

CONSTANTS Base,          \* values of a byte
          Record,        \* the records handed to Send
          FullDuplex,    \* a Send and a Recv of one end may overlap
          MaxSends       \* bound on the records one end sends

Byte == 0..(Base - 1)
MaxRecordSize == Base * Base - 1
Ends == {"dialer", "listener"}
Peer(e) == IF e = "dialer" THEN "listener" ELSE "dialer"

ASSUME StreamAssumption ==
    /\ Base \in Nat \ {0, 1}
    /\ Record \subseteq Seq(Byte)
    /\ FullDuplex \in BOOLEAN
    /\ MaxSends \in Nat

VARIABLES wire,          \* bytes under way to each end
          closed,        \* conn.Close was called here, or the peer is gone
          hdr,           \* StreamConn.hdr
          tx,            \* Send: where it stands and its argument
          rx,            \* Recv: where it stands, the length, the buffer
          sent, received \* history: see MessageChannel

streamVars == <<wire, closed, hdr, tx, rx, sent, received>>

BigEndian(n) == <<n \div Base, n % Base>>
Decode_Little(h) == h[2] * Base + h[1]                            \* mutant
Decode(h) == h[1] * Base + h[2]

Idle == [at |-> "idle", rec |-> <<>>, len |-> 0]

StreamInit ==
    /\ wire = [e \in Ends |-> <<>>]
    /\ closed = [e \in Ends |-> FALSE]
    /\ hdr = [e \in Ends |-> <<0, 0>>]
    /\ tx = [e \in Ends |-> Idle] /\ rx = [e \in Ends |-> Idle]
    /\ sent = [e \in Ends |-> <<>>] /\ received = [e \in Ends |-> <<>>]

(* The goroutine that calls Send, or Recv, is not held up in the other one. *)
MayCall(e) == FullDuplex \/ (tx[e].at = "idle" /\ rx[e].at = "idle")

Write(e, bytes) == wire' = [wire EXCEPT ![Peer(e)] = @ \o bytes]

-----------------------------------------------------------------------------
(* Send                                                                    *)

SendBegin(e) ==             \* a record above MaxRecordSize is refused
    /\ tx[e].at = "idle" /\ MayCall(e)
    /\ Len(sent[e]) < MaxSends
    /\ \E r \in Record :
        /\ Len(r) <= MaxRecordSize
        /\ tx' = [tx EXCEPT ![e] = [Idle EXCEPT !.at = "put", !.rec = r]]
        /\ sent' = [sent EXCEPT ![e] = Append(@, r)]
    /\ UNCHANGED <<wire, closed, hdr, rx, received>>

PutUint16(e) ==
    /\ tx[e].at = "put"
    /\ hdr' = [hdr EXCEPT ![e] = BigEndian(Len(tx[e].rec))]
    /\ tx' = [tx EXCEPT ![e].at = "header"]
    /\ UNCHANGED <<wire, closed, rx, sent, received>>

WriteHeader(e) ==
    /\ tx[e].at = "header" /\ ~closed[e]
    /\ Write(e, hdr[e])
    /\ tx' = [tx EXCEPT ![e].at = "body"]
    /\ UNCHANGED <<closed, hdr, rx, sent, received>>

WriteBody(e) ==
    /\ tx[e].at = "body" /\ ~closed[e]
    /\ Write(e, tx[e].rec)
    /\ tx' = [tx EXCEPT ![e] = Idle]
    /\ UNCHANGED <<closed, hdr, rx, sent, received>>

WriteFails(e) ==
    /\ tx[e].at \in {"header", "body"} /\ closed[e]
    /\ tx' = [tx EXCEPT ![e] = Idle]
    /\ UNCHANGED <<wire, closed, hdr, rx, sent, received>>

Sending(e) ==
    SendBegin(e) \/ PutUint16(e) \/ WriteHeader(e) \/ WriteBody(e) \/ WriteFails(e)

-----------------------------------------------------------------------------
(* Recv                                                                    *)

RecvBegin(e) ==
    /\ rx[e].at = "idle" /\ MayCall(e)
    /\ rx' = [rx EXCEPT ![e] = [Idle EXCEPT !.at = "header"]]
    /\ UNCHANGED <<wire, closed, hdr, tx, sent, received>>

(* ReadFull copies the header into hdr as its bytes come in; .len counts   *)
(* them.                                                                   *)
ReadHeader(e) ==
    /\ rx[e].at = "header" /\ wire[e] /= <<>>
    /\ LET i == rx[e].len + 1 IN
        /\ hdr' = [hdr EXCEPT ![e][i] = Head(wire[e])]
        /\ rx' = [rx EXCEPT ![e].len = i % 2,
                            ![e].at = IF i = 2 THEN "decode" ELSE @]
    /\ wire' = [wire EXCEPT ![e] = Tail(@)]
    /\ UNCHANGED <<closed, tx, sent, received>>

DecodeLength(e) ==
    /\ rx[e].at = "decode"
    /\ rx' = [rx EXCEPT ![e].len = Decode(hdr[e]), ![e].at = "body"]
    /\ UNCHANGED <<wire, closed, hdr, tx, sent, received>>

ReadBody(e) ==              \* ReadFull of len bytes, then the record is handed over
    /\ rx[e].at = "body"
    /\ LET n == rx[e].len IN
        /\ Len(wire[e]) >= n
        /\ received' = [received EXCEPT ![e] = Append(@, SubSeq(wire[e], 1, n))]
        /\ wire' = [wire EXCEPT ![e] = SubSeq(@, n + 1, Len(@))]
    /\ rx' = [rx EXCEPT ![e] = Idle]
    /\ UNCHANGED <<closed, hdr, tx, sent>>

(* The stream ended in front of, or inside, what ReadFull asked for.       *)
ReadFails(e) ==
    /\ closed[e]
    /\ \/ rx[e].at = "header" /\ wire[e] = <<>>
       \/ rx[e].at = "body" /\ Len(wire[e]) < rx[e].len
    /\ wire' = [wire EXCEPT ![e] = <<>>]
    /\ rx' = [rx EXCEPT ![e] = Idle]
    /\ UNCHANGED <<closed, hdr, tx, sent, received>>

Receiving(e) ==
    RecvBegin(e) \/ ReadHeader(e) \/ DecodeLength(e) \/ ReadBody(e) \/ ReadFails(e)

-----------------------------------------------------------------------------
(* conn.Close by one end.  Nothing more is read there, and the other end   *)
(* reads what had been sent, or less of it, before the stream ends.        *)
Close(e) ==
    /\ ~closed[e]
    /\ closed' = [f \in Ends |-> TRUE]
    /\ \E n \in 0..Len(wire[Peer(e)]) :
        wire' = [wire EXCEPT ![e] = <<>>, ![Peer(e)] = SubSeq(@, 1, n)]
    /\ UNCHANGED <<hdr, tx, rx, sent, received>>

StreamNext == \E e \in Ends : Sending(e) \/ Receiving(e) \/ Close(e)

StreamSpec == StreamInit /\ [][StreamNext]_streamVars

-----------------------------------------------------------------------------
(* Properties                                                              *)

(* One Send is one record at the other end, whole and in order             *)
(* (transport.go), also when the connection is closed inside a record.     *)
Channel == INSTANCE MessageChannel
ImplementsChannel == Channel!Spec
=============================================================================
