--------------------------- MODULE MessageChannel ---------------------------
(***************************************************************************)
(* What transport.Conn promises over a stream: one Send is one record, one *)
(* Recv is one record, and the records arrive whole and in order, though   *)
(* the last ones sent may never arrive.                                    *)
(***************************************************************************)
EXTENDS Sequences, Naturals

CONSTANTS Record,        \* the records that can be sent
          Ends,          \* the ends of the connection
          Peer(_)        \* the other end

VARIABLES sent,          \* the records each end has sent
          received       \* the records each end has been handed

Init ==
    /\ sent = [e \in Ends |-> <<>>]
    /\ received = [e \in Ends |-> <<>>]

Send(e) ==
    /\ \E r \in Record : sent' = [sent EXCEPT ![e] = Append(@, r)]
    /\ UNCHANGED received

Recv(e) ==
    /\ Len(received[e]) < Len(sent[Peer(e)])
    /\ received' = [received EXCEPT
                      ![e] = Append(@, sent[Peer(e)][Len(@) + 1])]
    /\ UNCHANGED sent

Next == \E e \in Ends : Send(e) \/ Recv(e)

Spec == Init /\ [][Next]_<<sent, received>>
=============================================================================
