------------------------------- MODULE Relay -------------------------------
(***************************************************************************)
(* What the multi-peer server promises, whatever maps and locks it keeps:  *)
(* a peer has one session at a time and never gets one that was in use;    *)
(* packets reach the TUN only under a current session and once; and every  *)
(* record sent is sealed under a counter of its own.                       *)
(***************************************************************************)
EXTENDS Integers

CONSTANTS Peer, Session, Counter, None

VARIABLES current,    \* the session of each peer, or None
          issued,     \* sessions that are or were current
          delivered,  \* how often each record of each session reached the TUN
          sent        \* records sent: the session and counter, and the rest

vars == <<current, issued, delivered, sent>>

Init ==
    /\ current = [p \in Peer |-> None]
    /\ issued = {}
    /\ delivered = [s \in Session |-> [c \in Counter |-> 0]]
    /\ sent = {}

Login ==
    \E p \in Peer, s \in Session \ issued :
        /\ current' = [current EXCEPT ![p] = s]
        /\ issued' = issued \cup {s}
        /\ UNCHANGED <<delivered, sent>>

Deliver ==
    \E p \in Peer, c \in Counter :
        /\ current[p] # None /\ delivered[current[p]][c] = 0
        /\ delivered' = [delivered EXCEPT ![current[p]][c] = 1]
        /\ UNCHANGED <<current, issued, sent>>

Used(s, c) == \E o \in sent : o.ref = s /\ o.ctr = c

(* A session replaced meanwhile may still send what was routed to it.      *)
Send ==
    \E o \in sent' :
        /\ o.ref \in issued /\ ~Used(o.ref, o.ctr)
        /\ sent' = sent \cup {o}
        /\ UNCHANGED <<current, issued, delivered>>

Next == Login \/ Deliver \/ Send

Spec == Init /\ [][Next]_vars
=============================================================================
