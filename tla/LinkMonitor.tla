---------------------------- MODULE LinkMonitor -----------------------------
(***************************************************************************)
(* client.session's clock: a ticker that sends keepalives, a ticker of the *)
(* same period that checks how long ago a record last opened, and a server *)
(* that answers every keepalive it receives.                               *)
(*                                                                         *)
(* Time is a number of ticks; the loop handles a due event before the      *)
(* clock moves on, events due together in any order.  A link that is alive *)
(* carries a keepalive and its answer within Rtt, but may lose up to       *)
(* MaxLost exchanges in a row; a link that is down carries nothing.        *)
(***************************************************************************)
EXTENDS Integers

CONSTANTS KeepaliveSec,      \* Config.KeepaliveSec
          DefaultKeepalive,
          Idle,              \* a link silent for longer is given up
          Rtt, MaxLost,      \* what a live link may do
          MaxTime            \* bound on the clock

durOr(sec, def) == IF sec <= 0 THEN def ELSE sec
Keepalive == durOr(KeepaliveSec, DefaultKeepalive)

ASSUME MonitorAssumption ==
    /\ KeepaliveSec \in Int /\ DefaultKeepalive \in Nat \ {0}
    /\ Idle \in Nat /\ Rtt \in Nat /\ MaxLost \in Nat /\ MaxTime \in Nat

VARIABLES now,
          up,         \* the connection has not been given up
          alive,      \* the link carries records
          lastRecv,
          nextKa, nextCheck,   \* when each ticker fires next
          pending,    \* answers under way: when the keepalive left, when it lands
          lost,       \* exchanges lost in a row
          answered    \* history: keepalives that got an answer under way

monitorVars == <<now, up, alive, lastRecv, nextKa, nextCheck, pending, lost, answered>>

(* A keepalive leaves now; in `delay' its answer arrives.                  *)
Exchange(delay) ==
    /\ pending' = pending \cup {[sent |-> now, at |-> now + delay]}
    /\ answered' = answered \cup {now}
    /\ lost' = 0

Vanish == lost' = lost + 1 /\ UNCHANGED <<pending, answered>>

(* setCurrent was followed by a keepalive, and lastRecv starts at now.     *)
(* That keepalive may be lost too: the server registers the session only   *)
(* after m2 has left, and drops what comes before.                         *)
MonitorInit ==
    /\ now = 0 /\ up = TRUE /\ alive = TRUE
    /\ lastRecv = 0
    /\ nextKa = Keepalive /\ nextCheck = Keepalive
    /\ \/ lost = 0 /\ answered = {0} /\ \E d \in 0..Rtt : pending = {[sent |-> 0, at |-> d]}
       \/ MaxLost > 0 /\ lost = 1 /\ answered = {} /\ pending = {}

sendKeepalive ==
    /\ up /\ now = nextKa
    /\ nextKa' = nextKa + Keepalive
    /\ \/ alive /\ \E d \in 0..Rtt : Exchange(d)
       \/ ~alive /\ Vanish
       \/ alive /\ lost < MaxLost /\ Vanish
    /\ UNCHANGED <<now, up, alive, lastRecv, nextCheck>>

Expired_LastSent == now - (nextKa - Keepalive) > Idle            \* mutant
Expired == now - lastRecv > Idle

checkIdle ==
    /\ up /\ now = nextCheck
    /\ nextCheck' = nextCheck + Keepalive
    /\ up' = ~Expired
    /\ UNCHANGED <<now, alive, lastRecv, nextKa, pending, lost, answered>>

Touch_Forgotten == UNCHANGED lastRecv                            \* mutant
Touch == lastRecv' = now

Receive ==                  \* an answer opens: lastRecv.Store(time.Now())
    /\ up /\ alive
    /\ \E r \in pending :
        /\ r.at = now
        /\ pending' = pending \ {r}
    /\ Touch
    /\ UNCHANGED <<now, up, alive, nextKa, nextCheck, lost, answered>>

LinkDown ==
    /\ alive
    /\ alive' = FALSE /\ pending' = {}
    /\ UNCHANGED <<now, up, lastRecv, nextKa, nextCheck, lost, answered>>

Tick ==
    /\ up /\ now < MaxTime
    /\ now < nextKa /\ now < nextCheck
    /\ \A r \in pending : now < r.at
    /\ now' = now + 1
    /\ UNCHANGED <<up, alive, lastRecv, nextKa, nextCheck, pending, lost, answered>>

MonitorNext == sendKeepalive \/ checkIdle \/ Receive \/ LinkDown \/ Tick

MonitorSpec == MonitorInit /\ [][MonitorNext]_monitorVars

-----------------------------------------------------------------------------
(* Properties                                                              *)

(* The values of the variables are of the right sort.                      *)
MonitorTypeOK ==
    /\ now \in Nat /\ lastRecv \in Nat /\ nextKa \in Nat /\ nextCheck \in Nat
    /\ lost \in Nat
    /\ up \in BOOLEAN /\ alive \in BOOLEAN
    /\ pending \subseteq [sent : Nat, at : Nat]
    /\ answered \subseteq Nat

(* A link that answers is never given up, as long as Idle leaves room for  *)
(* MaxLost + 1 keepalive periods and one round trip.                       *)
HealthyLinkKept == alive => up

(* A silent link is given up at most one check period after Idle.          *)
DeadLinkDetected == up => now - lastRecv <= Idle + Keepalive

(* A keepalive interval of zero switches the keepalives off.               *)
ZeroIsOff == KeepaliveSec = 0 => answered \subseteq {0}
=============================================================================
