----------------------------- MODULE ServerHost -----------------------------
(***************************************************************************)
(* `mirage server -tun -nat -peers' from its start to the peers it serves: *)
(* cmdServer and setupTun (cmd/mirage/main.go) with EnableNAT              *)
(* (internal/netcfg), beside the adduser processes of Provisioning.        *)
(*                                                                         *)
(* The process may end at any step: a command fails, it is killed, the     *)
(* service is restarted.  Its TUN device and its socket go with it; what   *)
(* it changed in the kernel and in the peers file stays for the next one.  *)
(***************************************************************************)
EXTENDS Provisioning

CONSTANTS Contention     \* may iptables -C fail for another reason

ASSUME HostAssumption == Contention \subseteq BOOLEAN

VARIABLES at,            \* where cmdServer stands
          rule,          \* the rule ensure is at
          rules,         \* how often each rule is in the tables
          forward        \* net.ipv4.ip_forward

hostVars == <<at, rule, rules, forward>>
allVars == <<vars, hostVars>>

Rule == 1..3             \* MASQUERADE, FORWARD out, FORWARD back

HostInit ==
    /\ Init
    /\ at = "off" /\ rule = 1
    /\ rules = [r \in Rule |-> 0] /\ forward = FALSE

-----------------------------------------------------------------------------

setupTun ==              \* tun.Open, ConfigureInterface
    /\ at = "off"
    /\ at' = "nat"
    /\ UNCHANGED <<vars, rule, rules, forward>>

Forward ==               \* sysctl
    /\ at = "nat"
    /\ forward' = TRUE
    /\ at' = "check" /\ rule' = 1
    /\ UNCHANGED <<vars, rules>>

NextRule(r) == at' = (IF r = 3 THEN "listen" ELSE "check") /\ rule' = (r % 3) + 1

Present_Never(r, fails) == FALSE                                 \* mutant
Present(r, fails) == rules[r] > 0 /\ ~fails

Check ==                 \* iptables -C
    /\ at = "check"
    /\ \E fails \in Contention :
          IF Present(rule, fails) THEN NextRule(rule) ELSE at' = "add" /\ UNCHANGED rule
    /\ UNCHANGED <<vars, rules, forward>>

Add ==                   \* iptables -A
    /\ at = "add"
    /\ rules' = [rules EXCEPT ![rule] = @ + 1]
    /\ NextRule(rule)
    /\ UNCHANGED <<vars, forward>>

ListenUDP ==
    /\ at = "listen"
    /\ at' = "load"
    /\ UNCHANGED <<vars, rule, rules, forward>>

Serve ==                 \* loadPeers, server.New; without peers the process ends
    /\ at = "load"
    /\ StartServer
    /\ at' = IF server' = Down THEN "off" ELSE "up"
    /\ UNCHANGED <<rule, rules, forward>>

Exit ==
    /\ at # "off"
    /\ at' = "off" /\ rule' = 1
    /\ server' = Down /\ loaded' = {}
    /\ UNCHANGED <<pc, flags, file, links, rules, forward>>

EnableNAT == Forward \/ Check \/ Add
cmdServer == setupTun \/ EnableNAT \/ ListenUDP \/ Serve \/ Exit

HostNext == cmdServer \/ \E u \in User : cmdAddUser(u) /\ UNCHANGED hostVars

HostSpec == HostInit /\ [][HostNext]_allVars

-----------------------------------------------------------------------------
(* Properties                                                              *)

(* EnableNAT is idempotent (netcfg.go:67): wherever earlier starts ended,  *)
(* no rule is there twice, and a server that serves has them all.          *)
RulesOnce ==
    /\ \A r \in Rule : rules[r] <= 1
    /\ at = "up" => forward /\ \A r \in Rule : rules[r] = 1
=============================================================================
