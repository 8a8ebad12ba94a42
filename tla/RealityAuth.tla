---------------------------- MODULE RealityAuth -----------------------------
(***************************************************************************)
(* obfs/reality/auth.go: the token a client hides in its ClientHello and   *)
(* the cache that remembers the tokens already taken.                      *)
(*                                                                         *)
(* A token carries the time it was made.  Each connection is verified in a *)
(* goroutine of its own: it reads the clock, checks the window, and then   *)
(* looks the token up under the mutex of the cache, removing entries that  *)
(* are old by its own reading of the clock.  The same ClientHello may      *)
(* arrive any number of times, and up to MaxDelay seconds may pass between *)
(* the reading and the lookup.                                             *)
(***************************************************************************)
EXTENDS Integers

CONSTANTS Token,         \* session ids that decrypt under the PSK
          Conn,          \* connections, each with a goroutine
          MaxDelay,      \* how long a goroutine is held up between two steps
          authWindow,    \* seconds
          Skew,          \* bound on a client's clock error
          MaxTime        \* bound on the clock

ASSUME AuthAssumption ==
    /\ MaxDelay \in Nat /\ authWindow \in Nat /\ Skew \in Nat /\ MaxTime \in Nat

VARIABLES now,
          ts,            \* the time in each token, or Unmade
          pending,       \* lookups to come: connection, token, reading of the clock
          seen,          \* replayCache.seen: tokens and when they were added
          taken          \* history: how often each token was accepted

authVars == <<now, ts, pending, seen, taken>>

Unmade == -(Skew + 1)               \* no token carries this time
Made   == {k \in Token : ts[k] # Unmade}

AuthInit ==
    /\ now = 0
    /\ ts = [k \in Token |-> Unmade]
    /\ pending = {} /\ seen = {}
    /\ taken = [k \in Token |-> 0]

makeAuthSessionID(k) ==     \* by a client whose clock is off by at most Skew
    /\ ts[k] = Unmade
    /\ \E d \in -Skew..Skew : ts' = [ts EXCEPT ![k] = now + d]
    /\ UNCHANGED <<now, pending, seen, taken>>

InWindow(t, n) == n - authWindow <= t /\ t <= n + authWindow

(* nowUnix(), and the checks that need no lock.                            *)
verify(c, k) ==
    /\ k \in Made /\ \A p \in pending : p.conn # c
    /\ InWindow(ts[k], now)
    /\ pending' = pending \cup {[conn |-> c, tok |-> k, at |-> now]}
    /\ UNCHANGED <<now, ts, seen, taken>>

Expired_Early(e, n) == e.at < n - authWindow                     \* mutant
Expired_Never(e, n) == FALSE                                     \* mutant
Expired(e, n) == e.at < n - 2 * authWindow

Entry(k, n) == [tok |-> k, at |-> n]

Fresh(n) == {e \in seen : ~Expired(e, n)}

Accepts(p) == \A e \in Fresh(p.at) : e.tok # p.tok

checkAndAdd(p) ==
    /\ p \in pending /\ pending' = pending \ {p}
    /\ IF Accepts(p)
       THEN /\ seen' = Fresh(p.at) \cup {Entry(p.tok, p.at)}
            /\ taken' = [taken EXCEPT ![p.tok] = @ + 1]
       ELSE seen' = Fresh(p.at) /\ UNCHANGED taken
    /\ UNCHANGED <<now, ts>>

Tick ==
    /\ now < MaxTime
    /\ \A p \in pending : now < p.at + MaxDelay
    /\ now' = now + 1
    /\ UNCHANGED <<ts, pending, seen, taken>>

AuthNext ==
    \/ \E k \in Token : makeAuthSessionID(k) \/ \E c \in Conn : verify(c, k)
    \/ \E p \in pending : checkAndAdd(p)
    \/ Tick

AuthSpec == AuthInit /\ [][AuthNext]_authVars

-----------------------------------------------------------------------------
(* Properties                                                              *)

(* Tokens in use were made, and nothing in the cache is dated later than   *)
(* the clock.                                                              *)
AuthTypeOK ==
    /\ now \in 0..MaxTime
    /\ ts \in [Token -> Int]
    /\ pending \subseteq [conn : Conn, tok : Made, at : 0..now]
    /\ seen \subseteq [tok : Made, at : 0..now]
    /\ taken \in [Token -> Nat]

(* However often a ClientHello arrives, it opens one tunnel: an entry is   *)
(* not forgotten while the window still admits its token to a goroutine,   *)
(* also to one that read the clock before the entry was purged.            *)
AcceptedOnce == \A k \in Token : taken[k] <= 1

(* The cache does not grow for ever: all that it holds after a lookup was  *)
(* added within two windows of that lookup, one entry for each token.      *)
CacheBounded ==
    [][\A p \in pending : checkAndAdd(p) =>
          \A e \in seen' : /\ e.at >= p.at - 2 * authWindow
                           /\ \A f \in seen' : e.tok = f.tok => e = f]_authVars
=============================================================================
