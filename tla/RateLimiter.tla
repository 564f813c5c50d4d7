--------------------------- MODULE RateLimiter --------------------------
(***************************************************************************)
(* The limiter of the web research server (web_boundary.py in process,     *)
(* redis_state.py shared by replicas): at most Limit requests of a tenant  *)
(* to a host, its key, in any window of Window ticks.  A hit is one        *)
(* acquisition, under a name of its own; the Redis form keeps the same     *)
(* hits in a sorted set, and lets Redis drop the set a window after the    *)
(* last of them.                                                           *)
(***************************************************************************)
EXTENDS Integers, FiniteSets

CONSTANTS Key,      \* tenant and host
          Limit,    \* requests allowed in a window
          Window    \* its length

ASSUME LimiterAssumption == Limit \in Nat \ {0} /\ Window \in Nat \ {0}

VARIABLES
    clock,     \* the limiter's clock: the process's, or Redis's own
    hits,      \* what is remembered of each key
    granted    \* history: every hit there ever was

limiterVars == <<clock, hits, granted>>

Hit == [at : Nat, n : Nat]

LimiterTypeOK ==
    /\ clock \in Nat
    /\ hits \in [Key -> SUBSET Hit]
    /\ granted \in [Key -> SUBSET Hit]

LimiterInit ==
    /\ clock = 0
    /\ hits = [k \in Key |-> {}]
    /\ granted = [k \in Key |-> {}]

\* Mutant: a hit is forgotten one tick before its window is over.
Pruned_early(kept) == {h \in kept : h.at > clock - Window + 1}

\* _prune, ZREMRANGEBYSCORE: hits at or before the cutoff are forgotten.
Pruned(kept) == {h \in kept : h.at > clock - Window}

HasRoom(k) == Cardinality(Pruned(hits[k])) < Limit

\* acquire, _ACQUIRE: the hit is new, whatever its time.
Acquire(k) ==
    /\ HasRoom(k)
    /\ LET h == [at |-> clock, n |-> Cardinality(granted[k])] IN
       /\ hits' = [hits EXCEPT ![k] = Pruned(@) \cup {h}]
       /\ granted' = [granted EXCEPT ![k] = @ \cup {h}]
    /\ UNCHANGED clock

\* A refused acquire, or remaining: only what is out of the window is forgotten.
Prune(k) ==
    /\ hits' = [hits EXCEPT ![k] = Pruned(@)]
    /\ UNCHANGED <<clock, granted>>

\* PEXPIRE: the key is dropped once its last hit is a window old.
Expire(k) ==
    /\ \A h \in hits[k] : h.at + Window <= clock
    /\ hits' = [hits EXCEPT ![k] = {}]
    /\ UNCHANGED <<clock, granted>>

Pass ==
    /\ clock' = clock + 1
    /\ UNCHANGED <<hits, granted>>

LimiterNext == Pass \/ \E k \in Key : Acquire(k) \/ Prune(k) \/ Expire(k)

LimiterSpec == LimiterInit /\ [][LimiterNext]_limiterVars
-----------------------------------------------------------------------------
\* What was granted in the window that ends at t, its first instant excluded.
GrantedIn(k, t) == {h \in granted[k] : t - Window < h.at /\ h.at <= t}

\* web_boundary.py: "Cap outbound requests per tenant and host over a moving window".  No
\* window, wherever it ends, holds more grants of a key than the limit, although the
\* limiter forgets, whenever it is asked, and Redis drops whole keys.
WindowIsKept == \A k \in Key, t \in 0..clock : Cardinality(GrantedIn(k, t)) <= Limit
=============================================================================
