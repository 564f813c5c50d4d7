------------------------- MODULE RemoteCallProofs -----------------------
(***************************************************************************)
(* The limiter's promise for any limit, window and set of keys, first of   *)
(* the limiter alone and then of the remote calls that use it; and what    *)
(* those calls promise for any number of calls, hosts, lifetimes and       *)
(* redirects, however long answers and deliveries take.                    *)
(***************************************************************************)
EXTENDS RemoteCall, FiniteSetTheorems, TLAPS

\* What the limiter has forgotten is out of every window that ends now or later, and what
\* it remembers is no more than the limit.
RemembersEnough ==
    \A k \in Key :
        /\ IsFiniteSet(granted[k])
        /\ hits[k] \subseteq granted[k]
        /\ \A h \in granted[k] : h.at <= clock
        /\ \A h \in granted[k] \ hits[k] : h.at + Window <= clock
        /\ Cardinality(hits[k]) <= Limit

IndInv == LimiterTypeOK /\ RemembersEnough /\ WindowIsKept

\* A part of a key's grants is finite.
LEMMA GrantedInFinite ==
    ASSUME IndInv, NEW k \in Key, NEW S, S \subseteq granted[k]
    PROVE  IsFiniteSet(S)
<1>1. IsFiniteSet(granted[k])  BY DEF IndInv, RemembersEnough
<1> QED  BY <1>1, FS_Subset

\* One more element makes a finite set at most one larger.
LEMMA OneMore ==
    ASSUME NEW S, NEW x, IsFiniteSet(S)
    PROVE  /\ IsFiniteSet(S \cup {x})
           /\ Cardinality(S) \in Nat
           /\ Cardinality(S \cup {x}) \in Nat
           /\ Cardinality(S \cup {x}) <= Cardinality(S) + 1
<1>1. Cardinality(S) \in Nat  BY FS_CardinalityType
<1>2. CASE x \in S
  <2>1. S \cup {x} = S  BY <1>2
  <2>2. Cardinality(S) <= Cardinality(S) + 1  BY <1>1
  <2> QED  BY <1>1, <2>1, <2>2, Zenon
<1>3. CASE x \notin S
  <2>1. IsFiniteSet(S \cup {x}) /\ Cardinality(S \cup {x}) = Cardinality(S) + 1
    BY <1>3, FS_AddElement
  <2>2. Cardinality(S) + 1 \in Nat /\ Cardinality(S) + 1 <= Cardinality(S) + 1  BY <1>1
  <2> QED  BY <1>1, <2>1, <2>2, Zenon
<1> QED  BY <1>2, <1>3

\* A window that ends now holds only grants the limiter remembers.
LEMMA WindowEndingNow ==
    ASSUME IndInv, NEW k \in Key
    PROVE  /\ GrantedIn(k, clock) \subseteq Pruned(hits[k])
           /\ Pruned(hits[k]) \subseteq hits[k]
           /\ Cardinality(Pruned(hits[k])) \in Nat
           /\ Cardinality(Pruned(hits[k])) <= Limit
<1>1. GrantedIn(k, clock) \subseteq Pruned(hits[k])
  BY LimiterAssumption DEF IndInv, LimiterTypeOK, RemembersEnough, GrantedIn, Pruned, Hit
<1>2. Pruned(hits[k]) \subseteq hits[k]  BY DEF Pruned
<1>3. IsFiniteSet(hits[k])  BY GrantedInFinite DEF IndInv, RemembersEnough
<1>4. /\ Cardinality(Pruned(hits[k])) <= Cardinality(hits[k])
      /\ IsFiniteSet(Pruned(hits[k]))
  BY <1>2, <1>3, FS_Subset
<1>5. Cardinality(Pruned(hits[k])) \in Nat /\ Cardinality(hits[k]) \in Nat
  BY <1>3, <1>4, FS_CardinalityType
<1>6. Cardinality(hits[k]) <= Limit  BY DEF IndInv, RemembersEnough
<1> QED  BY <1>1, <1>2, <1>4, <1>5, <1>6, LimiterAssumption

\* A limiter that has granted nothing has room.
LEMMA LimiterStart == LimiterInit => IndInv
<1> SUFFICES ASSUME LimiterInit PROVE IndInv  OBVIOUS
<1>1. LimiterTypeOK  BY DEF LimiterInit, LimiterTypeOK
<1>2. RemembersEnough
  BY FS_EmptySet, LimiterAssumption DEF LimiterInit, RemembersEnough
<1>3. WindowIsKept
  <2>1. \A k \in Key, t \in 0..clock : GrantedIn(k, t) = {}  BY DEF LimiterInit, GrantedIn
  <2> QED  BY <2>1, FS_EmptySet, LimiterAssumption DEF WindowIsKept
<1> QED  BY <1>1, <1>2, <1>3 DEF IndInv

\* A grant is made only where the window ending now has room for it.
LEMMA AcquireKeeps ==
    ASSUME IndInv, NEW k \in Key, Acquire(k)
    PROVE  IndInv'
<1> DEFINE h == [at |-> clock, n |-> Cardinality(granted[k])]
<1>0. /\ clock' = clock
      /\ hits' = [hits EXCEPT ![k] = Pruned(hits[k]) \cup {h}]
      /\ granted' = [granted EXCEPT ![k] = granted[k] \cup {h}]
      /\ Cardinality(Pruned(hits[k])) < Limit
  BY DEF Acquire, HasRoom
<1>t. LimiterTypeOK  BY DEF IndInv
<1>h. h \in Hit
  BY <1>t, FS_CardinalityType DEF Hit, LimiterTypeOK, IndInv, RemembersEnough
<1>f. IsFiniteSet(granted[k])  BY DEF IndInv, RemembersEnough
<1>p. IsFiniteSet(Pruned(hits[k]))
  BY WindowEndingNow, <1>f, FS_Subset, GrantedInFinite DEF IndInv, RemembersEnough, Pruned
<1>c. Cardinality(Pruned(hits[k]) \cup {h}) <= Limit
  <2> HIDE DEF h
  <2>1. /\ Cardinality(Pruned(hits[k])) \in Nat
        /\ Cardinality(Pruned(hits[k]) \cup {h}) \in Nat
        /\ Cardinality(Pruned(hits[k]) \cup {h}) <= Cardinality(Pruned(hits[k])) + 1
    BY <1>p, OneMore
  <2> QED  BY <2>1, <1>0, LimiterAssumption
<1>g. IsFiniteSet(granted[k] \cup {h})
  <2> HIDE DEF h
  <2> QED  BY <1>f, OneMore
<1>q. IsFiniteSet(Pruned(hits[k]) \cup {h})
  <2> HIDE DEF h
  <2> QED  BY <1>p, OneMore
<1>1. LimiterTypeOK'
  BY <1>0, <1>t, <1>h DEF LimiterTypeOK, Pruned
<1>2. RemembersEnough'
  <2> SUFFICES ASSUME NEW j \in Key
               PROVE  /\ IsFiniteSet(granted'[j])
                      /\ hits'[j] \subseteq granted'[j]
                      /\ \A g \in granted'[j] : g.at <= clock'
                      /\ \A g \in granted'[j] \ hits'[j] : g.at + Window <= clock'
                      /\ Cardinality(hits'[j]) <= Limit
    BY DEF RemembersEnough
  <2>1. CASE j # k
    BY <2>1, <1>0, <1>t DEF IndInv, RemembersEnough, LimiterTypeOK
  <2>2. CASE j = k
    <3>1. granted'[j] = granted[k] \cup {h} /\ hits'[j] = Pruned(hits[k]) \cup {h}
      BY <2>2, <1>0, <1>t DEF LimiterTypeOK
    <3>2. IsFiniteSet(granted'[j])  BY <3>1, <1>g
    <3>3. hits'[j] \subseteq granted'[j]  BY <3>1 DEF IndInv, RemembersEnough, Pruned
    <3>4. \A g \in granted'[j] : g.at <= clock'
      BY <3>1, <1>0, <1>t DEF IndInv, RemembersEnough, LimiterTypeOK, Hit
    <3>5. \A g \in granted'[j] \ hits'[j] : g.at + Window <= clock'
      BY <3>1, <1>0, <1>t, LimiterAssumption
      DEF IndInv, RemembersEnough, LimiterTypeOK, Hit, Pruned
    <3> QED  BY <3>1, <3>2, <3>3, <3>4, <3>5, <1>c
  <2> QED  BY <2>1, <2>2
<1>3. WindowIsKept'
  <2> SUFFICES ASSUME NEW j \in Key, NEW t \in 0..clock'
               PROVE  Cardinality(GrantedIn(j, t)') <= Limit
    BY DEF WindowIsKept
  <2>1. CASE j # k
    <3>1. GrantedIn(j, t)' = GrantedIn(j, t)  BY <2>1, <1>0, <1>t DEF GrantedIn, LimiterTypeOK
    <3> QED  BY <3>1, <1>0 DEF IndInv, WindowIsKept
  <2>2. CASE j = k /\ t < clock
    <3>1. GrantedIn(j, t)' = GrantedIn(j, t)
      BY <2>2, <1>0, <1>t DEF GrantedIn, LimiterTypeOK, Hit
    <3> QED  BY <3>1, <1>0 DEF IndInv, WindowIsKept
  <2>3. CASE j = k /\ t = clock
    <3>1. GrantedIn(j, t)' \subseteq GrantedIn(k, clock) \cup {h}
      BY <2>3, <1>0, <1>t DEF GrantedIn, LimiterTypeOK
    <3>2. GrantedIn(j, t)' \subseteq Pruned(hits[k]) \cup {h}  BY <3>1, WindowEndingNow
    <3>3. IsFiniteSet(Pruned(hits[k]) \cup {h})  BY <1>q
    <3>4. /\ Cardinality(GrantedIn(j, t)') <= Cardinality(Pruned(hits[k]) \cup {h})
          /\ IsFiniteSet(GrantedIn(j, t)')
      BY <3>2, <3>3, FS_Subset
    <3> QED  BY <3>3, <3>4, <1>c, FS_CardinalityType, LimiterAssumption
  <2> QED  BY <2>1, <2>2, <2>3, <1>0, <1>t DEF LimiterTypeOK
<1> QED  BY <1>1, <1>2, <1>3 DEF IndInv

\* Forgetting hits that are a window old, or a whole key of them.
LEMMA ForgettingKeeps ==
    ASSUME IndInv, NEW k \in Key, Prune(k) \/ Expire(k)
    PROVE  IndInv'
<1>t. LimiterTypeOK  BY DEF IndInv
<1>0. /\ clock' = clock /\ granted' = granted
      /\ \A j \in Key : j # k => hits'[j] = hits[j]
      /\ hits'[k] \subseteq hits[k]
      /\ \A h \in hits[k] \ hits'[k] : h.at + Window <= clock
      /\ LimiterTypeOK'
  <2>1. CASE Prune(k)
    BY <2>1, <1>t, LimiterAssumption DEF Prune, Pruned, LimiterTypeOK, Hit
  <2>2. CASE Expire(k)
    BY <2>2, <1>t DEF Expire, LimiterTypeOK
  <2> QED  BY <2>1, <2>2
<1>1. RemembersEnough'
  <2> SUFFICES ASSUME NEW j \in Key
               PROVE  /\ IsFiniteSet(granted'[j])
                      /\ hits'[j] \subseteq granted'[j]
                      /\ \A g \in granted'[j] : g.at <= clock'
                      /\ \A g \in granted'[j] \ hits'[j] : g.at + Window <= clock'
                      /\ Cardinality(hits'[j]) <= Limit
    BY DEF RemembersEnough
  <2>1. CASE j # k  BY <2>1, <1>0 DEF IndInv, RemembersEnough
  <2>2. CASE j = k
    <3>1. IsFiniteSet(hits[k])  BY GrantedInFinite DEF IndInv, RemembersEnough
    <3>2. Cardinality(hits'[k]) <= Cardinality(hits[k]) /\ IsFiniteSet(hits'[k])
      BY <3>1, <1>0, FS_Subset
    <3>3. Cardinality(hits'[k]) <= Limit
      BY <3>1, <3>2, FS_CardinalityType, LimiterAssumption DEF IndInv, RemembersEnough
    <3> QED  BY <2>2, <3>3, <1>0 DEF IndInv, RemembersEnough
  <2> QED  BY <2>1, <2>2
<1>2. WindowIsKept'
  BY <1>0 DEF IndInv, WindowIsKept, GrantedIn
<1> QED  BY <1>0, <1>1, <1>2 DEF IndInv

\* A window that ends in the tick to come holds no more than one that ends now.
LEMMA PassKeeps == IndInv /\ Pass => IndInv'
<1> SUFFICES ASSUME IndInv, Pass PROVE IndInv'  OBVIOUS
<1>0. clock' = clock + 1 /\ hits' = hits /\ granted' = granted  BY DEF Pass
<1>t. LimiterTypeOK  BY DEF IndInv
<1>1. LimiterTypeOK'  BY <1>0, <1>t DEF LimiterTypeOK
<1>2. RemembersEnough'
  BY <1>0, <1>t, LimiterAssumption DEF IndInv, RemembersEnough, LimiterTypeOK, Hit
<1>3. WindowIsKept'
  <2> SUFFICES ASSUME NEW k \in Key, NEW t \in 0..clock'
               PROVE  Cardinality(GrantedIn(k, t)') <= Limit
    BY DEF WindowIsKept
  <2>1. GrantedIn(k, t)' = GrantedIn(k, t)  BY <1>0 DEF GrantedIn
  <2>2. CASE t \in 0..clock  BY <2>1, <2>2 DEF IndInv, WindowIsKept
  <2>3. CASE t = clock + 1
    <3>1. GrantedIn(k, t) \subseteq GrantedIn(k, clock)
      BY <2>3, <1>t, LimiterAssumption DEF GrantedIn, IndInv, RemembersEnough, LimiterTypeOK, Hit
    <3>2. IsFiniteSet(GrantedIn(k, clock))  BY GrantedInFinite DEF GrantedIn
    <3>3. /\ Cardinality(GrantedIn(k, t)) <= Cardinality(GrantedIn(k, clock))
          /\ IsFiniteSet(GrantedIn(k, t))
      BY <3>1, <3>2, FS_Subset
    <3>4. Cardinality(GrantedIn(k, clock)) <= Limit
      BY <1>t DEF IndInv, WindowIsKept, LimiterTypeOK
    <3> QED  BY <2>1, <3>2, <3>3, <3>4, FS_CardinalityType, LimiterAssumption
  <2> QED  BY <2>2, <2>3, <1>0, <1>t DEF LimiterTypeOK
<1> QED  BY <1>1, <1>2, <1>3 DEF IndInv

\* For every limit, window and set of keys: no window of the limiter holds more requests
\* than the limit, through pruning, refusals and expiring Redis keys.
THEOREM WindowsStayWithinLimit == LimiterSpec => [](LimiterTypeOK /\ WindowIsKept)
<1>1. IndInv /\ [LimiterNext]_limiterVars => IndInv'
  <2> SUFFICES ASSUME IndInv, [LimiterNext]_limiterVars PROVE IndInv'  OBVIOUS
  <2>1. CASE Pass  BY <2>1, PassKeeps
  <2>2. ASSUME NEW k \in Key, Acquire(k) PROVE IndInv'  BY <2>2, AcquireKeeps
  <2>3. ASSUME NEW k \in Key, Prune(k) \/ Expire(k) PROVE IndInv'  BY <2>3, ForgettingKeeps
  <2>4. CASE UNCHANGED limiterVars
    BY <2>4 DEF limiterVars, IndInv, LimiterTypeOK, RemembersEnough, WindowIsKept, GrantedIn
  <2> QED  BY <2>1, <2>2, <2>3, <2>4 DEF LimiterNext
<1>2. IndInv => LimiterTypeOK /\ WindowIsKept  BY DEF IndInv
<1> QED  BY <1>1, <1>2, LimiterStart, PTL DEF LimiterSpec
-----------------------------------------------------------------------------
(* The calls.                                                               *)

\* Each hit is numbered below the count of its key's hits, so that the next is new.
GrantsAreNumbered == \A k \in Key : \A h \in granted[k] : h.n < Cardinality(granted[k])

\* The calls that hold a slot of a key: those fetching, and those that have fetched.
Holders(k) == {c \in Call : want[c] = k /\ (pc[c] \in {"fetching", "responding"} \/ trail[c] # <<>>)}

SlotsAreHeld ==
    \A k \in Key : IsFiniteSet(Holders(k)) /\ Cardinality(Holders(k)) <= Cardinality(granted[k])

\* A token still reusable has the margin left to live, but for what its answer took, if its
\* lifetime is not overrated.
CacheSound ==
    \/ cache.until <= clock
    \/ cache.token.expires_in <= cache.token.lifetime =>
           cache.until + Margin <= cache.token.received + cache.token.lifetime

\* A call that was granted a token carries it; one on its way to the server had the margin
\* left when it was taken, as above, or was taken when it came; one the server has verified
\* was good then.
TokenSound(c) ==
    /\ pc[c] = "granted" => bearer[c] \in Token
    /\ pc[c] = "sent" /\ bearer[c].expires_in <= bearer[c].lifetime =>
          \/ since[c] + Margin < bearer[c].received + bearer[c].lifetime
          \/ since[c] = bearer[c].received
    /\ pc[c] \in {"admitted", "fetching", "responding"} => Verifies(bearer[c], since[c])

\* Nothing is requested before a slot is taken; what is to be requested has been checked,
\* and a fetch is never sent to the search engine, nor a search anywhere else.
TrailSound(c) ==
    /\ pc[c] \notin {"fetching", "responding", "done"} => trail[c] = <<>> /\ at[c] = want[c][2]
    /\ pc[c] \in {"fetching", "responding"} => SourceOk(at[c])
    /\ pc[c] = "fetching" => Len(trail[c]) <= MaxRedirects
    /\ Len(trail[c]) <= MaxRedirects + 1
    /\ (at[c] = SearchEngine) <=> (want[c][2] = SearchEngine)
    /\ want[c][2] = SearchEngine =>
          /\ trail[c] = <<>> \/ trail[c] = <<SearchEngine>>
          /\ pc[c] = "fetching" => trail[c] = <<>>
    /\ want[c][2] # SearchEngine =>
          \A i \in DOMAIN trail[c] : trail[c][i] \in Approved \cap Public

CallSound(c) == TokenSound(c) /\ TrailSound(c)

LimiterInv == IndInv /\ GrantsAreNumbered

IInv ==
    /\ LimiterInv /\ TypeOK /\ CacheSound /\ SlotsAreHeld
    /\ \A c \in Call : CallSound(c)

\* It holds before the first call.
LEMMA InitIInv == Init => IInv
<1> SUFFICES ASSUME Init PROVE IInv  OBVIOUS
<1>1. IndInv  BY LimiterStart DEF Init
<1>2. GrantsAreNumbered  BY DEF Init, LimiterInit, GrantsAreNumbered
<1>w. \A c \in Call : want[c] \in Key /\ want[c][2] \in Host \cup {SearchEngine}
  BY RemoteAssumption DEF Init, RemoteAssumption
<1>3. TypeOK
  <2>1. {c \in Call : pc[c] \in {"asking", "granted"}} = {lock} \ {None}  BY DEF Init
  <2>2. cache \in [token : Token \cup {NoToken}, until : Nat]  BY DEF Init, EmptyCache
  <2>3. trail \in [Call -> Seq(Host \cup {SearchEngine})]  BY DEF Init
  <2>4. clock \in Nat /\ clock <= MaxClock /\ 0 \in 0..MaxClock
    BY RemoteAssumption DEF Init, LimiterInit, RemoteAssumption
  <2>5. LimiterTypeOK  BY <1>1 DEF IndInv
  <2> QED  BY <1>w, <2>1, <2>2, <2>3, <2>4, <2>5 DEF Init, TypeOK, Stage
<1>4. CacheSound  BY DEF Init, LimiterInit, EmptyCache, CacheSound
<1>5. SlotsAreHeld
  <2>1. \A k \in Key : Holders(k) = {} /\ granted[k] = {}  BY DEF Init, LimiterInit, Holders
  <2> QED  BY <2>1, FS_EmptySet DEF SlotsAreHeld
<1>6. ASSUME NEW c \in Call PROVE CallSound(c)
  <2>1. TokenSound(c)  BY DEF Init, LimiterInit, TokenSound
  <2>2. TrailSound(c)
    BY <1>w, RemoteAssumption DEF Init, TrailSound, RemoteAssumption
  <2> QED  BY <2>1, <2>2 DEF CallSound
<1> QED  BY <1>1, <1>2, <1>3, <1>4, <1>5, <1>6 DEF IInv, LimiterInv

\* What the type invariant says of one call, and of the lock.
LEMMA CallTypes ==
    ASSUME TypeOK, NEW c \in Call
    PROVE  /\ want[c] \in Key /\ want[c][2] \in Host \cup {SearchEngine}
           /\ bearer[c].signed \in Nat /\ bearer[c].lifetime \in Nat
           /\ bearer[c].expires_in \in Nat /\ bearer[c].received \in Nat
           /\ since[c] \in Nat /\ since[c] <= MaxClock
           /\ clock \in Nat /\ clock <= MaxClock
           /\ trail[c] \in Seq(Host \cup {SearchEngine}) /\ Len(trail[c]) \in Nat
           /\ at[c] \in Host \cup {SearchEngine}
           /\ pc[c] \in {"asking", "granted"} <=> c = lock
           /\ cache.until \in Nat
           /\ cache.token.signed \in Nat /\ cache.token.lifetime \in Nat
           /\ cache.token.expires_in \in Nat /\ cache.token.received \in Nat
<1>1. want[c] \in Key /\ want[c][2] \in Host \cup {SearchEngine}
  BY RemoteAssumption DEF TypeOK, RemoteAssumption
<1>2. /\ bearer[c].signed \in Nat /\ bearer[c].lifetime \in Nat
      /\ bearer[c].expires_in \in Nat /\ bearer[c].received \in Nat
      /\ cache.until \in Nat
      /\ cache.token.signed \in Nat /\ cache.token.lifetime \in Nat
      /\ cache.token.expires_in \in Nat /\ cache.token.received \in Nat
  <2>1. \A t \in Token \cup {NoToken} :
           /\ t.signed \in Nat /\ t.lifetime \in Nat /\ t.expires_in \in Nat /\ t.received \in Nat
    <3>1. \A t \in Token :
             /\ t.signed \in Nat /\ t.lifetime \in Lifetime
             /\ t.expires_in \in Nat /\ t.received \in Nat
      BY DEF Token
    <3>2. /\ NoToken.signed = 0 /\ NoToken.lifetime = 0
          /\ NoToken.expires_in = 0 /\ NoToken.received = 0
      BY DEF NoToken
    <3>3. Lifetime \subseteq Nat  BY TokenAssumption DEF TokenAssumption
    <3> TAKE t \in Token \cup {NoToken}
    <3>4. CASE t \in Token  BY <3>1, <3>3, <3>4
    <3>5. CASE t = NoToken
      <4>1. 0 \in Nat  OBVIOUS
      <4> QED  BY <3>2, <3>5, <4>1, Zenon
    <3> QED  BY <3>4, <3>5
  <2>2. bearer[c] \in Token \cup {NoToken}  BY DEF TypeOK
  <2>3. cache.token \in Token \cup {NoToken} /\ cache.until \in Nat  BY DEF TypeOK
  <2> QED  BY <2>1, <2>2, <2>3
<1>3. /\ since[c] \in Nat /\ since[c] <= MaxClock /\ clock \in Nat /\ clock <= MaxClock
      /\ trail[c] \in Seq(Host \cup {SearchEngine}) /\ Len(trail[c]) \in Nat
      /\ at[c] \in Host \cup {SearchEngine}
  BY RemoteAssumption DEF TypeOK, LimiterTypeOK, RemoteAssumption
<1>4. pc[c] \in {"asking", "granted"} <=> c = lock
  BY RemoteAssumption DEF TypeOK, RemoteAssumption
<1> QED  BY <1>1, <1>2, <1>3, <1>4

\* A hit that is granted is one more of its key, and of no other.
LEMMA AcquireCounts ==
    ASSUME LimiterInv, NEW k \in Key, Acquire(k)
    PROVE  /\ LimiterInv'
           /\ Cardinality(granted'[k]) = Cardinality(granted[k]) + 1
           /\ \A j \in Key : Cardinality(granted[j]) \in Nat
           /\ \A j \in Key : j # k => granted'[j] = granted[j]
<1> DEFINE n == Cardinality(granted[k])
           h == [at |-> clock, n |-> n]
<1>1. IndInv'  BY AcquireKeeps DEF LimiterInv
<1>2. granted' = [granted EXCEPT ![k] = granted[k] \cup {h}]  BY DEF Acquire
<1>3. granted \in [Key -> SUBSET Hit] /\ \A j \in Key : IsFiniteSet(granted[j])
  BY DEF LimiterInv, IndInv, LimiterTypeOK, RemembersEnough
<1>4. \A j \in Key : Cardinality(granted[j]) \in Nat  BY <1>3, FS_CardinalityType
<1>5. h \notin granted[k]  BY <1>4 DEF LimiterInv, GrantsAreNumbered
<1>6. granted'[k] = granted[k] \cup {h} /\ \A j \in Key : j # k => granted'[j] = granted[j]
  BY <1>2, <1>3
<1>7. Cardinality(granted[k] \cup {h}) = Cardinality(granted[k]) + 1
  <2> HIDE DEF h
  <2> QED  BY <1>3, <1>5, FS_AddElement
<1>8. GrantsAreNumbered'
  <2> SUFFICES ASSUME NEW j \in Key, NEW g \in granted'[j] PROVE g.n < Cardinality(granted'[j])
    BY DEF GrantsAreNumbered
  <2>1. CASE j # k  BY <2>1, <1>6 DEF LimiterInv, GrantsAreNumbered
  <2>2. CASE j = k /\ g \in granted[k]
    <3>1. g.n \in Nat /\ g.n < Cardinality(granted[k])
      BY <2>2, <1>3 DEF Hit, LimiterInv, GrantsAreNumbered
    <3> QED  BY <2>2, <3>1, <1>4, <1>6, <1>7
  <2>3. CASE j = k /\ g = h  BY <2>3, <1>4, <1>6, <1>7
  <2> QED  BY <2>1, <2>2, <2>3, <1>6
<1> QED  BY <1>1, <1>4, <1>6, <1>7, <1>8 DEF LimiterInv

\* The limiter's steps, whoever takes them: its promise is kept and no grant is undone.
LEMMA LimiterKeeps ==
    ASSUME LimiterInv,
           \/ Pass
           \/ UNCHANGED limiterVars
           \/ \E k \in Key : Acquire(k) \/ Prune(k) \/ Expire(k)
    PROVE  /\ LimiterInv'
           /\ \A k \in Key : /\ Cardinality(granted[k]) \in Nat /\ Cardinality(granted'[k]) \in Nat
                             /\ Cardinality(granted[k]) <= Cardinality(granted'[k])
<1>f. \A k \in Key : Cardinality(granted[k]) \in Nat
  BY FS_CardinalityType DEF LimiterInv, IndInv, RemembersEnough
<1> DEFINE Counted == LimiterInv' /\ \A j \in Key : Cardinality(granted[j]) <= Cardinality(granted'[j])
<1> SUFFICES Counted
  BY <1>f, FS_CardinalityType DEF LimiterInv, IndInv, RemembersEnough
<1>1. ASSUME NEW k \in Key, Acquire(k) PROVE Counted
  <2>1. LimiterInv'  BY <1>1, AcquireCounts
  <2> SUFFICES ASSUME NEW j \in Key PROVE Cardinality(granted[j]) <= Cardinality(granted'[j])
    BY <2>1
  <2>2. CASE j = k
    <3>1. Cardinality(granted'[k]) = Cardinality(granted[k]) + 1  BY <1>1, AcquireCounts
    <3> QED  BY <2>2, <3>1, <1>f
  <2>3. CASE j # k
    <3>1. granted'[j] = granted[j]  BY <1>1, <2>3, AcquireCounts
    <3> QED  BY <3>1, <1>f
  <2> QED  BY <2>2, <2>3
<1>2. ASSUME granted' = granted, IndInv' PROVE Counted
  BY <1>2, <1>f DEF LimiterInv, GrantsAreNumbered
<1>3. CASE Pass
  BY <1>2, <1>3, PassKeeps DEF Pass, LimiterInv
<1>4. ASSUME NEW k \in Key, Prune(k) \/ Expire(k) PROVE Counted
  BY <1>2, <1>4, ForgettingKeeps DEF Prune, Expire, LimiterInv
<1>5. CASE UNCHANGED limiterVars
  <2>1. IndInv'
    BY <1>5 DEF limiterVars, LimiterInv, IndInv, LimiterTypeOK, RemembersEnough, WindowIsKept,
                GrantedIn
  <2> QED  BY <1>2, <1>5, <2>1 DEF limiterVars
<1> QED  BY <1>1, <1>3, <1>4, <1>5

\* A slot once held stays paid for, as long as no call joins its holders unpaid.
LEMMA HoldersKept ==
    ASSUME SlotsAreHeld, NEW k \in Key, Holders(k)' \subseteq Holders(k),
           Cardinality(granted[k]) \in Nat, Cardinality(granted'[k]) \in Nat,
           Cardinality(granted[k]) <= Cardinality(granted'[k])
    PROVE  IsFiniteSet(Holders(k)') /\ Cardinality(Holders(k)') <= Cardinality(granted'[k])
<1>1. IsFiniteSet(Holders(k)) /\ Cardinality(Holders(k)) <= Cardinality(granted[k])
  BY DEF SlotsAreHeld
<1>2. IsFiniteSet(Holders(k)') /\ Cardinality(Holders(k)') <= Cardinality(Holders(k))
  BY <1>1, FS_Subset
<1>3. Cardinality(Holders(k)) \in Nat /\ Cardinality(Holders(k)') \in Nat
  BY <1>1, <1>2, FS_CardinalityType
<1> QED  BY <1>1, <1>2, <1>3

\* A step of one call: it leaves the others, their turn at the lock and the clock alone, and
\* what it makes of its own state has its type.
OfOneCall(c) ==
    /\ want' = want /\ clock' = clock
    /\ lock' \in Call \cup {None}
    /\ cache' \in [token : Token \cup {NoToken}, until : Nat]
    /\ pc' \in [Call -> Stage]
    /\ bearer' \in [Call -> Token \cup {NoToken}]
    /\ since' \in [Call -> 0..MaxClock]
    /\ at' \in [Call -> Host \cup {SearchEngine}]
    /\ trail' \in [Call -> Seq(Host \cup {SearchEngine})]
    /\ answer' \in [Call -> Told \cup {None}]
    /\ \A d \in Call \ {c} :
          /\ pc'[d] = pc[d] /\ bearer'[d] = bearer[d] /\ since'[d] = since[d]
          /\ at'[d] = at[d] /\ trail'[d] = trail[d] /\ answer'[d] = answer[d]
          /\ d = lock' <=> d = lock
    /\ pc'[c] \in {"asking", "granted"} <=> c = lock'
    /\ pc'[c] = "done" => answer'[c] # None

\* Such a step is judged on that call, the cache and the limiter alone.
LEMMA OneCallKeeps ==
    ASSUME IInv, NEW c \in Call, OfOneCall(c),
           LimiterInv', CacheSound', CallSound(c)', SlotsAreHeld'
    PROVE  IInv'
<1>t. TypeOK  BY DEF IInv
<1>1. LimiterTypeOK' /\ clock' <= MaxClock
  BY <1>t DEF LimiterInv, IndInv, OfOneCall, TypeOK
<1>2. {d \in Call : pc'[d] \in {"asking", "granted"}} = {lock'} \ {None}
  <2>1. \A d \in Call : pc'[d] \in {"asking", "granted"} <=> d = lock'
    BY <1>t, CallTypes DEF OfOneCall
  <2> QED  BY <2>1, RemoteAssumption DEF OfOneCall, RemoteAssumption
<1>3. \A d \in Call : pc'[d] = "done" => answer'[d] # None
  BY <1>t DEF OfOneCall, TypeOK
<1>4. want' \in [Call -> Key]  BY <1>t DEF OfOneCall, TypeOK
<1>5. TypeOK'  BY <1>1, <1>2, <1>3, <1>4 DEF OfOneCall, TypeOK
<1>6. ASSUME NEW d \in Call, d # c PROVE CallSound(d)'
  <2>1. CallSound(d)  BY DEF IInv
  <2>2. /\ pc'[d] = pc[d] /\ bearer'[d] = bearer[d] /\ since'[d] = since[d] /\ at'[d] = at[d]
        /\ trail'[d] = trail[d] /\ want'[d] = want[d] /\ clock' = clock
    BY <1>6 DEF OfOneCall
  <2> QED  BY <2>1, <2>2 DEF CallSound, TokenSound, TrailSound, Verifies, SourceOk
<1> QED  BY <1>5, <1>6 DEF IInv

\* The slots of a step that takes none.
LEMMA NoSlotTaken ==
    ASSUME IInv, NEW c \in Call, OfOneCall(c),
           \A k \in Key : /\ Cardinality(granted[k]) \in Nat /\ Cardinality(granted'[k]) \in Nat
                          /\ Cardinality(granted[k]) <= Cardinality(granted'[k]),
           \/ pc[c] \in {"fetching", "responding"}
           \/ trail[c] # <<>>
           \/ pc'[c] \notin {"fetching", "responding"} /\ trail'[c] = <<>>
    PROVE  SlotsAreHeld'
<1>1. ASSUME NEW k \in Key PROVE Holders(k)' \subseteq Holders(k)
  BY DEF Holders, OfOneCall
<1> QED  BY <1>1, HoldersKept DEF IInv, SlotsAreHeld

\* Whatever ends a call: it frees the lock if it had it, and may leave the limiter asked.
LEMMA EndsKeeps ==
    ASSUME IInv, NEW c \in Call, NEW a \in Told, Ends(c, a),
           lock' = IF c = lock THEN None ELSE lock,
           UNCHANGED <<cache, want, trail>>, clock' = clock,
           \/ UNCHANGED limiterVars
           \/ \E k \in Key : Acquire(k) \/ Prune(k)
    PROVE  IInv'
<1>t. TypeOK /\ CallSound(c)  BY DEF IInv
<1>1. /\ pc' = [pc EXCEPT ![c] = "done"]
      /\ answer' = [answer EXCEPT ![c] = IF answer[c] = None THEN a ELSE answer[c]]
      /\ bearer' = [bearer EXCEPT ![c] = NoToken]
      /\ since' = [since EXCEPT ![c] = 0]
      /\ at' = [at EXCEPT ![c] = want[c][2]]
  BY DEF Ends
<1>2. want[c][2] \in Host \cup {SearchEngine} /\ 0 \in 0..MaxClock /\ a # None
  BY <1>t, CallTypes, RemoteAssumption DEF RemoteAssumption
<1>3. OfOneCall(c)
  <2>1. \A d \in Call \ {c} : d = lock' <=> d = lock
    BY RemoteAssumption DEF RemoteAssumption
  <2>2. c # lock'  BY RemoteAssumption DEF RemoteAssumption
  <2>3. lock' \in Call \cup {None}  BY <1>t DEF TypeOK
  <2>4. answer' \in [Call -> Told \cup {None}] /\ answer'[c] # None
    BY <1>1, <1>2, <1>t DEF TypeOK
  <2>5. pc' \in [Call -> Stage] /\ pc'[c] = "done"  BY <1>1, <1>t DEF TypeOK, Stage
  <2> QED  BY <1>1, <1>2, <1>t, <2>1, <2>2, <2>3, <2>4, <2>5 DEF OfOneCall, TypeOK
<1>4. /\ LimiterInv'
      /\ \A k \in Key : /\ Cardinality(granted[k]) \in Nat /\ Cardinality(granted'[k]) \in Nat
                        /\ Cardinality(granted[k]) <= Cardinality(granted'[k])
  BY LimiterKeeps DEF IInv
<1>5. SlotsAreHeld'
  BY <1>1, <1>3, <1>4, <1>t, NoSlotTaken DEF TypeOK
<1>6. CacheSound'  BY DEF IInv, CacheSound
<1>7. CallSound(c)'
  <2>1. pc'[c] = "done" /\ since'[c] = 0 /\ at'[c] = want[c][2]
    BY <1>1, <1>t DEF TypeOK
  <2>2. TokenSound(c)'  BY <2>1, <1>t, CallTypes DEF TokenSound
  <2>3. TrailSound(c)'  BY <2>1, <1>t DEF TrailSound, CallSound
  <2> QED  BY <2>2, <2>3 DEF CallSound
<1> QED  BY <1>3, <1>4, <1>5, <1>6, <1>7, OneCallKeeps

\* The ways a call ends before it is sent, on its way, or at the server's door.
LEMMA EndingsKeep ==
    ASSUME IInv, NEW c \in Call,
           \/ TokenUnavailable(c) \/ CallUndelivered(c) \/ Unauthorized(c) \/ SourceRefused(c)
           \/ NotPublic(c) \/ Fetched(c) \/ Searched(c) \/ SourceFails(c)
    PROVE  IInv'
<1>1. TypeOK /\ (pc[c] \in {"asking", "granted"} <=> c = lock)
  BY CallTypes DEF IInv
<1>2. CASE TokenUnavailable(c)
  <2>1. /\ Ends(c, "upstream_unavailable") /\ lock' = (IF c = lock THEN None ELSE lock)
        /\ UNCHANGED <<cache, want, trail>> /\ clock' = clock /\ UNCHANGED limiterVars
    BY <1>1, <1>2 DEF TokenUnavailable, limiterVars
  <2> QED  BY <2>1, EndsKeeps DEF Told
<1>3. CASE ~TokenUnavailable(c)
  <2>1. PICK a \in Told : Ends(c, a)
    BY <1>3 DEF CallUndelivered, Unauthorized, SourceRefused, NotPublic, Fetched, Searched,
                SourceFails, Told
  <2>2. pc[c] \notin {"asking", "granted"}
    BY <1>3 DEF CallUndelivered, Unauthorized, SourceRefused, NotPublic, Fetched, Searched,
                SourceFails
  <2>3. /\ lock' = (IF c = lock THEN None ELSE lock)
        /\ UNCHANGED <<cache, want, trail>> /\ clock' = clock /\ UNCHANGED limiterVars
    BY <1>1, <1>3, <2>2 DEF CallUndelivered, Unauthorized, SourceRefused, NotPublic, Fetched,
                            Searched, SourceFails, limiterVars
  <2> QED  BY <2>1, <2>3, EndsKeeps
<1> QED  BY <1>2, <1>3

\* A call that the limiter turns away, or whose answer from it is lost.
LEMMA LimiterEndingsKeep ==
    ASSUME IInv, NEW c \in Call, RateLimited(c) \/ LimitStoreUnavailable(c)
    PROVE  IInv'
<1>1. TypeOK /\ (pc[c] \in {"asking", "granted"} <=> c = lock) /\ want[c] \in Key
  BY CallTypes DEF IInv
<1>2. PICK a \in Told : Ends(c, a)
  BY DEF RateLimited, LimitStoreUnavailable, Told
<1>3. /\ lock' = (IF c = lock THEN None ELSE lock)
      /\ UNCHANGED <<cache, want, trail>>
  BY <1>1 DEF RateLimited, LimitStoreUnavailable
<1>4. UNCHANGED limiterVars \/ Acquire(want[c]) \/ Prune(want[c])
  BY DEF RateLimited, LimitStoreUnavailable
<1>5. clock' = clock  BY <1>4 DEF limiterVars, Acquire, Prune
<1> QED  BY <1>1, <1>2, <1>3, <1>4, <1>5, EndsKeeps

\* A step of a call that ends nothing and asks nothing of the limiter.
LEMMA OnwardKeeps ==
    ASSUME IInv, NEW c \in Call, OfOneCall(c), UNCHANGED limiterVars,
           CacheSound', CallSound(c)',
           \/ pc[c] \in {"fetching", "responding"}
           \/ pc'[c] \notin {"fetching", "responding"} /\ trail'[c] = <<>>
    PROVE  IInv'
<1>1. /\ LimiterInv'
      /\ \A k \in Key : /\ Cardinality(granted[k]) \in Nat /\ Cardinality(granted'[k]) \in Nat
                        /\ Cardinality(granted[k]) <= Cardinality(granted'[k])
  BY LimiterKeeps DEF IInv
<1>2. SlotsAreHeld'  BY <1>1, NoSlotTaken
<1> QED  BY <1>1, <1>2, OneCallKeeps

\* A cached token is handed out with more than the margin left, but for what its answer took.
LEMMA TakeCachedKeeps ==
    ASSUME IInv, NEW c \in Call, TakeCached(c)
    PROVE  IInv'
<1>t. TypeOK /\ CallSound(c) /\ CacheSound  BY DEF IInv
<1>1. /\ pc[c] = "idle" /\ lock = None /\ clock < cache.until
      /\ bearer' = [bearer EXCEPT ![c] = cache.token]
      /\ since' = [since EXCEPT ![c] = clock]
      /\ pc' = [pc EXCEPT ![c] = "sent"]
      /\ UNCHANGED <<clock, hits, granted, lock, cache, want, at, trail, answer>>
  BY DEF TakeCached, Reusable, Carries, Moves
<1>2. clock \in 0..MaxClock /\ cache.token \in Token \cup {NoToken}
  BY <1>t, CallTypes DEF TypeOK
<1>3. /\ pc'[c] = "sent" /\ bearer'[c] = cache.token /\ since'[c] = clock
      /\ at'[c] = at[c] /\ trail'[c] = trail[c] /\ clock' = clock /\ want'[c] = want[c]
  BY <1>1, <1>t DEF TypeOK
<1>4. OfOneCall(c)
  <2>1. c # lock  BY <1>1, RemoteAssumption DEF RemoteAssumption
  <2> QED  BY <1>1, <1>2, <1>3, <1>t, <2>1 DEF OfOneCall, TypeOK, Stage
<1>5. TokenSound(c)'
  <2>1. cache.token.expires_in <= cache.token.lifetime =>
            clock + Margin < cache.token.received + cache.token.lifetime
    BY <1>1, <1>t, CallTypes, TokenAssumption DEF CacheSound, TokenAssumption
  <2> QED  BY <1>3, <2>1 DEF TokenSound
<1>6. TrailSound(c)' /\ trail[c] = <<>>
  BY <1>1, <1>3, <1>t DEF TrailSound, CallSound
<1>7. CacheSound'  BY <1>1, <1>t DEF CacheSound
<1> QED  BY <1>1, <1>3, <1>4, <1>5, <1>6, <1>7, OnwardKeeps DEF CallSound, limiterVars

\* One call at a time asks the issuer.
LEMMA AskIssuerKeeps ==
    ASSUME IInv, NEW c \in Call, AskIssuer(c)
    PROVE  IInv'
<1>t. TypeOK /\ CallSound(c) /\ CacheSound  BY DEF IInv
<1>1. /\ pc[c] = "idle" /\ lock = None /\ lock' = c
      /\ pc' = [pc EXCEPT ![c] = "asking"]
      /\ UNCHANGED <<clock, hits, granted, cache, want, bearer, since, at, trail, answer>>
  BY DEF AskIssuer, Moves
<1>2. pc'[c] = "asking"  BY <1>1, <1>t DEF TypeOK
<1>3. OfOneCall(c)
  <2>1. \A d \in Call \ {c} : d # lock /\ d # lock'
    BY <1>1, RemoteAssumption DEF RemoteAssumption
  <2> QED  BY <1>1, <1>2, <1>t, <2>1 DEF OfOneCall, TypeOK, Stage
<1>4. CallSound(c)' /\ trail[c] = <<>>
  BY <1>1, <1>2, <1>t DEF TokenSound, TrailSound, CallSound
<1>5. CacheSound'  BY <1>1, <1>t DEF CacheSound
<1> QED  BY <1>1, <1>2, <1>3, <1>4, <1>5, OnwardKeeps DEF limiterVars

\* The issuer signs now, for one of its lifetimes.
LEMMA IssuerGrantsKeeps ==
    ASSUME IInv, NEW c \in Call, IssuerGrants(c)
    PROVE  IInv'
<1>t. TypeOK /\ CallSound(c) /\ CacheSound  BY DEF IInv
<1>c. clock \in 0..MaxClock /\ clock \in Nat  BY <1>t, CallTypes
<1>1. PICK lifetime \in Lifetime, stated \in BOOLEAN : Carries(c, Granted(clock, lifetime, stated))
  BY DEF IssuerGrants
<1> DEFINE told == IF stated THEN lifetime ELSE DefaultLifetime
           b == [signed |-> clock, lifetime |-> lifetime, received |-> clock, expires_in |-> told]
<1>l. told \in Nat  BY TokenAssumption DEF TokenAssumption
<1>b. b = Granted(clock, lifetime, stated) /\ b \in Token
  <2>1. b = Granted(clock, lifetime, stated)  BY DEF Granted
  <2> HIDE DEF told
  <2>2. b \in Token  BY <1>c, <1>l DEF Token
  <2> QED  BY <2>1, <2>2
<1>2. /\ pc[c] = "asking"
      /\ bearer' = [bearer EXCEPT ![c] = b]
      /\ since' = [since EXCEPT ![c] = clock]
      /\ pc' = [pc EXCEPT ![c] = "granted"]
      /\ UNCHANGED <<clock, hits, granted, lock, cache, want, at, trail, answer>>
  BY <1>1, <1>b DEF IssuerGrants, Carries, Moves
<1> HIDE DEF b
<1>3. pc'[c] = "granted" /\ bearer'[c] = b /\ since'[c] = clock
  BY <1>2, <1>t DEF TypeOK
<1>4. OfOneCall(c)
  <2>1. c = lock  BY <1>2, <1>t, CallTypes
  <2> QED  BY <1>2, <1>3, <1>b, <1>c, <1>t, <2>1 DEF OfOneCall, TypeOK, Stage
<1>5. TokenSound(c)'  BY <1>3, <1>b DEF TokenSound
<1>6. TrailSound(c)' /\ trail[c] = <<>>
  BY <1>2, <1>3, <1>t DEF TrailSound, CallSound
<1>7. CacheSound'  BY <1>2, <1>t DEF CacheSound
<1> QED  BY <1>2, <1>3, <1>4, <1>5, <1>6, <1>7, OnwardKeeps DEF CallSound, limiterVars

\* The answer came: what is cached of the token's life is reckoned from then.
LEMMA TokenReceivedKeeps ==
    ASSUME IInv, NEW c \in Call, TokenReceived(c)
    PROVE  IInv'
<1>t. TypeOK /\ CallSound(c) /\ CacheSound  BY DEF IInv
<1> DEFINE b == [bearer[c] EXCEPT !.received = clock]
<1>c. /\ clock \in 0..MaxClock /\ clock \in Nat
      /\ bearer[c].lifetime \in Nat /\ bearer[c].expires_in \in Nat
      /\ bearer[c] \in Token
  <2>1. bearer[c] \in Token \cup {NoToken}  BY <1>t DEF TypeOK
  <2>2. bearer[c] \in Token  BY <1>t, <2>1 DEF TokenReceived, CallSound, TokenSound
  <2> QED  BY <1>t, <2>2, CallTypes
<1>b. /\ b \in Token /\ b.received = clock
      /\ b.lifetime = bearer[c].lifetime /\ b.expires_in = bearer[c].expires_in
  BY <1>c DEF Token
<1>k. b.lifetime \in Nat /\ b.expires_in \in Nat  BY <1>b, <1>c
<1>1. /\ pc[c] = "granted" /\ lock' = None
      /\ cache' = [token |-> b, until |-> clock + Kept(b.expires_in)]
      /\ bearer' = [bearer EXCEPT ![c] = b]
      /\ since' = [since EXCEPT ![c] = clock]
      /\ pc' = [pc EXCEPT ![c] = "sent"]
      /\ UNCHANGED <<clock, hits, granted, want, at, trail, answer>>
  BY DEF TokenReceived, Carries, Moves, Cached
<1> HIDE DEF b
<1>2. pc'[c] = "sent" /\ bearer'[c] = b /\ since'[c] = clock
  BY <1>1, <1>t DEF TypeOK
<1>4. /\ Kept(b.expires_in) \in Nat
      /\ Kept(b.expires_in) = 0 \/ Kept(b.expires_in) + Margin = b.expires_in
  BY <1>k, TokenAssumption DEF Kept, TokenAssumption
<1>5. OfOneCall(c)
  <2>1. c = lock /\ c # None  BY <1>1, <1>t, CallTypes, RemoteAssumption DEF RemoteAssumption
  <2>2. cache' \in [token : Token \cup {NoToken}, until : Nat]
    BY <1>1, <1>4, <1>b, <1>c
  <2>3. \A d \in Call \ {c} : d # lock /\ d # lock'
    BY <1>1, <2>1, RemoteAssumption DEF RemoteAssumption
  <2> QED  BY <1>1, <1>2, <1>b, <1>c, <1>t, <2>1, <2>2, <2>3 DEF OfOneCall, TypeOK, Stage
<1>6. TokenSound(c)'  BY <1>2, <1>b DEF TokenSound
<1>7. TrailSound(c)' /\ trail[c] = <<>>
  BY <1>1, <1>2, <1>t DEF TrailSound, CallSound
<1>8. CacheSound'
  <2>1. cache'.until = clock + Kept(b.expires_in) /\ cache'.token = b /\ clock' = clock
    BY <1>1
  <2>2. \/ clock + Kept(b.expires_in) <= clock
        \/ b.expires_in <= b.lifetime =>
               clock + Kept(b.expires_in) + Margin <= b.received + b.lifetime
    BY <1>4, <1>b, <1>c, <1>k, TokenAssumption DEF TokenAssumption
  <2> QED  BY <2>1, <2>2 DEF CacheSound
<1> QED  BY <1>1, <1>2, <1>5, <1>6, <1>7, <1>8, OnwardKeeps DEF CallSound, limiterVars

\* A caller that gives up changes nothing but what it is told.
LEMMA CallTimesOutKeeps ==
    ASSUME IInv, NEW c \in Call, CallTimesOut(c)
    PROVE  IInv'
<1>t. TypeOK /\ CallSound(c) /\ CacheSound  BY DEF IInv
<1>1. /\ pc[c] \in {"sent", "admitted", "fetching", "responding"}
      /\ answer' = [answer EXCEPT ![c] = "timeout"]
      /\ UNCHANGED <<clock, hits, granted, lock, cache, pc, want, bearer, since, at, trail>>
  BY DEF CallTimesOut
<1>2. OfOneCall(c)
  <2>1. c # lock  BY <1>1, <1>t, CallTypes
  <2>2. answer' \in [Call -> Told \cup {None}] /\ \A d \in Call \ {c} : answer'[d] = answer[d]
    BY <1>1, <1>t DEF TypeOK, Told
  <2> QED  BY <1>1, <1>t, <2>1, <2>2 DEF OfOneCall, TypeOK
<1>3. CallSound(c)'
  BY <1>1, <1>t DEF CallSound, TokenSound, TrailSound, Verifies, SourceOk
<1>4. pc[c] \in {"fetching", "responding"} \/ trail[c] = <<>>
  BY <1>1, <1>t DEF CallSound, TrailSound
<1>5. CacheSound'  BY <1>1, <1>t DEF CacheSound
<1> QED  BY <1>1, <1>2, <1>3, <1>4, <1>5, OnwardKeeps DEF limiterVars

\* The server verifies the token the moment the call comes in.
LEMMA VerifiedKeeps ==
    ASSUME IInv, NEW c \in Call, Verified(c)
    PROVE  IInv'
<1>t. TypeOK /\ CallSound(c) /\ CacheSound  BY DEF IInv
<1>c. clock \in 0..MaxClock /\ clock \in Nat  BY <1>t, CallTypes
<1>1. /\ pc[c] = "sent" /\ Verifies(bearer[c], clock)
      /\ since' = [since EXCEPT ![c] = clock]
      /\ pc' = [pc EXCEPT ![c] = "admitted"]
      /\ UNCHANGED <<clock, hits, granted, lock, cache, want, bearer, at, trail, answer>>
  BY DEF Verified, Moves
<1>2. pc'[c] = "admitted" /\ since'[c] = clock  BY <1>1, <1>t DEF TypeOK
<1>3. OfOneCall(c)
  <2>1. c # lock  BY <1>1, <1>t, CallTypes
  <2> QED  BY <1>1, <1>2, <1>c, <1>t, <2>1 DEF OfOneCall, TypeOK, Stage
<1>4. TokenSound(c)'  BY <1>1, <1>2, <1>c DEF TokenSound, Verifies
<1>5. TrailSound(c)' /\ trail[c] = <<>>
  BY <1>1, <1>2, <1>t DEF TrailSound, CallSound
<1>6. CacheSound'  BY <1>1, <1>t DEF CacheSound
<1> QED  BY <1>1, <1>2, <1>3, <1>4, <1>5, <1>6, OnwardKeeps DEF CallSound, limiterVars

\* A call that goes on to fetch joins the holders of its key by the hit it was granted.
LEMMA TakesSlotKeeps ==
    ASSUME IInv, NEW c \in Call, TakesSlot(c)
    PROVE  IInv'
<1>t. TypeOK /\ CallSound(c) /\ CacheSound /\ LimiterInv  BY DEF IInv
<1>k. PICK k \in Key : k = want[c]  BY <1>t, CallTypes
<1>1. /\ pc[c] = "admitted" /\ SourceOk(want[c][2]) /\ Acquire(k)
      /\ pc' = [pc EXCEPT ![c] = "fetching"]
      /\ UNCHANGED <<lock, cache, want, bearer, since, at, trail, answer>>
  BY <1>k DEF TakesSlot, Moves
<1>2. pc'[c] = "fetching" /\ clock' = clock  BY <1>1, <1>t DEF TypeOK, Acquire
<1>3. /\ LimiterInv'
      /\ Cardinality(granted'[k]) = Cardinality(granted[k]) + 1
      /\ \A j \in Key : Cardinality(granted[j]) \in Nat
      /\ \A j \in Key : j # k => granted'[j] = granted[j]
  BY <1>1, <1>t, AcquireCounts
<1>4. OfOneCall(c)
  <2>1. c # lock  BY <1>1, <1>t, CallTypes
  <2> QED  BY <1>1, <1>2, <1>t, <2>1 DEF OfOneCall, TypeOK, Stage
<1>5. TokenSound(c)'  BY <1>1, <1>2, <1>t DEF CallSound, TokenSound, Verifies
<1>6. TrailSound(c)' /\ trail[c] = <<>>
  <2>1. trail[c] = <<>> /\ at[c] = want[c][2]  BY <1>1, <1>t DEF TrailSound, CallSound
  <2>2. Len(trail[c]) = 0 /\ 0 <= MaxRedirects
    BY <2>1, RemoteAssumption DEF RemoteAssumption
  <2> QED  BY <1>1, <1>2, <1>t, <2>1, <2>2 DEF TrailSound, CallSound, SourceOk
<1>7. CacheSound'  BY <1>1, <1>2, <1>t DEF CacheSound
<1>8. SlotsAreHeld'
  <2> SUFFICES ASSUME NEW j \in Key
               PROVE  IsFiniteSet(Holders(j)') /\ Cardinality(Holders(j)') <= Cardinality(granted'[j])
    BY DEF SlotsAreHeld
  <2>1. IsFiniteSet(Holders(j)) /\ Cardinality(Holders(j)) <= Cardinality(granted[j])
    BY DEF IInv, SlotsAreHeld
  <2>2. CASE j # k
    <3>1. Holders(j)' = Holders(j)  BY <1>1, <1>k, <1>t, <2>2 DEF Holders, TypeOK
    <3> QED  BY <1>3, <2>1, <2>2, <3>1
  <2>3. CASE j = k
    <3>1. c \notin Holders(k) /\ Holders(k)' = Holders(k) \cup {c}
      BY <1>1, <1>6, <1>k, <1>t DEF Holders, TypeOK
    <3>2. IsFiniteSet(Holders(k)') /\ Cardinality(Holders(k)') = Cardinality(Holders(k)) + 1
      BY <2>1, <2>3, <3>1, FS_AddElement
    <3>3. Cardinality(Holders(k)) \in Nat  BY <2>1, <2>3, FS_CardinalityType
    <3> QED  BY <1>3, <2>1, <2>3, <3>2, <3>3
  <2> QED  BY <2>2, <2>3
<1> QED  BY <1>3, <1>4, <1>5, <1>6, <1>7, <1>8, OneCallKeeps DEF CallSound

\* A request goes to a checked name that points outside, and is one more of its call.
LEMMA RequestsKeeps ==
    ASSUME IInv, NEW c \in Call, Requests(c)
    PROVE  IInv'
<1>t. TypeOK /\ CallSound(c) /\ CacheSound  BY DEF IInv
<1>1. /\ pc[c] = "fetching" /\ at[c] \in {SearchEngine} \cup Public
      /\ trail' = [trail EXCEPT ![c] = Append(trail[c], at[c])]
      /\ pc' = [pc EXCEPT ![c] = "responding"]
      /\ UNCHANGED <<clock, hits, granted, lock, cache, want, bearer, since, at, answer>>
  BY DEF Requests, RequirePublic, Moves
<1>2. /\ trail[c] \in Seq(Host \cup {SearchEngine}) /\ at[c] \in Host \cup {SearchEngine}
      /\ want[c][2] \in Host \cup {SearchEngine}
  BY <1>t, CallTypes
<1>3. /\ Append(trail[c], at[c]) \in Seq(Host \cup {SearchEngine})
      /\ Len(Append(trail[c], at[c])) = Len(trail[c]) + 1
      /\ DOMAIN Append(trail[c], at[c]) = 1..(Len(trail[c]) + 1)
      /\ DOMAIN trail[c] = 1..Len(trail[c]) /\ Len(trail[c]) \in Nat
      /\ \A i \in 1..Len(trail[c]) : Append(trail[c], at[c])[i] = trail[c][i]
      /\ Append(trail[c], at[c])[Len(trail[c]) + 1] = at[c]
  BY <1>2
<1>4. pc'[c] = "responding" /\ trail'[c] = Append(trail[c], at[c])
  BY <1>1, <1>t DEF TypeOK
<1>5. OfOneCall(c)
  <2>1. c # lock  BY <1>1, <1>t, CallTypes
  <2>2. trail' \in [Call -> Seq(Host \cup {SearchEngine})]  BY <1>1, <1>3, <1>t DEF TypeOK
  <2> QED  BY <1>1, <1>4, <1>t, <2>1, <2>2 DEF OfOneCall, TypeOK, Stage
<1>6. TokenSound(c)'  BY <1>1, <1>4, <1>t DEF CallSound, TokenSound, Verifies
<1>7. TrailSound(c)'
  <2>1. SourceOk(at[c]) /\ Len(trail[c]) <= MaxRedirects
        /\ ((at[c] = SearchEngine) <=> (want[c][2] = SearchEngine))
    BY <1>1, <1>t DEF CallSound, TrailSound
  <2>2. Len(trail'[c]) <= MaxRedirects + 1
    BY <1>3, <1>4, <2>1, RemoteAssumption DEF RemoteAssumption
  <2>3. want[c][2] = SearchEngine => trail'[c] = <<SearchEngine>>
    <3> SUFFICES ASSUME want[c][2] = SearchEngine PROVE trail'[c] = <<SearchEngine>>  OBVIOUS
    <3>1. trail[c] = <<>> /\ at[c] = SearchEngine
      BY <1>1, <1>t, <2>1 DEF CallSound, TrailSound
    <3> QED  BY <1>4, <3>1
  <2>4. want[c][2] # SearchEngine =>
            \A i \in DOMAIN trail'[c] : trail'[c][i] \in Approved \cap Public
    <3> SUFFICES ASSUME want[c][2] # SearchEngine, NEW i \in 1..(Len(trail[c]) + 1)
                 PROVE  trail'[c][i] \in Approved \cap Public
      BY <1>3, <1>4
    <3>1. CASE i \in 1..Len(trail[c])
      BY <1>3, <1>4, <1>t, <3>1 DEF CallSound, TrailSound
    <3>2. CASE i = Len(trail[c]) + 1
      BY <1>1, <1>3, <1>4, <2>1, <3>2 DEF SourceOk
    <3> QED  BY <1>3, <3>1, <3>2
  <2> QED  BY <1>1, <1>4, <2>1, <2>2, <2>3, <2>4 DEF TrailSound, SourceOk
<1>8. CacheSound'  BY <1>1, <1>t DEF CacheSound
<1> QED  BY <1>1, <1>5, <1>6, <1>7, <1>8, OnwardKeeps DEF CallSound, limiterVars

\* A redirect that is followed leads a fetch to an approved name, never to the engine.
LEMMA RedirectsKeeps ==
    ASSUME IInv, NEW c \in Call, Redirects(c)
    PROVE  IInv'
<1>t. TypeOK /\ CallSound(c) /\ CacheSound  BY DEF IInv
<1>1. /\ pc[c] = "responding" /\ at[c] # SearchEngine
      /\ UNCHANGED <<clock, hits, granted, lock, cache, want, trail>>
  BY DEF Redirects
<1>2. c # lock  BY <1>1, <1>t, CallTypes
<1>3. CASE Ends(c, "invalid_arguments")
  <2>1. /\ lock' = (IF c = lock THEN None ELSE lock) /\ UNCHANGED <<cache, want, trail>>
        /\ clock' = clock /\ UNCHANGED limiterVars
    BY <1>1, <1>2 DEF limiterVars
  <2> QED  BY <1>3, <2>1, EndsKeeps DEF Told
<1>4. CASE ~Ends(c, "invalid_arguments")
  <2>1. PICK target \in Host :
          /\ target \in Approved /\ Len(trail[c]) <= MaxRedirects
          /\ at' = [at EXCEPT ![c] = target]
          /\ Moves(c, "fetching") /\ UNCHANGED <<bearer, since>>
    BY <1>4 DEF Redirects
  <2>2. pc' = [pc EXCEPT ![c] = "fetching"] /\ UNCHANGED <<answer, bearer, since>>
    BY <2>1 DEF Moves
  <2>3. pc'[c] = "fetching" /\ at'[c] = target  BY <2>1, <2>2, <1>t DEF TypeOK
  <2>4. OfOneCall(c)
    BY <1>1, <1>2, <1>t, <2>1, <2>2, <2>3 DEF OfOneCall, TypeOK, Stage
  <2>5. TokenSound(c)'  BY <1>1, <1>t, <2>2, <2>3 DEF CallSound, TokenSound, Verifies
  <2>6. TrailSound(c)'
    <3>1. want[c][2] # SearchEngine /\ target # SearchEngine
      BY <1>1, <1>t, RemoteAssumption DEF CallSound, TrailSound, RemoteAssumption
    <3> QED  BY <1>1, <1>t, <2>1, <2>3, <3>1 DEF CallSound, TrailSound, SourceOk
  <2>7. CacheSound'  BY <1>1, <1>t DEF CacheSound
  <2> QED  BY <1>1, <2>4, <2>5, <2>6, <2>7, OnwardKeeps DEF CallSound, limiterVars
<1> QED  BY <1>3, <1>4

\* A Redis key that expires is forgotten, and no call is touched.
LEMMA KeyExpiresKeeps ==
    ASSUME IInv, NEW k \in Key, KeyExpires(k)
    PROVE  IInv'
<1>1. /\ Expire(k) /\ clock' = clock /\ granted' = granted
      /\ UNCHANGED <<lock, cache, pc, want, bearer, since, at, trail, answer>>
  BY DEF KeyExpires, Expire
<1>2. LimiterInv'  BY <1>1, LimiterKeeps DEF IInv
<1>3. TypeOK'  BY <1>1, <1>2 DEF IInv, TypeOK, LimiterInv, IndInv
<1>4. CacheSound'  BY <1>1 DEF IInv, CacheSound
<1>5. SlotsAreHeld'
  <2>1. \A j \in Key : Holders(j)' = Holders(j)  BY <1>1 DEF Holders
  <2> QED  BY <1>1, <2>1 DEF IInv, SlotsAreHeld
<1>6. \A c \in Call : CallSound(c)'
  BY <1>1 DEF IInv, CallSound, TokenSound, TrailSound, Verifies, SourceOk
<1> QED  BY <1>2, <1>3, <1>4, <1>5, <1>6 DEF IInv

\* Time only makes a cached token less reusable.
LEMMA TickKeeps ==
    ASSUME IInv, Tick
    PROVE  IInv'
<1>t. TypeOK /\ clock \in Nat  BY DEF IInv, TypeOK, LimiterTypeOK
<1>1. /\ Pass /\ clock' = clock + 1 /\ clock < MaxClock /\ granted' = granted
      /\ UNCHANGED <<lock, cache, pc, want, bearer, since, at, trail, answer>>
  BY DEF Tick, Pass
<1>2. LimiterInv'  BY <1>1, LimiterKeeps DEF IInv
<1>3. TypeOK'
  <2>1. clock' <= MaxClock  BY <1>1, <1>t, RemoteAssumption DEF RemoteAssumption
  <2> QED  BY <1>1, <1>2, <1>t, <2>1 DEF TypeOK, LimiterInv, IndInv
<1>4. CacheSound'
  <2>1. cache.until \in Nat  BY <1>t DEF TypeOK
  <2> QED  BY <1>1, <1>t, <2>1 DEF IInv, CacheSound
<1>5. SlotsAreHeld'
  <2>1. \A j \in Key : Holders(j)' = Holders(j)  BY <1>1 DEF Holders
  <2> QED  BY <1>1, <2>1 DEF IInv, SlotsAreHeld
<1>6. ASSUME NEW c \in Call PROVE CallSound(c)'
  <2>1. CallSound(c)  BY DEF IInv
  <2>4. TokenSound(c)'  BY <1>1, <2>1 DEF CallSound, TokenSound, Verifies
  <2>5. TrailSound(c)'  BY <1>1, <2>1 DEF CallSound, TrailSound, SourceOk
  <2> QED  BY <2>4, <2>5 DEF CallSound
<1> QED  BY <1>2, <1>3, <1>4, <1>5, <1>6 DEF IInv

\* Every step of the specification keeps the invariant.
LEMMA StepIInv == IInv /\ [Next]_vars => IInv'
<1> SUFFICES ASSUME IInv, [Next]_vars PROVE IInv'  OBVIOUS
<1>1. ASSUME NEW c \in Call, CallStep(c) PROVE IInv'
  BY <1>1, TakeCachedKeeps, AskIssuerKeeps, IssuerGrantsKeeps, TokenReceivedKeeps,
     CallTimesOutKeeps, VerifiedKeeps, TakesSlotKeeps, RequestsKeeps, RedirectsKeeps,
     EndingsKeep, LimiterEndingsKeep
  DEF CallStep
<1>2. ASSUME NEW k \in Key, KeyExpires(k) PROVE IInv'  BY <1>2, KeyExpiresKeeps
<1>3. CASE Tick  BY <1>3, TickKeeps
<1>4. CASE UNCHANGED vars
  <2>1. UNCHANGED <<clock, hits, granted, lock, cache, pc, want, bearer, since, at, trail, answer>>
    BY <1>4 DEF vars
  <2>2. LimiterInv'  BY <2>1, LimiterKeeps DEF IInv, limiterVars
  <2>3. TypeOK'  BY <2>1, <2>2 DEF IInv, TypeOK, LimiterInv, IndInv
  <2>4. SlotsAreHeld'
    <3>1. \A j \in Key : Holders(j)' = Holders(j)  BY <2>1 DEF Holders
    <3> QED  BY <2>1, <3>1 DEF IInv, SlotsAreHeld
  <2>5. CacheSound' /\ \A c \in Call : CallSound(c)'
    BY <2>1 DEF IInv, CacheSound, CallSound, TokenSound, TrailSound, Verifies, SourceOk
  <2> QED  BY <2>2, <2>3, <2>4, <2>5 DEF IInv
<1> QED  BY <1>1, <1>2, <1>3, <1>4 DEF Next

\* And so it holds always.
LEMMA Inductive == Spec => []IInv
  BY InitIInv, StepIInv, PTL DEF Spec

\* The state has its type; one call at a time holds the token lock, and it is the one that
\* is asking the issuer; a call that ended has told its caller something.
THEOREM TypeCorrect == Spec => []TypeOK
  BY Inductive, PTL DEF IInv

\* The limiter keeps its promise among the calls that use it as it does alone: also those
\* whose answer from the store is lost count.
THEOREM CallsStayWithinLimit == Spec => []WindowIsKept
  BY Inductive, PTL DEF IInv, LimiterInv, IndInv

\* A token that expires on the way, of a lifetime that is not overrated, did so because the
\* issuer's answer and the delivery took more than the margin, or its whole life: whatever
\* the lifetimes, the margin and the time either takes.
THEOREM TokensLastTheirCalls == Spec => []TokensOutliveTheirCalls
<1>1. IInv => TokensOutliveTheirCalls
  <2> SUFFICES ASSUME IInv, NEW c \in Call, pc[c] = "sent", ~Verifies(bearer[c], clock),
                      bearer[c].expires_in <= bearer[c].lifetime
               PROVE  LET taken == (bearer[c].received - bearer[c].signed) + (clock - since[c])
                      IN  taken > Margin \/ taken >= bearer[c].expires_in
    BY DEF TokensOutliveTheirCalls
  <2>1. TokenSound(c)  BY DEF IInv, CallSound
  <2>2. /\ clock \in Nat /\ since[c] \in Nat
        /\ bearer[c].signed \in Nat /\ bearer[c].lifetime \in Nat
        /\ bearer[c].expires_in \in Nat /\ bearer[c].received \in Nat
    BY CallTypes DEF IInv
  <2> QED  BY <2>1, <2>2, TokenAssumption DEF TokenSound, Verifies, TokenAssumption
<1> QED  BY <1>1, Inductive, PTL

\* Whatever leaves the server is made for a call with a verified token and a slot of its
\* own, goes to an approved name that points outside, and is one of no more than
\* MAX_REDIRECTS after the first: for any number of calls, hosts and redirects.
THEOREM OutboundCallsAreEntitled == Spec => []OutboundIsEntitled
<1>1. IInv => OutboundIsEntitled
  <2> SUFFICES ASSUME IInv PROVE OutboundIsEntitled  OBVIOUS
  <2>1. ASSUME NEW c \in Call, trail[c] # <<>>
        PROVE  /\ pc[c] # "done" => Verifies(bearer[c], since[c])
               /\ Len(trail[c]) <= MaxRedirects + 1
               /\ \A i \in DOMAIN trail[c] :
                     trail[c][i] \in {SearchEngine} \cup (Approved \cap Public)
               /\ SearchEngine \in {want[c][2], trail[c][1]} => trail[c] = <<SearchEngine>>
    <3>1. TokenSound(c) /\ TrailSound(c) /\ TypeOK  BY DEF IInv, CallSound
    <3>2. pc[c] # "done" => Verifies(bearer[c], since[c])
      BY <2>1, <3>1 DEF TokenSound, TrailSound
    <3>3. trail[c] \in Seq(Host \cup {SearchEngine})  BY <3>1, CallTypes
    <3>4. 1 \in DOMAIN trail[c]  BY <2>1, <3>3
    <3>5. CASE want[c][2] = SearchEngine
      <4>1. trail[c] = <<SearchEngine>>  BY <2>1, <3>1, <3>5 DEF TrailSound
      <4>2. \A i \in DOMAIN trail[c] : trail[c][i] = SearchEngine  BY <4>1
      <4> QED  BY <3>1, <3>2, <4>1, <4>2 DEF TrailSound
    <3>6. CASE want[c][2] # SearchEngine
      <4>1. \A i \in DOMAIN trail[c] : trail[c][i] \in Approved \cap Public
        BY <3>1, <3>6 DEF TrailSound
      <4>2. trail[c][1] # SearchEngine
        BY <3>4, <4>1, RemoteAssumption DEF RemoteAssumption
      <4> QED  BY <3>1, <3>2, <3>6, <4>1, <4>2 DEF TrailSound
    <3> QED  BY <3>5, <3>6
  <2>2. ASSUME NEW k \in Key
        PROVE  Cardinality({c \in Call : trail[c] # <<>> /\ want[c] = k}) <= Cardinality(granted[k])
    <3> DEFINE Users == {c \in Call : trail[c] # <<>> /\ want[c] = k}
    <3>1. Users \subseteq Holders(k)  BY DEF Holders
    <3>2. IsFiniteSet(Holders(k)) /\ Cardinality(Holders(k)) <= Cardinality(granted[k])
      BY DEF IInv, SlotsAreHeld
    <3> HIDE DEF Users
    <3>3. IsFiniteSet(Users) /\ Cardinality(Users) <= Cardinality(Holders(k))
      BY <3>1, <3>2, FS_Subset
    <3>4. /\ Cardinality(Users) \in Nat /\ Cardinality(Holders(k)) \in Nat
          /\ Cardinality(granted[k]) \in Nat
      BY <3>2, <3>3, FS_CardinalityType DEF IInv, LimiterInv, IndInv, RemembersEnough
    <3>5. Cardinality(Users) <= Cardinality(granted[k])  BY <3>2, <3>3, <3>4
    <3> QED  BY <3>5 DEF Users
  <2> QED  BY <2>1, <2>2 DEF OutboundIsEntitled
<1> QED  BY <1>1, Inductive, PTL
=============================================================================
