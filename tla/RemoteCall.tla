---------------------------- MODULE RemoteCall --------------------------
(***************************************************************************)
(* A call of the gateway to the web research server, deployed on its own:  *)
(* fastmcp_executor.py takes a service token and sends the call, serve.py  *)
(* verifies it, web_research.py checks the source and takes a slot of the  *)
(* rate limit, http_web.py follows redirects by hand.  Tokens, calls and   *)
(* windows share one clock.  A host stands for a URL of it.                *)
(***************************************************************************)
EXTENDS RateLimiter, ServiceTokens, Sequences

CONSTANTS Call, Tenant, Host,
          Approved,      \* hosts whose URLs normalize_source_url accepts
          Public,        \* hosts all of whose addresses are public
          SearchEngine,  \* the "search" of a rate limit key, and its endpoint
          MaxRedirects,  \* MAX_REDIRECTS
          MaxClock,      \* bound
          None

\* What a caller may be told.
Told == {"ok", "invalid_arguments", "upstream_unavailable", "timeout"}

ASSUME RemoteAssumption ==
    /\ Approved \subseteq Host /\ Public \subseteq Host
    /\ SearchEngine \notin Host
    /\ Key = Tenant \X (Host \cup {SearchEngine})
    /\ MaxRedirects \in Nat /\ MaxClock \in Nat
    /\ None \notin Call \cup Told

VARIABLES
    lock,     \* the call in ClientCredentialsTokens.__call__
    cache,    \* _token, _expires_at
    pc,       \* where each call is
    want,     \* its tenant and what it asks for: a rate limit key
    bearer,   \* the token it carries
    since,    \* when the token was signed, taken, then verified
    at,       \* the URL to be requested next
    trail,    \* history: what was requested for it
    answer    \* what its caller was told

vars == <<clock, hits, granted, lock, cache, pc, want, bearer, since, at, trail, answer>>

Stage == {"idle", "asking", "granted", "sent", "admitted", "fetching", "responding", "done"}

\* The type of the state, within the clock's bound; the token lock belongs to the one
\* call that is asking the issuer, and a call that ended has told its caller something.
TypeOK ==
    /\ LimiterTypeOK /\ clock <= MaxClock
    /\ lock \in Call \cup {None}
    /\ {c \in Call : pc[c] \in {"asking", "granted"}} = {lock} \ {None}
    /\ cache \in [token : Token \cup {NoToken}, until : Nat]
    /\ pc \in [Call -> Stage]
    /\ want \in [Call -> Key]
    /\ bearer \in [Call -> Token \cup {NoToken}]
    /\ since \in [Call -> 0..MaxClock]
    /\ at \in [Call -> Host \cup {SearchEngine}]
    /\ trail \in [Call -> Seq(Host \cup {SearchEngine})]
    /\ answer \in [Call -> Told \cup {None}]
    /\ \A c \in Call : pc[c] = "done" => answer[c] # None

Init ==
    /\ LimiterInit
    /\ lock = None /\ cache = EmptyCache
    /\ want \in [Call -> Key]
    /\ pc = [c \in Call |-> "idle"]
    /\ bearer = [c \in Call |-> NoToken]
    /\ since = [c \in Call |-> 0]
    /\ at = [c \in Call |-> want[c][2]]
    /\ trail = [c \in Call |-> <<>>]
    /\ answer = [c \in Call |-> None]

\* The call ends and is forgotten but for its history; a caller that gave up hears nothing.
Ends(c, a) ==
    /\ pc' = [pc EXCEPT ![c] = "done"]
    /\ answer' = [answer EXCEPT ![c] = IF @ = None THEN a ELSE @]
    /\ bearer' = [bearer EXCEPT ![c] = NoToken]
    /\ since' = [since EXCEPT ![c] = 0]
    /\ at' = [at EXCEPT ![c] = want[c][2]]

Moves(c, stage) ==
    /\ pc' = [pc EXCEPT ![c] = stage]
    /\ UNCHANGED answer

Carries(c, token) ==
    /\ bearer' = [bearer EXCEPT ![c] = token]
    /\ since' = [since EXCEPT ![c] = clock]
-----------------------------------------------------------------------------
(* The gateway's side: ClientCredentialsTokens and FastMCPExecutor.         *)

TakeCached(c) ==
    /\ pc[c] = "idle" /\ lock = None
    /\ Reusable(cache, clock)
    /\ Carries(c, cache.token)
    /\ Moves(c, "sent")
    /\ UNCHANGED <<clock, hits, granted, lock, cache, want, at, trail>>

AskIssuer(c) ==
    /\ pc[c] = "idle" /\ lock = None
    /\ ~Reusable(cache, clock)
    /\ lock' = c
    /\ Moves(c, "asking")
    /\ UNCHANGED <<clock, hits, granted, cache, want, bearer, since, at, trail>>

IssuerGrants(c) ==
    /\ pc[c] = "asking"
    /\ \E lifetime \in Lifetime, stated \in BOOLEAN : Carries(c, Granted(clock, lifetime, stated))
    /\ Moves(c, "granted")
    /\ UNCHANGED <<clock, hits, granted, lock, cache, want, at, trail>>

TokenReceived(c) ==
    /\ pc[c] = "granted"
    /\ LET token == [bearer[c] EXCEPT !.received = clock]
       IN  cache' = Cached(token, clock) /\ Carries(c, token)
    /\ lock' = None
    /\ Moves(c, "sent")
    /\ UNCHANGED <<clock, hits, granted, want, at, trail>>

\* Mutant: a failed request leaves the lock taken.
TokenUnavailable_locked(c) ==
    /\ pc[c] \in {"asking", "granted"}
    /\ Ends(c, "upstream_unavailable")
    /\ UNCHANGED <<clock, hits, granted, lock, cache, want, trail>>

\* TokenUnavailable: refused, or the answer was lost.  The cache is as it was.
TokenUnavailable(c) ==
    /\ pc[c] \in {"asking", "granted"}
    /\ lock' = None
    /\ Ends(c, "upstream_unavailable")
    /\ UNCHANGED <<clock, hits, granted, cache, want, trail>>

\* future.result(timeout): the caller gives up, the server may go on.
CallTimesOut(c) ==
    /\ pc[c] \in {"sent", "admitted", "fetching", "responding"} /\ answer[c] = None
    /\ answer' = [answer EXCEPT ![c] = "timeout"]
    /\ UNCHANGED <<clock, hits, granted, lock, cache, pc, want, bearer, since, at, trail>>

\* The connection fails, or the coroutine was cancelled before it was made.
CallUndelivered(c) ==
    /\ pc[c] = "sent"
    /\ Ends(c, "upstream_unavailable")
    /\ UNCHANGED <<clock, hits, granted, lock, cache, want, trail>>
-----------------------------------------------------------------------------
(* The server's side.                                                       *)

Verified(c) ==
    /\ pc[c] = "sent" /\ Verifies(bearer[c], clock)
    /\ since' = [since EXCEPT ![c] = clock]
    /\ Moves(c, "admitted")
    /\ UNCHANGED <<clock, hits, granted, lock, cache, want, bearer, at, trail>>

Unauthorized(c) ==
    /\ pc[c] = "sent" /\ ~Verifies(bearer[c], clock)
    /\ Ends(c, "upstream_unavailable")
    /\ UNCHANGED <<clock, hits, granted, lock, cache, want, trail>>

\* normalize_source_url; a search names no source.
SourceOk(target) == target = SearchEngine \/ target \in Approved

SourceRefused(c) ==
    /\ pc[c] = "admitted" /\ ~SourceOk(want[c][2])
    /\ Ends(c, "invalid_arguments")
    /\ UNCHANGED <<clock, hits, granted, lock, cache, want, trail>>

TakesSlot(c) ==
    /\ pc[c] = "admitted" /\ SourceOk(want[c][2])
    /\ Acquire(want[c])
    /\ Moves(c, "fetching")
    /\ UNCHANGED <<lock, cache, want, bearer, since, at, trail>>

RateLimited(c) ==
    /\ pc[c] = "admitted" /\ SourceOk(want[c][2])
    /\ ~HasRoom(want[c])
    /\ Prune(want[c])
    /\ Ends(c, "invalid_arguments")
    /\ UNCHANGED <<lock, cache, want, trail>>

\* LimitStoreUnavailable: before the script ran, or after, its answer lost.
LimitStoreUnavailable(c) ==
    /\ pc[c] = "admitted" /\ SourceOk(want[c][2])
    /\ Acquire(want[c]) \/ (~HasRoom(want[c]) /\ Prune(want[c])) \/ UNCHANGED limiterVars
    /\ Ends(c, "upstream_unavailable")
    /\ UNCHANGED <<lock, cache, want, trail>>

KeyExpires(k) ==
    /\ hits[k] # {}
    /\ Expire(k)
    /\ UNCHANGED <<lock, cache, pc, want, bearer, since, at, trail, answer>>
-----------------------------------------------------------------------------
(* HttpWebBackend._get and search.                                          *)

\* Mutant: where a name points is only checked for the URL the call asked for.
RequirePublic_once(c) == at[c] \in {SearchEngine} \cup Public \/ trail[c] # <<>>

\* _require_public; the search engine is the deployment's own choice.
RequirePublic(c) == at[c] \in {SearchEngine} \cup Public

NotPublic(c) ==
    /\ pc[c] = "fetching" /\ ~RequirePublic(c)
    /\ Ends(c, "invalid_arguments")
    /\ UNCHANGED <<clock, hits, granted, lock, cache, want, trail>>

Requests(c) ==
    /\ pc[c] = "fetching" /\ RequirePublic(c)
    /\ trail' = [trail EXCEPT ![c] = Append(@, at[c])]
    /\ Moves(c, "responding")
    /\ UNCHANGED <<clock, hits, granted, lock, cache, want, bearer, since, at>>

\* fetch: the text of the page; search: what the engine found and policy would let be
\* fetched.  Both are data.
Fetched(c) ==
    /\ pc[c] = "responding" /\ at[c] # SearchEngine
    /\ Ends(c, "ok")
    /\ UNCHANGED <<clock, hits, granted, lock, cache, want, trail>>

Searched(c) ==
    /\ pc[c] = "responding" /\ at[c] = SearchEngine
    /\ Ends(c, "ok")
    /\ UNCHANGED <<clock, hits, granted, lock, cache, want, trail>>

\* The name does not resolve or no engine is configured; then an error status, an
\* unreadable type, too long, empty, a broken connection.
SourceFails(c) ==
    /\ pc[c] \in {"fetching", "responding"}
    /\ Ends(c, "upstream_unavailable")
    /\ UNCHANGED <<clock, hits, granted, lock, cache, want, trail>>

\* The target is checked as the URL was, then the next round of the loop if there is one.
Redirects(c) ==
    /\ pc[c] = "responding" /\ at[c] # SearchEngine
    /\ \E target \in Host :
          IF target \in Approved /\ Len(trail[c]) <= MaxRedirects
          THEN /\ at' = [at EXCEPT ![c] = target]
               /\ Moves(c, "fetching")
               /\ UNCHANGED <<bearer, since>>
          ELSE Ends(c, "invalid_arguments")
    /\ UNCHANGED <<clock, hits, granted, lock, cache, want, trail>>
-----------------------------------------------------------------------------
\* Time passes, however long an answer or a delivery is under way.
Tick ==
    /\ clock < MaxClock
    /\ Pass
    /\ UNCHANGED <<lock, cache, pc, want, bearer, since, at, trail, answer>>

CallStep(c) ==
    \/ TakeCached(c) \/ AskIssuer(c) \/ IssuerGrants(c) \/ TokenReceived(c)
    \/ TokenUnavailable(c) \/ CallTimesOut(c) \/ CallUndelivered(c)
    \/ Verified(c) \/ Unauthorized(c) \/ SourceRefused(c) \/ TakesSlot(c)
    \/ RateLimited(c) \/ LimitStoreUnavailable(c)
    \/ NotPublic(c) \/ Requests(c) \/ Fetched(c) \/ Searched(c) \/ SourceFails(c)
    \/ Redirects(c)

Next == Tick \/ (\E k \in Key : KeyExpires(k)) \/ \E c \in Call : CallStep(c)

Spec == Init /\ [][Next]_vars
-----------------------------------------------------------------------------
\* service_tokens.py: a cached token is replaced "shortly before it expires".  A token whose
\* lifetime the gateway does not overrate only expires on its way to the server when the
\* issuer's answer and this delivery have together taken more than the margin, or the whole
\* life of the token: however late in its life the cache handed it out, nothing else the
\* gateway did with it takes from the margin.
TokensOutliveTheirCalls ==
    \A c \in Call :
        LET token == bearer[c]
            taken == (token.received - token.signed) + (clock - since[c])
        IN  pc[c] = "sent" /\ ~Verifies(token, clock) /\ token.expires_in <= token.lifetime
                => taken > Margin \/ taken >= token.expires_in

\* Every request that leaves the server is made for a call whose token was good when it
\* came, and which holds a slot of its tenant's limit that no other call uses; it goes to
\* an approved name that points outside, and a call makes no more than MAX_REDIRECTS
\* requests after its first.
OutboundIsEntitled ==
    /\ \A c \in Call : trail[c] # <<>> =>
          /\ pc[c] # "done" => Verifies(bearer[c], since[c])
          /\ Len(trail[c]) <= MaxRedirects + 1
          /\ \A i \in DOMAIN trail[c] : trail[c][i] \in {SearchEngine} \cup (Approved \cap Public)
          /\ SearchEngine \in {want[c][2], trail[c][1]} => trail[c] = <<SearchEngine>>
    /\ \A k \in Key :
          Cardinality({c \in Call : trail[c] # <<>> /\ want[c] = k}) <= Cardinality(granted[k])
=============================================================================
