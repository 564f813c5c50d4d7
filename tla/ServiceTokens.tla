-------------------------- MODULE ServiceTokens -------------------------
(***************************************************************************)
(* The gateway's service tokens (service_tokens.py): one token, cached     *)
(* until Margin before it expires.  The cache reckons with the lifetime it *)
(* was told, from when the answer came; the issuer with the one it granted,*)
(* from when it signed.  Nothing bounds how long the answer takes.         *)
(***************************************************************************)
EXTENDS Integers

CONSTANTS Margin,           \* EXPIRY_MARGIN_SECONDS
          DefaultLifetime,  \* what _request takes for an expires_in that is missing
          Lifetime          \* what an issuer may grant

ASSUME TokenAssumption ==
    /\ Margin \in Nat /\ DefaultLifetime \in Nat
    /\ Lifetime \subseteq Nat

\* When the issuer signed it and for how long; what the gateway takes for its lifetime, and
\* when its answer came.
Token == [signed : Nat, lifetime : Lifetime, expires_in : Nat, received : Nat]

NoToken == [signed |-> 0, lifetime |-> 0, expires_in |-> 0, received |-> 0]

\* _request: the issuer signs a token for one of its lifetimes, and may leave it unsaid.
Granted(now, lifetime, stated) ==
    [signed |-> now, lifetime |-> lifetime, received |-> now,
     expires_in |-> IF stated THEN lifetime ELSE DefaultLifetime]

\* Mutant: the token is kept until the expiry that the issuer stated.
Kept_whole(expires_in) == expires_in

Kept(expires_in) == IF expires_in > Margin THEN expires_in - Margin ELSE 0

EmptyCache == [token |-> NoToken, until |-> 0]

\* __call__: the cached token is handed out again.
Reusable(cache, now) == cache.token # NoToken /\ now < cache.until

Cached(token, now) == [token |-> token, until |-> now + Kept(token.expires_in)]

\* JWTVerifier, on every request.
Verifies(token, now) == now < token.signed + token.lifetime
=============================================================================
