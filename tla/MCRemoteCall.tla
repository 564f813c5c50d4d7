--------------------------- MODULE MCRemoteCall -------------------------
(* RemoteCall on a small instance: a public source, an approved name that   *)
(* points inside, a public one that is not approved, and the search engine. *)
EXTENDS RemoteCall, TLC

CONSTANTS tenant, site, inner, stranger, engine

Hosts == {site, inner, stranger}
ApprovedHosts == {site, inner}
PublicHosts == {site, stranger}
Keys == {tenant} \X (Hosts \cup {engine})

Interchangeable == Permutations(Call)
=============================================================================
