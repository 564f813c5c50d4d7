------------------------ MODULE MCResearchRecord ------------------------
(* ResearchRecord on a small instance: a document the tenant may read and   *)
(* cite, and a query over data that may not be published.                   *)
EXTENDS ResearchRecord, TLC

CONSTANTS read, query

ReadAndQuery == {read, query}

DocumentAndQuery ==
    [c \in ReadAndQuery |->
       [access_class |-> IF c = read THEN "internal" ELSE "restricted",
        summarises |-> FALSE, addressable |-> c = read]]

SeenDrifted == {[status |-> "drifted", audited |-> TRUE]}

Interchangeable == Permutations(Excerpt) \cup Permutations(Attempt)
=============================================================================
