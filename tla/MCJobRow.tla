---------------------------- MODULE MCJobRow ----------------------------
(* Small instances of JobRow. *)
EXTENDS JobRow, TLC

\* Worker slots are interchangeable.
Interchangeable == Permutations(Slot)
=============================================================================
