------------------------- MODULE MCBudgetLedger -------------------------
(* BudgetLedger on small instances: every meter has a limit of two. *)
EXTENDS BudgetLedger

TwoEach == [m \in Meter |-> 2]
=============================================================================
