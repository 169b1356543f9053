------------------------------ MODULE MCPolicy ------------------------------
(***************************************************************************)
(* Planner on every snapshot of a small broker: four roles on two cards.   *)
(* Cards and roles have sizes that make some pairs fit and others not.     *)
(***************************************************************************)
EXTENDS Planner, FiniteSetsExt, TLC

CONSTANTS a, b, c, d, g1, g2

SizesMb == (a :> 3) @@ (b :> 2) @@ (c :> 1) @@ (d :> 1)
Sums == [S \in SUBSET Role |-> MapThenSumSet(LAMBDA r : SizesMb[r], S)]
Budgets == (g1 :> 4) @@ (g2 :> 1)
Cards == (a :> g1) @@ (b :> g1) @@ (c :> g1) @@ (d :> g2)
NoRoles == [r \in Role |-> {}]
Warms == [NoRoles EXCEPT ![c] = {b}]
Evicts == [NoRoles EXCEPT ![a] = {b, d}]
=============================================================================
