----------------------------- MODULE MCPlacement -----------------------------
(***************************************************************************)
(* Two 3090s and a 3060, in any combination, with a ledger that tells the  *)
(* 3090s apart by UUID.  The selectors name a model, a card, both in       *)
(* either order, or nothing.                                               *)
(***************************************************************************)
EXTENDS Placement, TLC

CONSTANTS x, y, z, a, b

Keys == {"uuid-x", "uuid-y", "uuid-z", "3090", "3060"}
Uuids == (x :> "uuid-x") @@ (y :> "uuid-y") @@ (z :> "uuid-z")
Names == [k \in Keys |-> CASE k = "3090" -> {x, y} [] k = "3060" -> {z} [] OTHER -> {}]
Ledger == {"uuid-x", "uuid-y", "3060"}
Reserved == [k \in Ledger |-> 1]
Totals == (x :> 24) @@ (y :> 24) @@ (z :> 12)
Lists == {<<>>, <<"3090">>, <<"uuid-y">>, <<"3090", "3060">>, <<"3060", "3090">>}
=============================================================================
