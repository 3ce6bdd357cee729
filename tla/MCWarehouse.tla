----------------------------- MODULE MCWarehouse -----------------------------
(* Instances of Warehouse for TLC.                                         *)
EXTENDS Warehouse, TLC

CONSTANTS p1, l1, l2

\* Two batches of a product, bought by the pair.
TwoLots == (l1 :> p1) @@ (l2 :> p1)
Pairs == p1 :> 2
TwoLotOpening == (l1 :> 1) @@ (l2 :> 0)

OneLot == l1 :> p1
OneLotOpening == l1 :> 1

Symmetry == Permutations(Requests) \cup Permutations(Adjustments) \cup Permutations(ReceiptKeys)
=============================================================================
