--------------------------- MODULE MCStockTransfer ---------------------------
(* Instances of StockTransfer for TLC.                                     *)
EXTENDS StockTransfer, TLC

CONSTANT b1

OneLotOpening == (b1 :> 2)

Symmetry == Permutations(Requests) \cup Permutations(Transfers)
=============================================================================
