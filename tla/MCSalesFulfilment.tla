-------------------------- MODULE MCSalesFulfilment --------------------------
(* Instances of SalesFulfilment for TLC.                                   *)
EXTENDS SalesFulfilmentInvariant, TLC

CONSTANTS o1, o2, b1, b2

\* One storefront order, one of a retailer.
OnlineSource == (o1 :> "STOREFRONT") @@ (o2 :> "DNP")

RetailerOnly == (o1 :> "DNP")
StorefrontOnly == (o1 :> "STOREFRONT")

\* b1 expires before b2.
TwoBatchRank == (b1 :> 1) @@ (b2 :> 2) @@ (NoBatch :> 3)
TwoBatchOpening == (b1 :> 1) @@ (b2 :> 2) @@ (NoBatch :> 0)

UntrackedRank == (NoBatch :> 1)
UntrackedOpening == (NoBatch :> 2)

Symmetry == Permutations(Requests) \cup Permutations(Invoices)
=============================================================================
