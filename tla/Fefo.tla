-------------------------------- MODULE Fefo --------------------------------
(***************************************************************************)
(* What reserveSalesOrderItem allocates for a line that names no batch:    *)
(* the batches in the order they expire, each emptied before the next is   *)
(* touched.  FefoAllocation models the loop that computes it.              *)
(***************************************************************************)
EXTENDS Integers, Functions

\* `items` draws `wanted` from `stock` first-expired-first-out, where
\* `rank[l]` is the position of lot l in the ORDER BY of the query.
IsFefoAllocation(stock, rank, wanted, items) ==
  /\ SumFunction(items) = wanted
  /\ \A l \in DOMAIN items : items[l] <= stock[l]
  /\ \A early, late \in DOMAIN items :
        rank[early] < rank[late] /\ items[late] > 0 => items[early] = stock[early]
=============================================================================
