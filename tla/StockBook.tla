------------------------------ MODULE StockBook ------------------------------
(***************************************************************************)
(* What the sales side promises about physical stock, without orders,      *)
(* reservations or invoices: the quantity on hand of a lot changes only    *)
(* with an entry of the book; each entry is made once; a sale takes stock  *)
(* out, a return puts stock back and answers a sale made before it.        *)
(***************************************************************************)
EXTENDS Integers

CONSTANTS
  BookLots, OnHandAtStart,
  SaleKeys,       \* entries that take stock out
  ReturnKeys,     \* entries that put stock back
  SalesOf(_)      \* SalesOf(k): the sales that return k may answer

VARIABLES onHand, entries

bookVars == <<onHand, entries>>

BookInit ==
  /\ onHand = OnHandAtStart
  /\ entries = {}

Sell(k) ==
  /\ k \in SaleKeys \ entries
  /\ entries' = entries \cup {k}
  /\ \A l \in BookLots : 0 <= onHand'[l] /\ onHand'[l] <= onHand[l]

Return(k) ==
  /\ k \in ReturnKeys \ entries
  /\ SalesOf(k) \cap entries # {}
  /\ entries' = entries \cup {k}
  /\ \A l \in BookLots : onHand'[l] >= onHand[l]

BookNext == \E k \in SaleKeys \cup ReturnKeys : Sell(k) \/ Return(k)

BookSpec == BookInit /\ [][BookNext]_bookVars
=============================================================================
