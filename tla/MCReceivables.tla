---------------------------- MODULE MCReceivables ----------------------------
(* Instances of Receivables for TLC.                                       *)
EXTENDS Receivables

CONSTANTS i1, i2, p1, p2, p3, p4

Totals == (i1 :> 2) @@ (i2 :> 1)
IssuedInTurn == <<i2, i1>>

\* p1 and p2 pay the same invoice and cannot both pay it; p3 and p4 name no
\* invoice, and p4 no retailer.
Amounts == (p1 :> 2) @@ (p2 :> 2) @@ (p3 :> 2) @@ (p4 :> 1)
PaidFor == (p1 :> i1) @@ (p2 :> i1) @@ (p3 :> None) @@ (p4 :> None)

\* Among them a list that names an invoice twice, one that gives more than its
\* payment by taking from another invoice, and one that only takes.
Lists ==
  LET Item(i, amount) == [invoice |-> i, amount |-> amount]
  IN {<<Item(i1, 1)>>, <<Item(i2, -1)>>, <<Item(i1, 1), Item(i1, 1)>>,
      <<Item(i1, 3), Item(i2, -1)>>}

Symmetry == Permutations(Requests) \cup Permutations({p1, p2})
=============================================================================
