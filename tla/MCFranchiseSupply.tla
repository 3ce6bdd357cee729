------------------------- MODULE MCFranchiseSupply -------------------------
(* Instances of FranchiseSupply for TLC.                                   *)
EXTENDS FranchiseSupply, TLC

CONSTANTS o1, o2, s1, v1, v2

OneStore == [o \in Orders |-> s1]

\* Both invoices are made of the sales order of the first supply order.
OfTheFirst == [i \in Invoices |-> o1]

OneEach == [o \in Orders |-> 1]

Symmetry == Permutations(Requests) \cup Permutations(Actors) \cup Permutations(Branches) \cup Permutations(Invoices)
=============================================================================
