------------------------------- MODULE Custody -------------------------------
(***************************************************************************)
(* What a transfer from the warehouse to a store promises about custody:   *)
(* a consignment is in the warehouse, on its way, counted by the store, or *)
(* closed, in this order; the stock in transit is made of the consignments *)
(* that departed and are not closed; one is closed only after the store    *)
(* counted exactly what departed.                                          *)
(***************************************************************************)
EXTENDS Integers

CONSTANTS Consignments, CargoLots, WarehouseAtStart

VARIABLES
  place,       \* "warehouse", "transit", "store" or "closed"
  load,        \* lot and quantity of each consignment
  count,       \* what the store counted
  warehouse, transit   \* stock per lot

custodyVars == <<place, load, count, warehouse, transit>>

CustodyInit ==
  /\ place = [c \in Consignments |-> "warehouse"]
  /\ warehouse = WarehouseAtStart
  /\ transit = [l \in CargoLots |-> 0]

MoveTo(c, from, to) == place[c] = from /\ place' = [place EXCEPT ![c] = to]

\* What is to be sent may change until it departs.
Pack(c) ==
  /\ place[c] = "warehouse"
  /\ \A d \in Consignments \ {c} : load'[d] = load[d]
  /\ UNCHANGED <<place, count, warehouse, transit>>

Depart(c) ==
  /\ MoveTo(c, "warehouse", "transit")
  /\ warehouse[load[c].lot] >= load[c].quantity
  /\ warehouse' = [warehouse EXCEPT ![load[c].lot] = @ - load[c].quantity]
  /\ transit' = [transit EXCEPT ![load[c].lot] = @ + load[c].quantity]
  /\ UNCHANGED <<load, count>>

Count(c) ==
  /\ MoveTo(c, "transit", "store")
  /\ \A d \in Consignments \ {c} : count'[d] = count[d]
  /\ UNCHANGED <<load, warehouse, transit>>

Close(c) ==
  /\ MoveTo(c, "store", "closed")
  /\ count[c] = load[c].quantity
  /\ transit' = [transit EXCEPT ![load[c].lot] = @ - load[c].quantity]
  /\ UNCHANGED <<load, count, warehouse>>

CustodyNext == \E c \in Consignments : Pack(c) \/ Depart(c) \/ Count(c) \/ Close(c)

CustodySpec == CustodyInit /\ [][CustodyNext]_custodyVars
=============================================================================
