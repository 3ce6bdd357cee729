----------------------- MODULE SalesFulfilmentInvariant -----------------------
(***************************************************************************)
(* What makes the safety properties of SalesFulfilment inductive: what a   *)
(* request that was interrupted may still rely on, and where the stock of  *)
(* an order and the events of an invoice can be in each status.            *)
(***************************************************************************)
EXTENDS SalesFulfilment

\* The two events by which an invoice takes stock out.
Deductions(i) == {PostKey(i), ConsumeKey(i)}

Deducted(i) == Deductions(i) \cap posted # {}

\* What the earlier steps of request r have established by the time it takes
\* its next one, whatever other requests did in between.
Remembers(r) ==
  /\ request[r].at \in {"draftInvoice", "linkInvoice"} => request[r].order \in Orders
  /\ request[r].at = "linkInvoice" =>
       /\ request[r].invoice \in Invoices
       /\ invoice[request[r].invoice].draftedFor = request[r].order
       /\ invoice[request[r].invoice].status # "NONE"
  /\ request[r].at = "reverse" =>
       /\ request[r].invoice \in Invoices
       /\ Deducted(request[r].invoice)

RequestsRemember == \A r \in Requests : Remembers(r)

\* An order is linked only to an invoice that was drafted for it.
LinkedToItsOwn ==
  \A o \in Orders : order[o].invoice # None =>
    /\ invoice[order[o].invoice].draftedFor = o
    /\ invoice[order[o].invoice].status # "NONE"

\* An open order is not linked, and holds its stock; an order that was never
\* created has no reservation.
OpenOrdersUnlinked ==
  \A o \in Orders :
    /\ order[o].status = "NONE" => reservation[o].status = "NONE"
    /\ order[o].status \in {"NONE", "CONFIRMED", "PICKING", "PACKED"} => order[o].invoice = None

\* Every consumption event settled the reservation it is of.
ConsumptionsSettle ==
  /\ \A o \in Orders : DispatchKey(o) \in posted => reservation[o].status = "CONSUMED"
  /\ \A i \in Invoices : ConsumeKey(i) \in posted =>
       /\ invoice[i].draftedFor \in Orders
       /\ reservation[invoice[i].draftedFor].status = "CONSUMED"

\* The inductive invariant.
Inv ==
  /\ TypeOK
  /\ SnapshotMatchesMovements
  /\ RequestsRemember
  /\ LinkedToItsOwn
  /\ OpenOrdersUnlinked
  /\ OpenOrdersHoldStock
  /\ ConsumptionsSettle
  /\ ConsumedExactlyOnce
  /\ InvoiceStockEvents
  /\ ShippedWasDeducted
=============================================================================
