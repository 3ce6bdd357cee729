----------------------------- MODULE Procurement -----------------------------
(***************************************************************************)
(* Purchase orders and the goods receipts against them.  Every handler is  *)
(* one transaction under the lock of the purchase order's row.             *)
(*                                                                         *)
(* An order has at most one line per product, whose quantity 0 means that  *)
(* it has none.  Suppliers, warehouses, prices and rejected quantities do  *)
(* not decide anything here; a receipt with an idempotency key that was    *)
(* used before answers with the first receipt, or is refused.              *)
(***************************************************************************)
EXTENDS InventoryLedger, Functions, FiniteSets

CONSTANTS
  PurchaseOrders,
  ReceiptKeys,   \* idempotency keys of goods-receipt.create, one receipt per key
  Products,
  ProductOf,     \* ProductOf[l]: the product of lot l
  Conversion,    \* Conversion[p]: base units in the unit product p is ordered in
  MaxOrdered,    \* bound: quantity of a line
  NoOrder

ASSUME ProcurementAssumption ==
  /\ ProductOf \in [Lots -> Products]
  /\ Conversion \in [Products -> Nat \ {0}]
  /\ MaxOrdered \in Nat
  /\ NoOrder \notin PurchaseOrders

\* There is a sum over the receipts.
ASSUME FinitelyManyReceipts == IsFiniteSet(ReceiptKeys)

VARIABLES
  purchaseOrder,  \* status of each order; per product, quantity ordered and received
  receipt         \* the goods receipt of each key: order, accepted quantities, goods per lot

procurementVars == <<purchaseOrder, receipt>>

PurchaseOrderStatus ==
  {"NONE", "DRAFT", "CONFIRMED", "PARTIALLY_RECEIVED", "RECEIVED", "CANCELLED"}

Nothing == [p \in Products |-> 0]

LotChoices == {lot \in [Products -> Lots] : \A p \in Products : ProductOf[lot[p]] = p}

GoodsReceiptKey(k) == <<"goods-receipt-post", k>>

ProcurementInit ==
  /\ purchaseOrder = [o \in PurchaseOrders |->
                        [status |-> "NONE", ordered |-> Nothing, received |-> Nothing]]
  /\ receipt = [k \in ReceiptKeys |->
                  [order |-> NoOrder, accepted |-> Nothing, goods |-> [l \in Lots |-> 0]]]

CreatePurchaseOrder(o, ordered) ==
  /\ purchaseOrder[o].status = "NONE"
  /\ ordered # Nothing
  /\ purchaseOrder' = [purchaseOrder EXCEPT ![o].status = "DRAFT", ![o].ordered = ordered]
  /\ UNCHANGED <<ledgerVars, receipt>>

ConfirmPurchaseOrder(o) ==
  /\ purchaseOrder[o].status = "DRAFT"
  /\ purchaseOrder' = [purchaseOrder EXCEPT ![o].status = "CONFIRMED"]
  /\ UNCHANGED <<ledgerVars, receipt>>

ReceiptsOf(o) == {k \in ReceiptKeys : receipt[k].order = o}

\* Mutant: cancelling looks at the status only; an order whose only receipt
\* accepted nothing is still CONFIRMED.
CancelReceivedOrder(o) ==
  /\ purchaseOrder[o].status \in {"DRAFT", "CONFIRMED"}
  /\ purchaseOrder' = [purchaseOrder EXCEPT ![o].status = "CANCELLED"]
  /\ UNCHANGED <<ledgerVars, receipt>>

CancelPurchaseOrder(o) ==
  /\ purchaseOrder[o].status \in {"DRAFT", "CONFIRMED"}
  /\ ReceiptsOf(o) = {}
  /\ purchaseOrder' = [purchaseOrder EXCEPT ![o].status = "CANCELLED"]
  /\ UNCHANGED <<ledgerVars, receipt>>

Delivered(o, accepted) == [p \in Products |-> purchaseOrder[o].received[p] + accepted[p]]

StatusAfter(o, received) ==
  IF \A p \in Products : received[p] >= purchaseOrder[o].ordered[p] THEN "RECEIVED"
  ELSE IF received # Nothing THEN "PARTIALLY_RECEIVED" ELSE "CONFIRMED"

\* What a receipt puts into the warehouse, in base units.
Inbound(accepted, lot) ==
  [l \in Lots |-> LET p == ProductOf[l] IN
     IF lot[p] = l THEN accepted[p] * Conversion[p] ELSE 0]

\* receiveGoods: receipt, received quantities, stock and status together.
\* The product's goods go into the batch the receipt names.
ReceiveGoods(o, k, accepted, lot) ==
  /\ receipt[k].order = NoOrder
  /\ purchaseOrder[o].status \in {"CONFIRMED", "PARTIALLY_RECEIVED"}
  /\ \A p \in Products :
        accepted[p] <= purchaseOrder[o].ordered[p] - purchaseOrder[o].received[p]
  /\ receipt' = [receipt EXCEPT ![k] = [order |-> o, accepted |-> accepted, goods |-> Inbound(accepted, lot)]]
  /\ PostEvent(GoodsReceiptKey(k), Movements("AVAILABLE", Inbound(accepted, lot)))
  /\ purchaseOrder' = [purchaseOrder EXCEPT
       ![o].received = Delivered(o, accepted),
       ![o].status = StatusAfter(o, Delivered(o, accepted))]

ProcurementStep ==
  \E o \in PurchaseOrders :
    \/ \E ordered \in [Products -> 0..MaxOrdered] : CreatePurchaseOrder(o, ordered)
    \/ ConfirmPurchaseOrder(o)
    \/ CancelPurchaseOrder(o)
    \/ \E k \in ReceiptKeys, accepted \in [Products -> 0..MaxOrdered], lot \in LotChoices :
          ReceiveGoods(o, k, accepted, lot)

-----------------------------------------------------------------------------

ProcurementTypeOK ==
  /\ purchaseOrder \in [PurchaseOrders ->
       [status : PurchaseOrderStatus, ordered : [Products -> Nat], received : [Products -> Nat]]]
  /\ receipt \in [ReceiptKeys ->
       [order : PurchaseOrders \cup {NoOrder}, accepted : [Products -> Nat], goods : [Lots -> Nat]]]

\* What the receipts of order o accepted of product p.
Accepted(o, p) == SumFunctionOnSet([k \in ReceiptKeys |-> receipt[k].accepted[p]], ReceiptsOf(o))

\* What the receipts of an order accepted never exceeds what was ordered, and
\* the status tells how far they got: RECEIVED exactly when they cover every
\* line, no receipt at all for a draft or cancelled order.
ReceiptsWithinOrder ==
  \A o \in PurchaseOrders :
    LET accepted == [p \in Products |-> Accepted(o, p)]
        ordered == purchaseOrder[o].ordered
    IN  /\ \A p \in Products : accepted[p] <= ordered[p]
        /\ purchaseOrder[o].status \in {"NONE", "DRAFT", "CANCELLED"} => ReceiptsOf(o) = {}
        /\ ordered # Nothing => (accepted = ordered <=> purchaseOrder[o].status = "RECEIVED")

-----------------------------------------------------------------------------
(* What makes it inductive: the running total of each line is the sum of   *)
(* its receipts, and the status was chosen by that total.                  *)

ReceivedAddsUp ==
  \A o \in PurchaseOrders, p \in Products : purchaseOrder[o].received[p] = Accepted(o, p)

StatusFits(o) ==
  LET order == purchaseOrder[o] IN
  /\ \A p \in Products : order.received[p] <= order.ordered[p]
  /\ order.status # "NONE" => order.ordered # Nothing
  /\ order.status \in {"NONE", "DRAFT", "CONFIRMED", "CANCELLED"} => order.received = Nothing
  /\ order.status \in {"NONE", "DRAFT", "CANCELLED"} => ReceiptsOf(o) = {}
  /\ order.status = "RECEIVED" => order.received = order.ordered
  /\ order.status = "PARTIALLY_RECEIVED" => order.received # order.ordered

\* A receipt that was not made put nothing into the warehouse.
UnusedReceipts ==
  \A k \in ReceiptKeys : receipt[k].order = NoOrder =>
    GoodsReceiptKey(k) \notin posted /\ \A l \in Lots : receipt[k].goods[l] = 0

ReceiptInv == ReceivedAddsUp /\ (\A o \in PurchaseOrders : StatusFits(o)) /\ UnusedReceipts
=============================================================================
