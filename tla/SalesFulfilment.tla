--------------------------- MODULE SalesFulfilment ---------------------------
(***************************************************************************)
(* Sales orders, their stock reservations and their invoices, over the     *)
(* stock of one product at one location.                                   *)
(*                                                                         *)
(* A handler that does all its work in one $transaction under the lock of  *)
(* the row that decides it (the order, the invoice) is one action.  A      *)
(* handler that reads a row first and writes in later, separate database   *)
(* calls is one action per call, with what it read kept in `request`: any  *)
(* other request, or a crash of the server, may come in between.           *)
(*                                                                         *)
(* Each order has one line, and a line one product: the lines of an order  *)
(* are reserved, released and consumed together in one transaction.  The   *)
(* checks on branch, retailer, representative, route and credit refuse a   *)
(* request before it changes anything and are left out; so is money.       *)
(***************************************************************************)
EXTENDS InventoryLedger, Fefo, FiniteSets

CONSTANTS
  Orders,       \* the idempotency keys of sales-order.create, one order per key
  Invoices,
  Requests,     \* requests being served, of the handlers that are not atomic
  Source,       \* Source[o]: the channel order o comes from
  NoBatch,      \* the lot of movements with a null batchId
  Rank,         \* Rank[l]: position of lot l in first-expired-first-out order
  Tracked,      \* product.isBatchTracked
  MaxQuantity,  \* bound: largest quantity of an order, an invoice or a manual reservation
  MaxManual,    \* bound: largest net quantity reserved or released by hand, per lot
  None

Sources == {"STOREFRONT", "DNP", "SALES_REP"}

ASSUME FulfilmentAssumption ==
  /\ StockStates = {"AVAILABLE", "RESERVED"}
  /\ Source \in [Orders -> Sources]
  /\ Rank \in [Lots -> Nat]
  /\ NoBatch \in Lots
  /\ Tracked \in BOOLEAN
  /\ MaxQuantity \in Nat
  /\ MaxManual \in Nat
  /\ None \notin Orders /\ None \notin Invoices

\* There is a sum over the orders.
ASSUME FinitelyManyOrders == IsFiniteSet(Orders)

VARIABLES
  order,        \* status, invoiceId and line of each sales order
  reservation,  \* the StockReservation of each order and its items
  invoice,      \* status and line of each invoice
  batch,        \* status of each batch
  request,      \* where each non-atomic request stands and what it has read
  manual        \* net quantity reserved through POST /inventory/reservations

vars == <<snapshot, moved, posted, order, reservation, invoice, batch, request, manual>>

Batches == Lots \ {NoBatch}

\* LAPSED: status still ACTIVE, expiryDate in the past.
\* BLOCKED: status EXPIRED or BLOCKED, which every check here treats alike.
BatchStatus == {"ACTIVE", "LAPSED", "BLOCKED"}

\* NONE: the row does not exist yet.  PLACED and DRAFT are never written.
OrderStatus == {"NONE", "CONFIRMED", "PICKING", "PACKED", "INVOICED",
                "DISPATCHED", "DELIVERED", "CANCELLED"}

\* POSTED stands for POSTED and CREDIT_OPEN (an invoice with a retailer):
\* no handler here distinguishes them.
InvoiceStatus == {"NONE", "DRAFT", "POSTED", "PAID", "VOIDED", "CANCELLED"}

ReservationStatus == {"NONE", "ACTIVE", "RELEASED", "CONSUMED"}

\* The next database call of a request; "idle" when it is not being served.
RequestStep == {"idle", "draftInvoice", "linkInvoice", "reverse", "markVoided", "markCancelled"}

Idle == [at |-> "idle", order |-> None, invoice |-> None]

\* Idempotency keys of inventory events.
DispatchKey(o) == <<"online-order-dispatch", o>>
ConsumeKey(i)  == <<"invoice-reservation-consume", i>>
PostKey(i)     == <<"invoice-post", i>>
VoidKey(i)     == <<"invoice-void", i>>

Init ==
  /\ LedgerInit
  /\ order = [o \in Orders |-> [status |-> "NONE", invoice |-> None, lot |-> NoBatch, quantity |-> 0]]
  /\ reservation = [o \in Orders |-> [status |-> "NONE", items |-> [l \in Lots |-> 0]]]
  /\ invoice = [i \in Invoices |->
                  [status |-> "NONE", paid |-> FALSE, draftedFor |-> None, lot |-> NoBatch, quantity |-> 0]]
  /\ batch = [b \in Batches |-> "ACTIVE"]
  /\ request = [r \in Requests |-> Idle]
  /\ manual = [l \in Lots |-> 0]

-----------------------------------------------------------------------------
(* Sales orders.                                                           *)

\* AVAILABLE stock the candidate query returns: batches that are ACTIVE and
\* whose expiry date has not passed.
EligibleStock ==
  [l \in Lots |-> IF l # NoBatch /\ batch[l] = "ACTIVE" THEN snapshot[l]["AVAILABLE"] ELSE 0]

\* The rows a line reserves: the batch it names (or the null batch of a
\* product that has none), else a first-expired-first-out allocation.
Allocates(lot, quantity, items) ==
  IF Tracked /\ lot = NoBatch
  THEN IsFefoAllocation(EligibleStock, Rank, quantity, items)
  ELSE items = OfLot(lot, quantity)

\* create: order, reservation and stock movements in one transaction.  A
\* second request with the same key returns the first one's order.
CreateOrder(o, lot, quantity) ==
  /\ order[o].status = "NONE"
  /\ lot # NoBatch => /\ Source[o] # "STOREFRONT"   \* checkout lines name no batch
                      /\ batch[lot] \in {"ACTIVE", "LAPSED"}
  /\ \E items \in [Lots -> 0..quantity] :
        /\ Allocates(lot, quantity, items)
        /\ ReserveStock(items)
        /\ reservation' = [reservation EXCEPT ![o] = [status |-> "ACTIVE", items |-> items]]
  /\ order' = [order EXCEPT ![o] =
                 [status |-> "CONFIRMED", invoice |-> None, lot |-> lot, quantity |-> quantity]]
  /\ UNCHANGED <<invoice, batch, request, manual>>

SetOrderStatus(o, status) == order' = [order EXCEPT ![o].status = status]

Settle(o, status) == reservation' = [reservation EXCEPT ![o].status = status]

\* updateStatus to PICKING, PACKED or DELIVERED.
Progress(o, status) ==
  /\ Source[o] \in {"STOREFRONT", "DNP"}
  /\ <<order[o].status, status>> \in
        {<<"CONFIRMED", "PICKING">>, <<"PICKING", "PACKED">>, <<"DISPATCHED", "DELIVERED">>}
  /\ SetOrderStatus(o, status)
  /\ UNCHANGED <<ledgerVars, reservation, invoice, batch, request, manual>>

\* consumeForOnlineDispatch: consumes the ACTIVE reservation, passes if an
\* earlier call consumed it, refuses if it was released.
ConsumeForOnlineDispatch(o) ==
  \/ /\ reservation[o].status = "ACTIVE"
     /\ PostEvent(DispatchKey(o), Movements("RESERVED", Outbound(reservation[o].items)))
     /\ Settle(o, "CONSUMED")
  \/ /\ reservation[o].status = "CONSUMED"
     /\ UNCHANGED <<ledgerVars, reservation>>

\* Mutant: the status of the linked invoice is not looked at.
DispatchUnposted(o) ==
  /\ order[o].status \in {"PACKED", "INVOICED"}
  /\ \/ Source[o] = "STOREFRONT" /\ ConsumeForOnlineDispatch(o)
     \/ /\ Source[o] = "DNP"
        /\ order[o].invoice # None
        /\ UNCHANGED <<ledgerVars, reservation>>
  /\ SetOrderStatus(o, "DISPATCHED")
  /\ UNCHANGED <<invoice, batch, request, manual>>

\* updateStatus to DISPATCHED: a storefront order takes its stock out now, a
\* retailer's order needs a posted invoice, which took it out.
Dispatch(o) ==
  /\ order[o].status \in {"PACKED", "INVOICED"}
  /\ \/ Source[o] = "STOREFRONT" /\ ConsumeForOnlineDispatch(o)
     \/ /\ Source[o] = "DNP"
        /\ order[o].invoice # None
        /\ invoice[order[o].invoice].status = "POSTED"
        /\ UNCHANGED <<ledgerVars, reservation>>
  /\ SetOrderStatus(o, "DISPATCHED")
  /\ UNCHANGED <<invoice, batch, request, manual>>

\* Mutant: the reservation is left ACTIVE after its stock was released.
CancelOrderUnsettled(o) ==
  /\ order[o].status \in {"CONFIRMED", "PICKING", "PACKED"}
  /\ IF reservation[o].status = "ACTIVE"
     THEN ReleaseStock(reservation[o].items) /\ UNCHANGED reservation
     ELSE UNCHANGED <<ledgerVars, reservation>>
  /\ SetOrderStatus(o, "CANCELLED")
  /\ UNCHANGED <<invoice, batch, request, manual>>

\* cancel: releases whatever reservation is still ACTIVE.
CancelOrder(o) ==
  /\ order[o].status \in {"CONFIRMED", "PICKING", "PACKED"}
  /\ IF reservation[o].status = "ACTIVE"
     THEN ReleaseStock(reservation[o].items) /\ Settle(o, "RELEASED")
     ELSE UNCHANGED <<ledgerVars, reservation>>
  /\ SetOrderStatus(o, "CANCELLED")
  /\ UNCHANGED <<invoice, batch, request, manual>>

-----------------------------------------------------------------------------
(* convertToInvoice: read the order, create the invoice, link it.  The     *)
(* three steps are separate database calls.                                *)

Begin(r, step, o, i) ==
  /\ request[r].at = "idle"
  /\ request' = [request EXCEPT ![r] = [at |-> step, order |-> o, invoice |-> i]]

Finish(r) == request' = [request EXCEPT ![r] = Idle]

StartConversion(r, o) ==
  /\ \/ order[o].status = "CONFIRMED"
     \/ Source[o] = "DNP" /\ order[o].status = "PACKED"
  /\ order[o].invoice = None
  /\ Begin(r, "draftInvoice", o, None)
  /\ UNCHANGED <<ledgerVars, order, reservation, invoice, batch, manual>>

\* A new DRAFT invoice.  draftedFor is not stored by the code (it links from
\* the order): it records for whom convertToInvoice created the invoice.
Draft(i, o, lot, quantity) ==
  /\ invoice[i].status = "NONE"
  /\ invoice' = [invoice EXCEPT ![i] =
       [status |-> "DRAFT", paid |-> FALSE, draftedFor |-> o, lot |-> lot, quantity |-> quantity]]

\* The invoice line copies the order's line: its batchId is null when the
\* reservation was allocated over several batches.
DraftConversion(r, i) ==
  LET o == request[r].order IN
  /\ request[r].at = "draftInvoice"
  /\ Draft(i, o, order[o].lot, order[o].quantity)
  /\ request' = [request EXCEPT ![r].at = "linkInvoice", ![r].invoice = i]
  /\ UNCHANGED <<ledgerVars, order, reservation, batch, manual>>

\* Sets the status and the link whatever the order has become meanwhile.
LinkConversion(r) ==
  LET o == request[r].order IN
  /\ request[r].at = "linkInvoice"
  /\ order' = [order EXCEPT ![o].status = "INVOICED", ![o].invoice = request[r].invoice]
  /\ Finish(r)
  /\ UNCHANGED <<ledgerVars, reservation, invoice, batch, manual>>

-----------------------------------------------------------------------------
(* Invoices.                                                               *)

\* POST /invoices: an invoice of its own, for any lot.
CreateInvoice(i, lot, quantity) ==
  /\ Draft(i, None, lot, quantity)
  /\ UNCHANGED <<ledgerVars, order, reservation, batch, request, manual>>

SetInvoiceStatus(i, status) == invoice' = [invoice EXCEPT ![i].status = status]

LinkedOrders(i) == {o \in Orders : order[o].invoice = i}

\* Mutant: consumes the items of a reservation in any status.
ConsumeForOrderUnchecked(o, i) ==
  /\ PostEvent(ConsumeKey(i), Movements("RESERVED", Outbound(reservation[o].items)))
  /\ Settle(o, "CONSUMED")

\* consumeForOrder: refuses unless the order's reservation is ACTIVE.
ConsumeForOrder(o, i) ==
  /\ reservation[o].status = "ACTIVE"
  /\ PostEvent(ConsumeKey(i), Movements("RESERVED", Outbound(reservation[o].items)))
  /\ Settle(o, "CONSUMED")

\* post: takes the stock out of the linked order's reservation, else out of
\* AVAILABLE.
PostInvoice(i) ==
  /\ invoice[i].status = "DRAFT"
  /\ invoice[i].lot # NoBatch => batch[invoice[i].lot] # "BLOCKED"
  /\ \/ \E o \in LinkedOrders(i) : ConsumeForOrder(o, i)
     \/ /\ LinkedOrders(i) = {}
        /\ PostEvent(PostKey(i), Movements("AVAILABLE", OfLot(invoice[i].lot, - invoice[i].quantity)))
        /\ UNCHANGED reservation
  /\ SetInvoiceStatus(i, "POSTED")
  /\ UNCHANGED <<order, batch, request, manual>>

\* Mutant: void accepts any invoice that is not VOIDED.
StartVoidOfAny(r, i) ==
  /\ invoice[i].status \notin {"NONE", "VOIDED"}
  /\ Begin(r, "reverse", None, i)
  /\ UNCHANGED <<ledgerVars, order, reservation, invoice, batch, manual>>

\* void: reads the status, reverses the stock in a transaction of its own,
\* then writes the status.
StartVoid(r, i) ==
  /\ invoice[i].status = "POSTED"
  /\ Begin(r, "reverse", None, i)
  /\ UNCHANGED <<ledgerVars, order, reservation, invoice, batch, manual>>

\* The reversal puts the invoice line back to AVAILABLE, in the line's lot.
ReverseInvoice(r) ==
  LET i == request[r].invoice IN
  /\ request[r].at = "reverse"
  /\ PostEvent(VoidKey(i), Movements("AVAILABLE", OfLot(invoice[i].lot, invoice[i].quantity)))
  /\ request' = [request EXCEPT ![r].at = "markVoided"]
  /\ UNCHANGED <<order, reservation, invoice, batch, manual>>

MarkVoided(r) ==
  /\ request[r].at = "markVoided"
  /\ SetInvoiceStatus(request[r].invoice, "VOIDED")
  /\ Finish(r)
  /\ UNCHANGED <<ledgerVars, order, reservation, batch, manual>>

\* cancel: reads the status, then writes CANCELLED whatever it is by then.
StartInvoiceCancellation(r, i) ==
  /\ invoice[i].status = "DRAFT"
  /\ Begin(r, "markCancelled", None, i)
  /\ UNCHANGED <<ledgerVars, order, reservation, invoice, batch, manual>>

MarkCancelled(r) ==
  /\ request[r].at = "markCancelled"
  /\ SetInvoiceStatus(request[r].invoice, "CANCELLED")
  /\ Finish(r)
  /\ UNCHANGED <<ledgerVars, order, reservation, batch, manual>>

\* payment.create for the whole outstanding balance, which it takes of an
\* invoice in any status; a part payment leaves the status alone.
PayInvoice(i) ==
  /\ invoice[i].status # "NONE" /\ ~ invoice[i].paid
  /\ invoice' = [invoice EXCEPT ![i].status = "PAID", ![i].paid = TRUE]
  /\ UNCHANGED <<ledgerVars, order, reservation, batch, request, manual>>

-----------------------------------------------------------------------------
(* Batches, reservations by hand, crashes.                                 *)

\* The expiry date of b passes, after those of the batches ranked before it.
Lapse(b) ==
  /\ batch[b] = "ACTIVE"
  /\ \A early \in Batches : Rank[early] < Rank[b] => batch[early] # "ACTIVE"
  /\ batch' = [batch EXCEPT ![b] = "LAPSED"]
  /\ UNCHANGED <<ledgerVars, order, reservation, invoice, request, manual>>

\* blockBatch, or scanExpiringBatches finding b expired.
BlockBatch(b) ==
  /\ batch[b] # "BLOCKED"
  /\ batch' = [batch EXCEPT ![b] = "BLOCKED"]
  /\ UNCHANGED <<ledgerVars, order, reservation, invoice, request, manual>>

\* updateBatch: an administrator writes a status, or an expiry date (one that
\* leaves the batches in the same order), whatever the batch was.
UpdateBatch(b, status) ==
  /\ batch' = [batch EXCEPT ![b] = status]
  /\ UNCHANGED <<ledgerVars, order, reservation, invoice, request, manual>>

\* POST /inventory/reservations/reserve and /release: reserveStock and
\* releaseStock in a transaction of their own, with no StockReservation.
ReserveByHand(l, quantity) ==
  /\ manual[l] + quantity <= MaxManual
  /\ ReserveStock(OfLot(l, quantity))
  /\ manual' = [manual EXCEPT ![l] = @ + quantity]
  /\ UNCHANGED <<order, reservation, invoice, batch, request>>

ReleaseByHand(l, quantity) ==
  /\ manual[l] - quantity >= - MaxManual
  /\ ReleaseStock(OfLot(l, quantity))
  /\ manual' = [manual EXCEPT ![l] = @ - quantity]
  /\ UNCHANGED <<order, reservation, invoice, batch, request>>

\* The server stops between two database calls of a request, or the next
\* call fails (a duplicate key, a lost connection): the rest never happens.
Crash(r) ==
  /\ request[r].at # "idle"
  /\ Finish(r)
  /\ UNCHANGED <<ledgerVars, order, reservation, invoice, batch, manual>>

-----------------------------------------------------------------------------

OrderStep ==
  \E o \in Orders :
    \/ \E lot \in Lots, q \in 1..MaxQuantity : CreateOrder(o, lot, q)
    \/ \E status \in OrderStatus : Progress(o, status)
    \/ Dispatch(o)
    \/ CancelOrder(o)

InvoiceStep ==
  \E i \in Invoices :
    \/ \E lot \in Lots, q \in 1..MaxQuantity : CreateInvoice(i, lot, q)
    \/ PostInvoice(i)
    \/ PayInvoice(i)

RequestStepTaken ==
  \E r \in Requests :
    \/ \E o \in Orders : StartConversion(r, o)
    \/ \E i \in Invoices : DraftConversion(r, i)
    \/ LinkConversion(r)
    \/ \E i \in Invoices : StartVoid(r, i)
    \/ ReverseInvoice(r)
    \/ MarkVoided(r)
    \/ \E i \in Invoices : StartInvoiceCancellation(r, i)
    \/ MarkCancelled(r)
    \/ Crash(r)

StockStep ==
  \/ \E b \in Batches : Lapse(b) \/ BlockBatch(b) \/ \E status \in BatchStatus : UpdateBatch(b, status)
  \/ \E l \in Lots, q \in 1..MaxQuantity : ReserveByHand(l, q) \/ ReleaseByHand(l, q)

Next == OrderStep \/ InvoiceStep \/ RequestStepTaken \/ StockStep

Spec == Init /\ [][Next]_vars

-----------------------------------------------------------------------------
(* Properties.                                                             *)

\* The type invariant.
TypeOK ==
  /\ LedgerTypeOK
  /\ order \in [Orders -> [status : OrderStatus, invoice : Invoices \cup {None},
                           lot : Lots, quantity : Nat]]
  /\ reservation \in [Orders -> [status : ReservationStatus, items : [Lots -> Nat]]]
  /\ invoice \in [Invoices -> [status : InvoiceStatus, paid : BOOLEAN,
                               draftedFor : Orders \cup {None}, lot : Lots, quantity : Nat]]
  /\ batch \in [Batches -> BatchStatus]
  /\ request \in [Requests -> [at : RequestStep, order : Orders \cup {None},
                               invoice : Invoices \cup {None}]]
  /\ manual \in [Lots -> Int]

\* The quantity lot l owes to reservations that are ACTIVE.
ActivelyReserved(l) ==
  SumFunction([o \in Orders |->
    IF reservation[o].status = "ACTIVE" THEN reservation[o].items[l] ELSE 0])

\* The RESERVED row of a lot is exactly what the ACTIVE reservations and the
\* reservations by hand add up to: no order of create, cancel, dispatch,
\* conversion and posting loses or invents reserved stock.
ReservedRowsAddUp ==
  \A l \in Lots : snapshot[l]["RESERVED"] = ActivelyReserved(l) + manual[l]

\* The inventory events that consume the reservation of o.
ConsumptionsOf(o) ==
  {DispatchKey(o)} \cup {ConsumeKey(i) : i \in {j \in Invoices : invoice[j].draftedFor = o}}

\* A reservation is CONSUMED exactly when one event, of an online dispatch or
\* of one invoice of the order, took its stock out: the two paths never both
\* run, however conversion, posting and dispatch interleave.
ConsumedExactlyOnce ==
  \A o \in Orders :
    /\ reservation[o].status = "CONSUMED" <=> ConsumptionsOf(o) \cap posted # {}
    /\ \A e1, e2 \in ConsumptionsOf(o) \cap posted : e1 = e2

\* An order that is still open holds an ACTIVE reservation, and a cancelled
\* one has given its stock back.
OpenOrdersHoldStock ==
  \A o \in Orders :
    /\ order[o].status \in {"CONFIRMED", "PICKING", "PACKED"} => reservation[o].status = "ACTIVE"
    /\ order[o].status = "CANCELLED" => reservation[o].status = "RELEASED"

\* Goods that left the warehouse were taken out of stock: by a consumption of
\* the order's reservation, or by an invoice created for the order.
ShippedWasDeducted ==
  \A o \in Orders : order[o].status \in {"DISPATCHED", "DELIVERED"} =>
    \/ reservation[o].status = "CONSUMED"
    \/ \E i \in Invoices : invoice[i].draftedFor = o /\ PostKey(i) \in posted

\* The stock events an invoice may cause: none before it is posted, one
\* deduction when it is, by one of the two paths, and a reversal only of an
\* invoice that was deducted.
InvoiceStockEvents ==
  \A i \in Invoices :
    /\ invoice[i].status \in {"NONE", "DRAFT"} => {PostKey(i), ConsumeKey(i)} \cap posted = {}
    /\ invoice[i].status = "POSTED" => {PostKey(i), ConsumeKey(i)} \cap posted # {}
    /\ ~ ({PostKey(i), ConsumeKey(i)} \subseteq posted)
    /\ VoidKey(i) \in posted => {PostKey(i), ConsumeKey(i)} \cap posted # {}

\* A reservation that was released or consumed stays as it is: no retry,
\* late conversion or second cancellation settles it again.
SettledIsFinal ==
  [][\A o \in Orders : reservation[o].status \in {"RELEASED", "CONSUMED"} =>
       reservation'[o] = reservation[o]]_vars

\* The on-hand stock of the location implements StockBook: reserving and
\* releasing are invisible, and every change of the stock on hand is one
\* sale or one return, each booked once.
Book == INSTANCE StockBook WITH
  BookLots      <- Lots,
  OnHandAtStart <- Opening,
  onHand        <- [l \in Lots |-> snapshot[l]["AVAILABLE"] + snapshot[l]["RESERVED"]],
  entries       <- posted,
  SaleKeys      <- {DispatchKey(o) : o \in Orders} \cup {ConsumeKey(i) : i \in Invoices}
                     \cup {PostKey(i) : i \in Invoices},
  ReturnKeys    <- {VoidKey(i) : i \in Invoices},
  SalesOf       <- LAMBDA k : {ConsumeKey(k[2]), PostKey(k[2])}

StockIsBooked == Book!BookSpec
=============================================================================
