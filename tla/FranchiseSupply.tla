--------------------------- MODULE FranchiseSupply ---------------------------
(***************************************************************************)
(* Supplying franchise stores from the central warehouse.                  *)
(*                                                                         *)
(* A supply order is carried by a sales order of source FRANCHISE: each    *)
(* transition first moves the sales order, in a transaction of its own,    *)
(* and then the supply order.  A request may be overtaken, or stop, in     *)
(* between; the sales order can also be progressed, cancelled or converted *)
(* to an invoice by its own routes, and the invoice posted and voided.     *)
(* Payment and cancellation of an invoice, which move no stock and only    *)
(* take posting and voiding away, are in SalesFulfilment.                  *)
(***************************************************************************)
EXTENDS Integers, Sequences, FiniteSets, Functions

CONSTANTS
  Orders,         \* supply orders; the sales order of o is created with key franchise-supply-o
  StoreOf,        \* StoreOf[o]: the store that asks
  Quantity,       \* Quantity[o]: what it asks for, of one product
  Stores,
  Branches,
  MayClose,       \* bound: the branches that may be closed and opened
  Invoices,       \* invoices made of the sales orders
  OrderOf,        \* OrderOf[i]: the order whose sales order invoice i is made of
  Here,           \* the invoices whose source location is the warehouse's, of those of its branch
  Actors,         \* users who approve
  Requests,       \* requests being served
  Opening,        \* what the central warehouse has
  None

ASSUME SupplyAssumption ==
  /\ StoreOf \in [Orders -> Stores]
  /\ Quantity \in [Orders -> Nat \ {0}]
  /\ OrderOf \in [Invoices -> Orders] /\ Here \subseteq Invoices
  /\ MayClose \subseteq Branches
  /\ Opening \in Nat
  /\ None \notin Branches \cup Actors \cup Invoices

ASSUME FinitelyManyOrders == IsFiniteSet(Orders) /\ IsFiniteSet(Invoices)

VARIABLES
  supply,       \* status of each supply order, and whether it names its sales order
  history,      \* the toStatus of its FranchiseSupplyOrderEvents
  sales,        \* status of the sales order
  createdBy,    \* the actor in the hash of the sales order's idempotency key
  reservation,  \* status of the sales order's reservation
  available, reserved,  \* the warehouse's stock
  store,        \* branch of each store and branch of its inventory location
  atStore,      \* stock at each store's location
  receipts,     \* franchise-receipt keys known to the ledger
  open,         \* active branches
  invoice,      \* status of each invoice
  link,         \* the invoice each sales order names
  sale,         \* what the posting of each invoice took its goods from
  returned,     \* invoices whose invoice-void key the ledger knows
  request       \* where each request stands and what it has read

warehouse == <<available, reserved, reservation>>
stores == <<store, atStore, receipts, open>>

invoices == <<invoice, link, sale, returned>>

vars == <<supply, history, sales, createdBy, warehouse, stores, invoices, request>>

Lifecycle == <<"REQUESTED", "APPROVED", "PICKING", "PACKED", "DISPATCHED", "RECEIVED">>

SupplyStatus == {"NONE"} \cup Range(Lifecycle)

SalesStatus == {"NONE", "CONFIRMED", "INVOICED", "PICKING", "PACKED", "DISPATCHED", "DELIVERED", "CANCELLED"}

ReservationStatus == {"NONE", "ACTIVE", "CONSUMED", "RELEASED"}

\* pick, pack and dispatch: from, to; the sales order's status is called the same.
Steps == {<<"APPROVED", "PICKING">>, <<"PICKING", "PACKED">>, <<"PACKED", "DISPATCHED">>}

InvoiceStatus == {"NONE", "DRAFT", "POSTED", "VOIDED"}

Sources == {"NONE", "RESERVATION", "SHELF"}

Idle == [at |-> "idle"]

\* "create" and "link" approve, "progress" and "follow" pick, pack or dispatch,
\* "assign" gives a store a branch, "convert" makes an invoice of the sales order.
RequestType ==
  {Idle}
    \cup [at : {"create", "link"}, order : Orders, actor : Actors]
    \cup [at : {"progress", "follow"}, order : Orders, step : Steps]
    \cup [at : {"assign"}, store : Stores, branch : Branches]
    \cup [at : {"convert"}, invoice : Invoices]

TypeOK ==
  /\ supply \in [Orders -> [status : SupplyStatus, linked : BOOLEAN]]
  /\ history \in [Orders -> Seq(SupplyStatus)]
  /\ sales \in [Orders -> SalesStatus]
  /\ createdBy \in [Orders -> Actors \cup {None}]
  /\ reservation \in [Orders -> ReservationStatus]
  /\ available \in Nat /\ reserved \in Nat
  /\ store \in [Stores -> [branch : Branches \cup {None}, location : Branches \cup {None}]]
  /\ atStore \in [Stores -> Nat]
  /\ receipts \subseteq Orders
  /\ open \subseteq Branches
  /\ invoice \in [Invoices -> InvoiceStatus] /\ link \in [Orders -> Invoices \cup {None}]
  /\ sale \in [Invoices -> Sources] /\ returned \subseteq Invoices
  /\ request \in [Requests -> RequestType]

\* Stores older than the branch column have none.
Init ==
  /\ supply = [o \in Orders |-> [status |-> "NONE", linked |-> FALSE]]
  /\ history = [o \in Orders |-> << >>]
  /\ sales = [o \in Orders |-> "NONE"]
  /\ createdBy = [o \in Orders |-> None]
  /\ reservation = [o \in Orders |-> "NONE"]
  /\ available = Opening /\ reserved = 0
  /\ store \in [Stores -> [branch : Branches \cup {None}, location : {None}]]
  /\ atStore = [s \in Stores |-> 0]
  /\ receipts = {}
  /\ open = Branches
  /\ invoice = [i \in Invoices |-> "NONE"] /\ link = [o \in Orders |-> None]
  /\ sale = [i \in Invoices |-> "NONE"] /\ returned = {}
  /\ request = [r \in Requests |-> Idle]

Begin(r, q) == request[r].at = "idle" /\ request' = [request EXCEPT ![r] = q]

Continue(r, q) == request' = [request EXCEPT ![r] = q]

End(r) == request' = [request EXCEPT ![r] = Idle]

\* The supply order changes status, with its event.
Enter(o, to, linked) ==
  /\ supply' = [supply EXCEPT ![o] = [status |-> to, linked |-> linked]]
  /\ history' = [history EXCEPT ![o] = Append(history[o], to)]

CreateSupplyOrder(o) ==
  /\ supply[o].status = "NONE"
  /\ Enter(o, "REQUESTED", FALSE)
  /\ UNCHANGED <<sales, createdBy, warehouse, stores, invoices, request>>

-----------------------------------------------------------------------------
(* The sales order.                                                        *)

\* SalesOrderService.create with key franchise-supply-o, for the first time.
CreateOnline(o, actor) ==
  /\ sales[o] = "NONE"
  /\ available >= Quantity[o]
  /\ available' = available - Quantity[o]
  /\ reserved' = reserved + Quantity[o]
  /\ reservation' = [reservation EXCEPT ![o] = "ACTIVE"]
  /\ sales' = [sales EXCEPT ![o] = "CONFIRMED"]
  /\ createdBy' = [createdBy EXCEPT ![o] = actor]

\* Mutant: dispatching takes nothing out of the reservation.
ConsumeNothing(o) ==
  /\ reservation[o] \in {"ACTIVE", "CONSUMED"}
  /\ UNCHANGED warehouse

ConsumeForOnlineDispatch(o) ==
  \/ /\ reservation[o] = "ACTIVE"
     /\ reservation' = [reservation EXCEPT ![o] = "CONSUMED"]
     /\ reserved' = reserved - Quantity[o]
     /\ UNCHANGED available
  \/ /\ reservation[o] = "CONSUMED"
     /\ UNCHANGED warehouse

ValidTransitions ==
  {<<"CONFIRMED", "PICKING">>, <<"PICKING", "PACKED">>, <<"PACKED", "DISPATCHED">>,
   <<"INVOICED", "DISPATCHED">>, <<"DISPATCHED", "DELIVERED">>}

\* Mutant: asking for the status the order has is an error.
MayNewlyBecome(o, to) ==
  /\ <<sales[o], to>> \in ValidTransitions
  /\ to = "DISPATCHED" => reservation[o] \in {"ACTIVE", "CONSUMED"}

\* Mutant: the transition is not checked.
MayBecomeAnything(o, to) ==
  /\ sales[o] \notin {"NONE", "CANCELLED"}
  /\ to = "DISPATCHED" => reservation[o] \in {"ACTIVE", "CONSUMED"}

MayBecome(o, to) ==
  \/ sales[o] = to
  \/ /\ <<sales[o], to>> \in ValidTransitions
     /\ to = "DISPATCHED" => reservation[o] \in {"ACTIVE", "CONSUMED"}

\* updateStatus of the sales order; asking for the status it has is no error.
UpdateStatus(o, to) ==
  /\ MayBecome(o, to)
  /\ sales' = [sales EXCEPT ![o] = to]
  /\ IF sales[o] # to /\ to = "DISPATCHED" THEN ConsumeForOnlineDispatch(o) ELSE UNCHANGED warehouse

\* By the route of the sales orders, once the supply order names the sales order.
ProgressDirectly(o) ==
  /\ supply[o].linked
  /\ \E to \in {"PICKING", "PACKED", "DISPATCHED", "DELIVERED"} : sales[o] # to /\ UpdateStatus(o, to)
  /\ UNCHANGED <<supply, history, createdBy, stores, invoices, request>>

CancelSalesOrder(o) ==
  /\ sales[o] \in {"CONFIRMED", "PICKING", "PACKED"}
  /\ sales' = [sales EXCEPT ![o] = "CANCELLED"]
  /\ IF reservation[o] = "ACTIVE"
     THEN /\ reservation' = [reservation EXCEPT ![o] = "RELEASED"]
          /\ available' = available + Quantity[o]
          /\ reserved' = reserved - Quantity[o]
     ELSE UNCHANGED warehouse
  /\ UNCHANGED <<supply, history, createdBy, stores, invoices, request>>

-----------------------------------------------------------------------------
(* Invoices made of the sales order.                                       *)

\* convertToInvoice: reads the order and creates a draft, which nobody knows of
\* yet and which is left behind when the server stops.
StartConversion(r, i) ==
  /\ sales[OrderOf[i]] = "CONFIRMED" /\ link[OrderOf[i]] = None
  /\ invoice[i] = "NONE"
  /\ invoice' = [invoice EXCEPT ![i] = "DRAFT"]
  /\ Begin(r, [at |-> "convert", invoice |-> i])
  /\ UNCHANGED <<supply, history, sales, createdBy, warehouse, stores, link, sale, returned>>

\* It writes INVOICED and the link over whatever the order has become, another
\* conversion's link included.
LinkConversion(r) ==
  LET i == request[r].invoice IN
  /\ request[r].at = "convert"
  /\ sales' = [sales EXCEPT ![OrderOf[i]] = "INVOICED"]
  /\ link' = [link EXCEPT ![OrderOf[i]] = i]
  /\ End(r)
  /\ UNCHANGED <<supply, history, createdBy, warehouse, stores, invoice, sale, returned>>

\* What a movement at the invoice's source location makes of the warehouse's stock.
Shelve(i, change) == available' = IF i \in Here THEN available + change ELSE available

\* post of an invoice a sales order names: consumes its reservation, if ACTIVE.
PostLinked(i, o) ==
  /\ reservation[o] = "ACTIVE"
  /\ ConsumeForOnlineDispatch(o)
  /\ sale' = [sale EXCEPT ![i] = "RESERVATION"]

\* post of one that none names: takes the goods off the shelf, if there are any.
PostUnlinked(i) ==
  /\ i \in Here => available >= Quantity[OrderOf[i]]
  /\ Shelve(i, - Quantity[OrderOf[i]])
  /\ UNCHANGED <<reserved, reservation>>
  /\ sale' = [sale EXCEPT ![i] = "SHELF"]

PostInvoice(i) ==
  /\ invoice[i] = "DRAFT"
  /\ \/ \E o \in Orders : link[o] = i /\ PostLinked(i, o)
     \/ (\A o \in Orders : link[o] # i) /\ PostUnlinked(i)
  /\ invoice' = [invoice EXCEPT ![i] = "POSTED"]
  /\ UNCHANGED <<supply, history, sales, createdBy, stores, link, returned, request>>

\* void puts the goods on the shelf, once for its key, whatever they were taken
\* from; the reservation stays CONSUMED.
ReverseInvoice(i) ==
  /\ invoice[i] = "POSTED" /\ i \notin returned
  /\ Shelve(i, Quantity[OrderOf[i]])
  /\ returned' = returned \cup {i}
  /\ UNCHANGED <<supply, history, sales, createdBy, reserved, reservation, stores, invoice, link, sale, request>>

\* And writes the status, in another transaction or in that of a later void.
MarkVoided(i) ==
  /\ invoice[i] = "POSTED" /\ i \in returned
  /\ invoice' = [invoice EXCEPT ![i] = "VOIDED"]
  /\ UNCHANGED <<supply, history, sales, createdBy, warehouse, stores, link, sale, returned, request>>

-----------------------------------------------------------------------------
(* transition: approve.                                                    *)

StartApproval(r, o, actor) ==
  /\ supply[o].status = "REQUESTED"
  /\ Begin(r, [at |-> "create", order |-> o, actor |-> actor])
  /\ UNCHANGED <<supply, history, sales, createdBy, warehouse, stores, invoices>>

\* The sales order is created, or found: the key is accepted again only from
\* the actor who used it first, since its hash covers the salesRepId.
CreateForSupply(r) ==
  LET q == request[r] IN
  /\ q.at = "create"
  /\ \/ CreateOnline(q.order, q.actor)
     \/ createdBy[q.order] = q.actor /\ UNCHANGED <<sales, createdBy, warehouse>>
  /\ Continue(r, [at |-> "link", order |-> q.order, actor |-> q.actor])
  /\ UNCHANGED <<supply, history, stores, invoices>>

\* Mutant: the status is not looked at again.
LinkAlways(r) ==
  LET o == request[r].order IN
  /\ request[r].at = "link"
  /\ Enter(o, "APPROVED", TRUE)
  /\ End(r)
  /\ UNCHANGED <<sales, createdBy, warehouse, stores, invoices>>

LinkSalesOrder(r) ==
  LET o == request[r].order IN
  /\ request[r].at = "link"
  /\ IF supply[o].status = "REQUESTED" THEN Enter(o, "APPROVED", TRUE) ELSE UNCHANGED <<supply, history>>
  /\ End(r)
  /\ UNCHANGED <<sales, createdBy, warehouse, stores, invoices>>

-----------------------------------------------------------------------------
(* transition: pick, pack, dispatch.                                       *)

StartStep(r, o) ==
  /\ supply[o].linked
  /\ \E step \in Steps :
       /\ supply[o].status = step[1]
       /\ Begin(r, [at |-> "progress", order |-> o, step |-> step])
  /\ UNCHANGED <<supply, history, sales, createdBy, warehouse, stores, invoices>>

ProgressSales(r) ==
  LET q == request[r] IN
  /\ q.at = "progress"
  /\ UpdateStatus(q.order, q.step[2])
  /\ Continue(r, [at |-> "follow", order |-> q.order, step |-> q.step])
  /\ UNCHANGED <<supply, history, createdBy, stores, invoices>>

Follow(r) ==
  LET q == request[r] IN
  /\ q.at = "follow"
  /\ IF supply[q.order].status = q.step[1] THEN Enter(q.order, q.step[2], TRUE) ELSE UNCHANGED <<supply, history>>
  /\ End(r)
  /\ UNCHANGED <<sales, createdBy, warehouse, stores, invoices>>

\* Mutant: a store may be given another branch at any time.
Assignable(s, b) == TRUE

KeepsLocation(s, b) == store[s].location = None \/ store[s].branch = b

\* The sales order is short of stock, belongs to another actor's request, or
\* cannot take this step; the store has its stock elsewhere.
Refused(q) ==
  \/ q.at = "create" /\ createdBy[q.order] # q.actor /\ (sales[q.order] # "NONE" \/ available < Quantity[q.order])
  \/ q.at = "progress" /\ ~MayBecome(q.order, q.step[2])
  \/ q.at = "assign" /\ ~KeepsLocation(q.store, q.branch)

Refuse(r) ==
  /\ Refused(request[r])
  /\ End(r)
  /\ UNCHANGED <<supply, history, sales, createdBy, warehouse, stores, invoices>>

\* The server stops between two of a request's transactions.
Crash(r) ==
  /\ request[r].at # "idle"
  /\ End(r)
  /\ UNCHANGED <<supply, history, sales, createdBy, warehouse, stores, invoices>>

-----------------------------------------------------------------------------
(* transition: receive, one transaction; and the stores.                   *)

\* Mutant: one key for all receipts of a store.
KeyOfStore(o) == CHOOSE d \in Orders : StoreOf[d] = StoreOf[o]

ReceiptKey(o) == o

Receivable(o) ==
  /\ supply[o].status = "DISPATCHED" /\ supply[o].linked
  /\ store[StoreOf[o]].branch \in open
  /\ store[StoreOf[o]].location \in {None, store[StoreOf[o]].branch}
  /\ sales[o] \in {"DISPATCHED", "DELIVERED"}
  /\ reservation[o] = "CONSUMED"

Receive(o) ==
  LET s == StoreOf[o] IN
  /\ Receivable(o)
  /\ store' = [store EXCEPT ![s] = [branch |-> store[s].branch, location |-> store[s].branch]]
  /\ IF ReceiptKey(o) \in receipts
     THEN UNCHANGED <<atStore, receipts>>
     ELSE /\ atStore' = [atStore EXCEPT ![s] = atStore[s] + Quantity[o]]
          /\ receipts' = receipts \cup {ReceiptKey(o)}
  /\ sales' = [sales EXCEPT ![o] = "DELIVERED"]
  /\ Enter(o, "RECEIVED", TRUE)
  /\ UNCHANGED <<createdBy, warehouse, open, invoices, request>>

\* The branch is looked up before the transaction that locks the store.
StartAssignment(r, s, b) ==
  /\ b \in open
  /\ Begin(r, [at |-> "assign", store |-> s, branch |-> b])
  /\ UNCHANGED <<supply, history, sales, createdBy, warehouse, stores, invoices>>

AssignStoreBranch(r) ==
  LET q == request[r] IN
  /\ q.at = "assign"
  /\ KeepsLocation(q.store, q.branch)
  /\ store' = [store EXCEPT ![q.store] = [branch |-> q.branch, location |-> store[q.store].location]]
  /\ End(r)
  /\ UNCHANGED <<supply, history, sales, createdBy, warehouse, atStore, receipts, open, invoices>>

\* A branch is closed or opened again.
UpdateBranch(b) ==
  /\ b \in MayClose
  /\ open' = IF b \in open THEN open \ {b} ELSE open \cup {b}
  /\ UNCHANGED <<supply, history, sales, createdBy, warehouse, store, atStore, receipts, invoices, request>>

-----------------------------------------------------------------------------

SupplyStep ==
  \E o \in Orders : CreateSupplyOrder(o) \/ Receive(o)

SalesStep ==
  \E o \in Orders : ProgressDirectly(o) \/ CancelSalesOrder(o)

InvoiceStep ==
  \E i \in Invoices : PostInvoice(i) \/ ReverseInvoice(i) \/ MarkVoided(i)

RequestStep(r) ==
  \/ CreateForSupply(r)
  \/ LinkSalesOrder(r)
  \/ ProgressSales(r)
  \/ Follow(r)
  \/ AssignStoreBranch(r)
  \/ LinkConversion(r)
  \/ Refuse(r)

Next ==
  \/ SupplyStep
  \/ SalesStep
  \/ InvoiceStep
  \/ \E r \in Requests :
       \/ RequestStep(r)
       \/ Crash(r)
       \/ \E o \in Orders :
            \/ \E actor \in Actors : StartApproval(r, o, actor)
            \/ StartStep(r, o)
       \/ \E i \in Invoices : StartConversion(r, i)
       \/ \E s \in Stores, b \in Branches : StartAssignment(r, s, b)
  \/ \E b \in Branches : UpdateBranch(b)

Spec == Init /\ [][Next]_vars

\* A request that is served goes on unless the server stops, and it does not
\* stop at the same place for ever; each of the actors goes on approving what is
\* requested, and the operators go on with every order and store on their lists.
FairSpec ==
  /\ Spec
  /\ \A r \in Requests : /\ WF_vars(RequestStep(r))
                        /\ SF_vars(CreateForSupply(r)) /\ SF_vars(LinkSalesOrder(r))
                        /\ SF_vars(ProgressSales(r)) /\ SF_vars(Follow(r))
                        /\ SF_vars(AssignStoreBranch(r))
  /\ \A o \in Orders :
       /\ \A actor \in Actors : SF_vars(\E r \in Requests : StartApproval(r, o, actor))
       /\ SF_vars(\E r \in Requests : StartStep(r, o))
       /\ WF_vars(Receive(o))
  /\ \A s \in Stores : SF_vars(store[s].branch = None /\ \E r \in Requests, b \in Branches : StartAssignment(r, s, b))

-----------------------------------------------------------------------------
(* Properties.                                                             *)

Total(S) == SumFunctionOnSet(Quantity, S)

With(status) == {o \in Orders : reservation[o] = status}

\* The goods of some of the invoices.
Goods(I) == SumFunctionOnSet([i \in Invoices |-> Quantity[OrderOf[i]]], I)

SoldOffTheShelf == {i \in Here : sale[i] = "SHELF"}

PutBack == {i \in Here : i \in returned}

\* The sales order behind an invoice that sold what was reserved for it.
SoldFromReservation(o) == {i \in Invoices : OrderOf[i] = o /\ sale[i] = "RESERVATION"}

Received == {o \in Orders : supply[o].status = "RECEIVED"}

ReceivedBy(s) == {o \in Received : StoreOf[o] = s}

\* Between approval and receipt nothing is lost or counted twice: the warehouse
\* has reserved what the orders hold; it is short of exactly what the orders and
\* the invoices nobody names took, but for what voided invoices put back; each of
\* those sold what it puts back, and no reservation was sold by two; and a store
\* has what the orders it received were for.
SupplyAddsUp ==
  /\ reserved = Total(With("ACTIVE"))
  /\ available + reserved + Total(With("CONSUMED")) + Goods(SoldOffTheShelf) = Opening + Goods(PutBack)
  /\ \A i \in returned : sale[i] # "NONE"
  /\ \A o \in Orders : \A i, j \in SoldFromReservation(o) : i = j
  /\ \A s \in Stores : atStore[s] = Total(ReceivedBy(s))

\* Whatever reaches the store has left the warehouse.
DispatchedWasDeducted ==
  \A o \in Orders : supply[o].status \in {"DISPATCHED", "RECEIVED"} => reservation[o] = "CONSUMED"

\* However requests for the same step overlap, every step of a supply order is
\* taken and recorded once, in turn.
HistoryIsThePath ==
  \A o \in Orders : \E n \in 0..Len(Lifecycle) :
    /\ history[o] = SubSeq(Lifecycle, 1, n)
    /\ supply[o].status = IF n = 0 THEN "NONE" ELSE Lifecycle[n]

Rank(status) ==
  IF status \in {"APPROVED", "CONFIRMED"} THEN 1
  ELSE IF status = "PICKING" THEN 2
  ELSE IF status = "PACKED" THEN 3
  ELSE IF status \in {"DISPATCHED", "RECEIVED", "DELIVERED"} THEN 4 ELSE 0

\* A supply order is never further than its sales order, unless that was
\* cancelled or invoiced behind its back.
SupplyFollowsSales ==
  \A o \in Orders : sales[o] \notin {"CANCELLED", "INVOICED"} => Rank(supply[o].status) <= Rank(sales[o])

\* A store's stock stays in its branch once it has any.
StoreKeepsItsBranch == [][\A s \in Stores : store[s].location # None => store'[s] = store[s]]_vars

\* Somebody else moved the sales order on, cancelled it or invoiced it.
Overtaken(o) ==
  \/ sales[o] \in {"CANCELLED", "INVOICED"}
  \/ Rank(sales[o]) > Rank(supply[o].status) + 1
  \/ sales[o] = "DELIVERED" /\ supply[o].status = "PACKED"

\* Whatever step a request stopped at, what is requested is received in the end,
\* unless the sales order is overtaken by its own routes.
RequestedIsReceived ==
  \A o \in Orders : supply[o].status = "REQUESTED" ~> (supply[o].status = "RECEIVED" \/ Overtaken(o))
-----------------------------------------------------------------------------
(* The inductive invariant of FranchiseSupplyProofs: what a request relies *)
(* on between its two transactions.                                        *)

\* TypeOK without the quantities.
OrdersTypeOK ==
  /\ supply \in [Orders -> [status : SupplyStatus, linked : BOOLEAN]]
  /\ history \in [Orders -> Seq(SupplyStatus)]
  /\ sales \in [Orders -> SalesStatus]
  /\ createdBy \in [Orders -> Actors \cup {None}]
  /\ reservation \in [Orders -> ReservationStatus]
  /\ store \in [Stores -> [branch : Branches \cup {None}, location : Branches \cup {None}]]
  /\ request \in [Requests -> RequestType]

\* The sales order is at least at rank n, or was taken over: it never falls back.
Reached(o, n) == sales[o] \in {"CANCELLED", "INVOICED"} \/ Rank(sales[o]) >= n

\* A supply order without a sales order has neither stock nor an actor.
UnplacedHoldsNothing ==
  \A o \in Orders : sales[o] = "NONE" => reservation[o] = "NONE" /\ createdBy[o] = None

ShippedIsConsumed ==
  \A o \in Orders : sales[o] \in {"DISPATCHED", "DELIVERED"} => reservation[o] = "CONSUMED"

\* What the first transaction of a request has done holds when the second begins.
Backed(q) ==
  /\ q.at = "link" => Reached(q.order, 1)
  /\ q.at = "follow" => /\ Reached(q.order, Rank(q.step[2]))
                        /\ q.step[2] = "DISPATCHED" => reservation[q.order] = "CONSUMED"

RequestsAreBacked == \A r \in Requests : Backed(request[r])

SupplyInv ==
  /\ OrdersTypeOK
  /\ UnplacedHoldsNothing /\ ShippedIsConsumed
  /\ RequestsAreBacked
  /\ SupplyFollowsSales /\ DispatchedWasDeducted /\ HistoryIsThePath

\* Only posting sells, an invoice sells before it is voided, and the order it
\* took a reservation of is its own.
InvoicesInv ==
  /\ invoice \in [Invoices -> InvoiceStatus] /\ link \in [Orders -> Invoices \cup {None}]
  /\ sale \in [Invoices -> Sources] /\ returned \subseteq Invoices
  /\ \A o \in Orders : link[o] # None => OrderOf[link[o]] = o
  /\ \A i \in Invoices : invoice[i] \in {"NONE", "DRAFT"} <=> sale[i] = "NONE"
  /\ \A i \in returned : sale[i] # "NONE"
  /\ \A i \in Invoices : sale[i] = "RESERVATION" => reservation[OrderOf[i]] = "CONSUMED"
  /\ \A o \in Orders : \A i, j \in SoldFromReservation(o) : i = j

\* What the warehouse and the stores have, and what the orders and invoices
\* account for.
WarehouseAddsUp ==
  /\ available \in Nat
  /\ reserved = Total(With("ACTIVE"))
  /\ available + reserved + Total(With("CONSUMED")) + Goods(SoldOffTheShelf) = Opening + Goods(PutBack)

\* A receipt is in the ledger only for an order that is RECEIVED.
StoresAddUp ==
  /\ receipts \subseteq Received
  /\ atStore = [s \in Stores |-> Total(ReceivedBy(s))]

StockInv == SupplyInv /\ InvoicesInv /\ WarehouseAddsUp /\ StoresAddUp

=============================================================================
