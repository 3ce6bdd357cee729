------------------------ MODULE SalesFulfilmentProofs ------------------------
(***************************************************************************)
(* The inductive invariant of SalesFulfilment, for every set of orders,    *)
(* invoices, requests, lots and quantities, and what follows from it; that *)
(* the RESERVED rows add up; and that the allocation loop finds the        *)
(* allocation reserveSalesOrderItem is meant to make.                      *)
(***************************************************************************)
EXTENDS SalesFulfilmentInvariant, FefoAllocation, InventoryLedgerProofs, SumTheorems

-----------------------------------------------------------------------------
(* The operations on tables.                                               *)

\* Idempotency keys of different events differ.
LEMMA KeysDiffer ==
  ASSUME NEW x, NEW y
  PROVE  /\ DispatchKey(x) # ConsumeKey(y) /\ DispatchKey(x) # PostKey(y) /\ DispatchKey(x) # VoidKey(y)
         /\ ConsumeKey(x) # PostKey(y) /\ ConsumeKey(x) # VoidKey(y) /\ PostKey(x) # VoidKey(y)
         /\ DispatchKey(x) = DispatchKey(y) => x = y
         /\ ConsumeKey(x) = ConsumeKey(y) => x = y
         /\ PostKey(x) = PostKey(y) => x = y
         /\ VoidKey(x) = VoidKey(y) => x = y
BY DEF DispatchKey, ConsumeKey, PostKey, VoidKey

\* What each action needs of the types it does not change.
LEMMA LedgerKept ==
  ASSUME LedgerTypeOK, SnapshotMatchesMovements, UNCHANGED ledgerVars
  PROVE  LedgerTypeOK' /\ SnapshotMatchesMovements'
BY DEF ledgerVars, LedgerTypeOK, SnapshotMatchesMovements

\* A quantity of one lot is a quantity per lot.
LEMMA OfLotType ==
  ASSUME NEW lot, NEW q \in Int
  PROVE  /\ OfLot(lot, q) \in [Lots -> Int]
         /\ q \in Nat => OfLot(lot, q) \in [Lots -> Nat]
BY DEF OfLot

\* What leaves is a quantity per lot.
LEMMA OutboundType ==
  ASSUME NEW items \in [Lots -> Nat]
  PROVE  Outbound(items) \in [Lots -> Int]
BY DEF Outbound

\* Settling a reservation keeps the reservations well typed.
LEMMA SettleType ==
  ASSUME TypeOK, NEW o \in Orders, NEW status \in ReservationStatus, Settle(o, status)
  PROVE  reservation' \in [Orders -> [status : ReservationStatus, items : [Lots -> Nat]]]
BY DEF TypeOK, Settle

\* Writing an order's status keeps the orders well typed.
LEMMA SetOrderStatusType ==
  ASSUME TypeOK, NEW o \in Orders, NEW status \in OrderStatus, SetOrderStatus(o, status)
  PROVE  order' \in [Orders -> [status : OrderStatus, invoice : Invoices \cup {None},
                                lot : Lots, quantity : Nat]]
BY DEF TypeOK, SetOrderStatus

\* Linking an invoice keeps the orders well typed.
LEMMA LinkType ==
  ASSUME TypeOK, NEW o \in Orders, NEW i \in Invoices,
         order' = [order EXCEPT ![o].status = "INVOICED", ![o].invoice = i]
  PROVE  order' \in [Orders -> [status : OrderStatus, invoice : Invoices \cup {None},
                                lot : Lots, quantity : Nat]]
<1> DEFINE Links == Invoices \cup {None}
<1>1. order \in [Orders -> [status : OrderStatus, invoice : Links, lot : Lots, quantity : Nat]]
  BY DEF TypeOK
<1>2. i \in Links /\ "INVOICED" \in OrderStatus
  BY DEF OrderStatus
<1> HIDE DEF Links
<1>3. order' \in [Orders -> [status : OrderStatus, invoice : Links, lot : Lots, quantity : Nat]]
  BY <1>1, <1>2
<1> QED
  BY <1>3 DEF Links

\* Writing an invoice's status keeps the invoices well typed.
LEMMA SetInvoiceStatusType ==
  ASSUME TypeOK, NEW i, NEW status \in InvoiceStatus, SetInvoiceStatus(i, status)
  PROVE  invoice' \in [Invoices -> [status : InvoiceStatus, paid : BOOLEAN,
                                    draftedFor : Orders \cup {None}, lot : Lots, quantity : Nat]]
BY DEF TypeOK, SetInvoiceStatus

\* A request that ends leaves the requests well typed.
LEMMA FinishType ==
  ASSUME TypeOK, NEW r \in Requests, Finish(r)
  PROVE  request' \in [Requests -> [at : RequestStep, order : Orders \cup {None},
                                    invoice : Invoices \cup {None}]]
BY DEF TypeOK, Finish, Idle, RequestStep

\* A request that begins leaves the requests well typed.
LEMMA BeginType ==
  ASSUME TypeOK, NEW r \in Requests, NEW step \in RequestStep,
         NEW o \in Orders \cup {None}, NEW i \in Invoices \cup {None}, Begin(r, step, o, i)
  PROVE  request' \in [Requests -> [at : RequestStep, order : Orders \cup {None},
                                    invoice : Invoices \cup {None}]]
BY DEF TypeOK, Begin

-----------------------------------------------------------------------------
(* Types, and the agreement of the snapshot with the log.                  *)

LedgerRight == LedgerTypeOK /\ SnapshotMatchesMovements

\* The initial states are well typed, and the snapshot matches the empty log.
LEMMA InitTyped ==
  ASSUME Init
  PROVE  TypeOK /\ SnapshotMatchesMovements
<1>1. LedgerRight
  BY LedgerInitRight DEF Init, LedgerRight
<1> QED
  BY <1>1, FulfilmentAssumption
  DEF Init, TypeOK, LedgerRight, OrderStatus, ReservationStatus, InvoiceStatus, BatchStatus,
      RequestStep, Idle, Batches

\* Consuming a reservation, by either path, keeps ledger and reservations
\* well typed.
LEMMA ConsumptionTyped ==
  ASSUME TypeOK, SnapshotMatchesMovements, NEW o \in Orders, NEW key,
         PostEvent(key, Movements("RESERVED", Outbound(reservation[o].items)))
  PROVE  LedgerRight' /\ posted' = posted \cup {key}
<1>1. reservation[o].items \in [Lots -> Nat]
  BY DEF TypeOK
<1>2. Movements("RESERVED", Outbound(reservation[o].items)) \in Rows
  BY <1>1, OutboundType, MovementsType
<1> QED
  BY <1>2, PostEventRight DEF TypeOK, LedgerRight

\* An invoice's own deduction, and its reversal, keep the ledger well typed.
LEMMA InvoiceEventTyped ==
  ASSUME TypeOK, SnapshotMatchesMovements, NEW lot, NEW q \in Int, NEW key,
         PostEvent(key, Movements("AVAILABLE", OfLot(lot, q)))
  PROVE  LedgerRight' /\ posted' = posted \cup {key}
<1>1. Movements("AVAILABLE", OfLot(lot, q)) \in Rows
  BY OfLotType, MovementsType
<1> QED
  BY <1>1, PostEventRight DEF TypeOK, LedgerRight

\* The steps of an order keep the types.
LEMMA OrderStepTyped ==
  ASSUME TypeOK, SnapshotMatchesMovements, OrderStep
  PROVE  TypeOK' /\ SnapshotMatchesMovements'
<1> USE FulfilmentAssumption
<1>1. ASSUME NEW o \in Orders, NEW lot \in Lots, NEW q \in 1..MaxQuantity, CreateOrder(o, lot, q)
      PROVE  TypeOK' /\ SnapshotMatchesMovements'
  <2>1. PICK items \in [Lots -> 0..q] :
          /\ ReserveStock(items)
          /\ reservation' = [reservation EXCEPT ![o] = [status |-> "ACTIVE", items |-> items]]
    BY <1>1 DEF CreateOrder
  <2>2. items \in [Lots -> Nat] /\ q \in Nat
    OBVIOUS
  <2>3. LedgerTypeOK' /\ SnapshotMatchesMovements'
    BY <2>1, <2>2, ReserveStockRight DEF TypeOK
  <2>4. reservation' \in [Orders -> [status : ReservationStatus, items : [Lots -> Nat]]]
    BY <2>1, <2>2 DEF TypeOK, ReservationStatus
  <2>5. order' \in [Orders -> [status : OrderStatus, invoice : Invoices \cup {None},
                               lot : Lots, quantity : Nat]]
    BY <1>1, <2>2 DEF TypeOK, CreateOrder, OrderStatus
  <2> QED
    BY <1>1, <2>3, <2>4, <2>5 DEF TypeOK, CreateOrder
<1>2. ASSUME NEW o \in Orders, NEW status \in OrderStatus, Progress(o, status)
      PROVE  TypeOK' /\ SnapshotMatchesMovements'
  BY <1>2, LedgerKept, SetOrderStatusType DEF Progress, TypeOK
<1>3. ASSUME NEW o \in Orders, Dispatch(o)
      PROVE  TypeOK' /\ SnapshotMatchesMovements'
  <2>1. order' \in [Orders -> [status : OrderStatus, invoice : Invoices \cup {None},
                               lot : Lots, quantity : Nat]]
    BY <1>3, SetOrderStatusType DEF Dispatch, OrderStatus
  <2>2. /\ LedgerTypeOK' /\ SnapshotMatchesMovements'
        /\ reservation' \in [Orders -> [status : ReservationStatus, items : [Lots -> Nat]]]
    <3>1. CASE UNCHANGED <<ledgerVars, reservation>>
      BY <3>1, LedgerKept DEF TypeOK
    <3>2. CASE /\ PostEvent(DispatchKey(o), Movements("RESERVED", Outbound(reservation[o].items)))
               /\ Settle(o, "CONSUMED")
      BY <3>2, ConsumptionTyped, SettleType DEF LedgerRight, ReservationStatus
    <3> QED
      BY <1>3, <3>1, <3>2 DEF Dispatch, ConsumeForOnlineDispatch
  <2> QED
    BY <1>3, <2>1, <2>2 DEF TypeOK, Dispatch
<1>4. ASSUME NEW o \in Orders, CancelOrder(o)
      PROVE  TypeOK' /\ SnapshotMatchesMovements'
  <2>1. order' \in [Orders -> [status : OrderStatus, invoice : Invoices \cup {None},
                               lot : Lots, quantity : Nat]]
    BY <1>4, SetOrderStatusType DEF CancelOrder, OrderStatus
  <2>2. /\ LedgerTypeOK' /\ SnapshotMatchesMovements'
        /\ reservation' \in [Orders -> [status : ReservationStatus, items : [Lots -> Nat]]]
    <3>1. CASE UNCHANGED <<ledgerVars, reservation>>
      BY <3>1, LedgerKept DEF TypeOK
    <3>2. CASE ReleaseStock(reservation[o].items) /\ Settle(o, "RELEASED")
      <4>1. reservation[o].items \in [Lots -> Nat]
        BY DEF TypeOK
      <4> QED
        BY <3>2, <4>1, ReleaseStockRight, SettleType DEF TypeOK, ReservationStatus
    <3> QED
      BY <1>4, <3>1, <3>2 DEF CancelOrder
  <2> QED
    BY <1>4, <2>1, <2>2 DEF TypeOK, CancelOrder
<1> QED
  BY <1>1, <1>2, <1>3, <1>4 DEF OrderStep

\* The steps of an invoice keep the types.
LEMMA InvoiceStepTyped ==
  ASSUME TypeOK, SnapshotMatchesMovements, InvoiceStep
  PROVE  TypeOK' /\ SnapshotMatchesMovements'
<1> USE FulfilmentAssumption
<1>1. ASSUME NEW i \in Invoices, NEW lot \in Lots, NEW q \in 1..MaxQuantity, CreateInvoice(i, lot, q)
      PROVE  TypeOK' /\ SnapshotMatchesMovements'
  BY <1>1, LedgerKept DEF CreateInvoice, Draft, TypeOK, InvoiceStatus
<1>2. ASSUME NEW i \in Invoices, PostInvoice(i)
      PROVE  TypeOK' /\ SnapshotMatchesMovements'
  <2>1. invoice' \in [Invoices -> [status : InvoiceStatus, paid : BOOLEAN,
                                   draftedFor : Orders \cup {None}, lot : Lots, quantity : Nat]]
    BY <1>2, SetInvoiceStatusType DEF PostInvoice, InvoiceStatus
  <2>2. /\ LedgerTypeOK' /\ SnapshotMatchesMovements'
        /\ reservation' \in [Orders -> [status : ReservationStatus, items : [Lots -> Nat]]]
    <3>1. ASSUME NEW o \in LinkedOrders(i), ConsumeForOrder(o, i)
          PROVE  /\ LedgerTypeOK' /\ SnapshotMatchesMovements'
                 /\ reservation' \in [Orders -> [status : ReservationStatus, items : [Lots -> Nat]]]
      BY <3>1, ConsumptionTyped, SettleType
      DEF ConsumeForOrder, LinkedOrders, LedgerRight, ReservationStatus
    <3>2. CASE /\ PostEvent(PostKey(i),
                            Movements("AVAILABLE", OfLot(invoice[i].lot, - invoice[i].quantity)))
               /\ UNCHANGED reservation
      <4>1. - invoice[i].quantity \in Int
        BY DEF TypeOK
      <4> QED
        BY <3>2, <4>1, InvoiceEventTyped DEF LedgerRight, TypeOK
    <3> QED
      BY <1>2, <3>1, <3>2 DEF PostInvoice
  <2> QED
    BY <1>2, <2>1, <2>2 DEF TypeOK, PostInvoice
<1>3. ASSUME NEW i \in Invoices, PayInvoice(i)
      PROVE  TypeOK' /\ SnapshotMatchesMovements'
  BY <1>3, LedgerKept DEF PayInvoice, TypeOK, InvoiceStatus
<1> QED
  BY <1>1, <1>2, <1>3 DEF InvoiceStep

\* The steps of a request that is not atomic keep the types.
LEMMA RequestStepTyped ==
  ASSUME TypeOK, SnapshotMatchesMovements, RequestsRemember, RequestStepTaken
  PROVE  TypeOK' /\ SnapshotMatchesMovements'
<1> USE FulfilmentAssumption
<1>1. ASSUME NEW r \in Requests, NEW o \in Orders, StartConversion(r, o)
      PROVE  TypeOK' /\ SnapshotMatchesMovements'
  BY <1>1, LedgerKept, BeginType DEF StartConversion, TypeOK, RequestStep
<1>2. ASSUME NEW r \in Requests, NEW i \in Invoices, DraftConversion(r, i)
      PROVE  TypeOK' /\ SnapshotMatchesMovements'
  <2>1. request[r].order \in Orders
    BY <1>2 DEF DraftConversion, RequestsRemember, Remembers
  <2>2. invoice' \in [Invoices -> [status : InvoiceStatus, paid : BOOLEAN,
                                   draftedFor : Orders \cup {None}, lot : Lots, quantity : Nat]]
    BY <1>2, <2>1 DEF DraftConversion, Draft, TypeOK, InvoiceStatus
  <2>3. request' \in [Requests -> [at : RequestStep, order : Orders \cup {None},
                                   invoice : Invoices \cup {None}]]
    BY <1>2 DEF DraftConversion, TypeOK, RequestStep
  <2> QED
    BY <1>2, <2>2, <2>3, LedgerKept DEF DraftConversion, TypeOK
<1>3. ASSUME NEW r \in Requests, LinkConversion(r)
      PROVE  TypeOK' /\ SnapshotMatchesMovements'
  <2>1. request[r].order \in Orders /\ request[r].invoice \in Invoices
    BY <1>3 DEF LinkConversion, RequestsRemember, Remembers
  <2>2. order' \in [Orders -> [status : OrderStatus, invoice : Invoices \cup {None},
                               lot : Lots, quantity : Nat]]
    BY <1>3, <2>1, LinkType DEF LinkConversion
  <2> QED
    BY <1>3, <2>2, LedgerKept, FinishType DEF LinkConversion, TypeOK
<1>4. ASSUME NEW r \in Requests, NEW i \in Invoices, StartVoid(r, i)
      PROVE  TypeOK' /\ SnapshotMatchesMovements'
  BY <1>4, LedgerKept, BeginType DEF StartVoid, TypeOK, RequestStep
<1>5. ASSUME NEW r \in Requests, ReverseInvoice(r)
      PROVE  TypeOK' /\ SnapshotMatchesMovements'
  <2>1. invoice[request[r].invoice].quantity \in Int
    BY <1>5 DEF ReverseInvoice, RequestsRemember, Remembers, TypeOK
  <2>2. LedgerRight'
    BY <1>5, <2>1, InvoiceEventTyped DEF ReverseInvoice
  <2>3. request' \in [Requests -> [at : RequestStep, order : Orders \cup {None},
                                   invoice : Invoices \cup {None}]]
    BY <1>5 DEF ReverseInvoice, TypeOK, RequestStep
  <2> QED
    BY <1>5, <2>2, <2>3 DEF ReverseInvoice, TypeOK, LedgerRight
<1>6. ASSUME NEW r \in Requests, MarkVoided(r)
      PROVE  TypeOK' /\ SnapshotMatchesMovements'
  BY <1>6, LedgerKept, SetInvoiceStatusType, FinishType DEF MarkVoided, TypeOK, InvoiceStatus
<1>7. ASSUME NEW r \in Requests, NEW i \in Invoices, StartInvoiceCancellation(r, i)
      PROVE  TypeOK' /\ SnapshotMatchesMovements'
  BY <1>7, LedgerKept, BeginType DEF StartInvoiceCancellation, TypeOK, RequestStep
<1>8. ASSUME NEW r \in Requests, MarkCancelled(r)
      PROVE  TypeOK' /\ SnapshotMatchesMovements'
  BY <1>8, LedgerKept, SetInvoiceStatusType, FinishType DEF MarkCancelled, TypeOK, InvoiceStatus
<1>9. ASSUME NEW r \in Requests, Crash(r)
      PROVE  TypeOK' /\ SnapshotMatchesMovements'
  BY <1>9, LedgerKept, FinishType DEF Crash, TypeOK
<1> QED
  BY <1>1, <1>2, <1>3, <1>4, <1>5, <1>6, <1>7, <1>8, <1>9 DEF RequestStepTaken

\* The calendar, batch administration and reservations by hand keep the types.
LEMMA StockStepTyped ==
  ASSUME TypeOK, SnapshotMatchesMovements, StockStep
  PROVE  TypeOK' /\ SnapshotMatchesMovements'
<1> USE FulfilmentAssumption
<1>1. ASSUME NEW b \in Batches, Lapse(b) \/ BlockBatch(b) \/ \E status \in BatchStatus : UpdateBatch(b, status)
      PROVE  TypeOK' /\ SnapshotMatchesMovements'
  BY <1>1, LedgerKept DEF Lapse, BlockBatch, UpdateBatch, TypeOK, BatchStatus
<1>2. ASSUME NEW l \in Lots, NEW q \in 1..MaxQuantity, ReserveByHand(l, q)
      PROVE  TypeOK' /\ SnapshotMatchesMovements'
  <2>1. OfLot(l, q) \in [Lots -> Nat]
    BY OfLotType
  <2>2. LedgerRight'
    BY <1>2, <2>1, ReserveStockRight DEF ReserveByHand, TypeOK, LedgerRight
  <2> QED
    BY <1>2, <2>2 DEF ReserveByHand, TypeOK, LedgerRight
<1>3. ASSUME NEW l \in Lots, NEW q \in 1..MaxQuantity, ReleaseByHand(l, q)
      PROVE  TypeOK' /\ SnapshotMatchesMovements'
  <2>1. OfLot(l, q) \in [Lots -> Nat]
    BY OfLotType
  <2>2. LedgerRight'
    BY <1>3, <2>1, ReleaseStockRight DEF ReleaseByHand, TypeOK, LedgerRight
  <2> QED
    BY <1>3, <2>2 DEF ReleaseByHand, TypeOK, LedgerRight
<1> QED
  BY <1>1, <1>2, <1>3 DEF StockStep

\* Every step keeps the types, and the snapshot in step with its log.
LEMMA StepTyped ==
  ASSUME Inv, [Next]_vars
  PROVE  TypeOK' /\ SnapshotMatchesMovements'
<1>1. CASE Next
  BY <1>1, OrderStepTyped, InvoiceStepTyped, RequestStepTyped, StockStepTyped DEF Next, Inv
<1>2. CASE UNCHANGED vars
  BY <1>2, LedgerKept DEF vars, ledgerVars, Inv, TypeOK
<1> QED
  BY <1>1, <1>2

-----------------------------------------------------------------------------
(* Steps that change neither orders, nor reservations, nor invoices, nor   *)
(* the events posted.                                                      *)

\* The conjuncts of Inv that do not speak of requests.
Settled ==
  /\ LinkedToItsOwn
  /\ OpenOrdersUnlinked
  /\ OpenOrdersHoldStock
  /\ ConsumptionsSettle
  /\ ConsumedExactlyOnce
  /\ InvoiceStockEvents
  /\ ShippedWasDeducted

\* A step that leaves orders, reservations, invoices and the posted events
\* alone keeps the facts that relate them.
LEMMA SettledKept ==
  ASSUME Settled, UNCHANGED <<order, reservation, invoice, posted>>
  PROVE  Settled'
BY DEF Settled, LinkedToItsOwn, OpenOrdersUnlinked, OpenOrdersHoldStock, ConsumptionsSettle,
       ConsumedExactlyOnce, ConsumptionsOf, InvoiceStockEvents, ShippedWasDeducted,
       DispatchKey, ConsumeKey, PostKey, VoidKey

\* A request that takes no step keeps what it knows while the events posted
\* only grow and the invoices that exist keep the order they were drafted for.
InvoicesLast ==
  /\ posted \subseteq posted'
  /\ \A i \in Invoices : invoice[i].status # "NONE" =>
        invoice'[i].status # "NONE" /\ invoice'[i].draftedFor = invoice[i].draftedFor

\* What a request remembers survives the steps of others.
LEMMA RemembersKept ==
  ASSUME NEW r \in Requests, Remembers(r), InvoicesLast, request'[r] = request[r]
  PROVE  Remembers(r)'
BY DEF Remembers, InvoicesLast, Deducted, Deductions, PostKey, ConsumeKey

\* One request takes a step, after which it remembers what it should.
LEMMA OneRequestMoves ==
  ASSUME TypeOK, RequestsRemember, InvoicesLast, NEW r \in Requests,
         \A s \in Requests \ {r} : request'[s] = request[s],
         Remembers(r)'
  PROVE  RequestsRemember'
BY RemembersKept DEF RequestsRemember

\* A step that leaves the requests alone keeps what they remember.
LEMMA NoRequestMoves ==
  ASSUME RequestsRemember, InvoicesLast, UNCHANGED request
  PROVE  RequestsRemember'
BY RemembersKept DEF RequestsRemember

\* When one request ends, the others remember what they did.
LEMMA FinishRight ==
  ASSUME TypeOK, RequestsRemember, InvoicesLast, NEW r \in Requests, Finish(r)
  PROVE  RequestsRemember'
<1>1. \A s \in Requests \ {r} : request'[s] = request[s]
  BY DEF Finish, TypeOK
<1>2. request'[r].at = "idle"
  BY DEF Finish, Idle, TypeOK
<1>3. Remembers(r)'
  BY <1>2 DEF Remembers
<1> QED
  BY <1>1, <1>3, OneRequestMoves

\* A step that touches neither orders, reservations, invoices nor the posted
\* events keeps the invariant, apart from the types and the requests.
LEMMA QuietStep ==
  ASSUME Inv, UNCHANGED <<order, reservation, invoice, posted>>
  PROVE  Settled' /\ InvoicesLast
BY SettledKept DEF Inv, Settled, InvoicesLast

\* A request that begins remembers what it has just read.
LEMMA BeginRight ==
  ASSUME Inv, NEW r \in Requests, NEW step \in RequestStep \ {"linkInvoice"},
         NEW o \in Orders \cup {None}, NEW i \in Invoices \cup {None},
         step = "draftInvoice" => o \in Orders,
         step = "reverse" => i \in Invoices /\ Deducted(i),
         Begin(r, step, o, i),
         UNCHANGED <<order, reservation, invoice, posted>>
  PROVE  Settled' /\ RequestsRemember'
<1>1. Settled' /\ InvoicesLast
  BY QuietStep
<1>2. \A s \in Requests \ {r} : request'[s] = request[s]
  BY DEF Begin, Inv, TypeOK
<1>3. request'[r] = [at |-> step, order |-> o, invoice |-> i]
  BY DEF Begin, Inv, TypeOK
<1>4. Remembers(r)'
  BY <1>3 DEF Remembers, Deducted, Deductions, PostKey, ConsumeKey
<1> QED
  BY <1>1, <1>2, <1>4, OneRequestMoves DEF Inv

-----------------------------------------------------------------------------
(* Steps of one order.                                                     *)

\* One order moves, and neither its link nor the fact that its reservation
\* was or was not consumed changes.
LEMMA OneOrderMoves ==
  ASSUME Inv, NEW o \in Orders, UNCHANGED <<invoice, posted>>,
         \A p \in Orders \ {o} : order'[p] = order[p] /\ reservation'[p] = reservation[p],
         order'[o].invoice = order[o].invoice,
         reservation'[o].status = "CONSUMED" <=> reservation[o].status = "CONSUMED",
         order'[o].status = "NONE" => reservation'[o].status = "NONE",
         order'[o].status \in {"CONFIRMED", "PICKING", "PACKED"} =>
            reservation'[o].status = "ACTIVE" /\ order'[o].invoice = None,
         order'[o].status = "NONE" => order'[o].invoice = None,
         order'[o].status = "CANCELLED" => reservation'[o].status = "RELEASED",
         order'[o].status \in {"DISPATCHED", "DELIVERED"} =>
            \/ reservation[o].status = "CONSUMED"
            \/ \E i \in Invoices : invoice[i].draftedFor = o /\ PostKey(i) \in posted
  PROVE  Settled' /\ InvoicesLast
<1>1. InvoicesLast
  BY DEF InvoicesLast
<1>2. LinkedToItsOwn'
  BY DEF Inv, LinkedToItsOwn
<1>3. OpenOrdersUnlinked' /\ OpenOrdersHoldStock'
  BY DEF Inv, OpenOrdersUnlinked, OpenOrdersHoldStock
<1>4. \A p \in Orders : reservation'[p].status = "CONSUMED" <=> reservation[p].status = "CONSUMED"
  OBVIOUS
<1>5. ConsumptionsSettle'
  BY <1>4 DEF Inv, ConsumptionsSettle, DispatchKey, ConsumeKey
<1>6. ConsumedExactlyOnce'
  BY <1>4 DEF Inv, ConsumedExactlyOnce, ConsumptionsOf, DispatchKey, ConsumeKey
<1>7. InvoiceStockEvents'
  BY DEF Inv, InvoiceStockEvents, PostKey, ConsumeKey, VoidKey
<1>8. ShippedWasDeducted'
  BY <1>4 DEF Inv, ShippedWasDeducted, PostKey
<1> QED
  BY <1>1, <1>2, <1>3, <1>5, <1>6, <1>7, <1>8 DEF Settled

\* The consumptions of an order are those of its dispatch and its invoices.
LEMMA ConsumptionsAre ==
  ASSUME NEW o \in Orders, NEW e
  PROVE  e \in ConsumptionsOf(o) <=>
           \/ e = DispatchKey(o)
           \/ \E i \in Invoices : invoice[i].draftedFor = o /\ e = ConsumeKey(i)
BY DEF ConsumptionsOf

\* An ACTIVE reservation is consumed by one of the order's own events.
LEMMA ReservationConsumed ==
  ASSUME Inv, TypeOK', NEW o \in Orders, NEW key,
         reservation[o].status = "ACTIVE",
         \/ key = DispatchKey(o)
         \/ \E i \in Invoices : invoice[i].draftedFor = o /\ key = ConsumeKey(i),
         posted' = posted \cup {key}, Settle(o, "CONSUMED"),
         \A i \in Invoices : invoice'[i].draftedFor = invoice[i].draftedFor
  PROVE  ConsumptionsSettle' /\ ConsumedExactlyOnce'
<1>1. /\ reservation'[o].status = "CONSUMED"
      /\ \A p \in Orders \ {o} : reservation'[p] = reservation[p]
  BY DEF Settle, Inv, TypeOK
<1>2. ConsumptionsOf(o) \cap posted = {}
  BY DEF Inv, ConsumedExactlyOnce
<1>3. key \in ConsumptionsOf(o)
  BY ConsumptionsAre
<1>4. \A p \in Orders : ConsumptionsOf(p)' = ConsumptionsOf(p)
  BY DEF ConsumptionsOf, DispatchKey, ConsumeKey
<1>5. \A p \in Orders \ {o} : key \notin ConsumptionsOf(p)
  BY ConsumptionsAre, KeysDiffer
<1>6. ConsumptionsSettle'
  BY <1>1, KeysDiffer DEF Inv, ConsumptionsSettle, DispatchKey, ConsumeKey
<1>7. ConsumptionsOf(o)' \cap posted' = {key}
  BY <1>2, <1>3, <1>4
<1>8. \A p \in Orders \ {o} : ConsumptionsOf(p)' \cap posted' = ConsumptionsOf(p) \cap posted
  BY <1>4, <1>5
<1>9. ConsumedExactlyOnce'
  BY <1>1, <1>7, <1>8 DEF Inv, ConsumedExactlyOnce
<1> QED
  BY <1>6, <1>9

\* Creating, progressing, dispatching or cancelling an order keeps the
\* invariant.
LEMMA OrderStepRight ==
  ASSUME Inv, TypeOK', OrderStep
  PROVE  Settled' /\ RequestsRemember'
<1> SUFFICES Settled' /\ InvoicesLast
  BY NoRequestMoves DEF Inv, OrderStep, CreateOrder, Progress, Dispatch, CancelOrder
<1>1. ASSUME NEW o \in Orders, NEW lot \in Lots, NEW q \in 1..MaxQuantity, CreateOrder(o, lot, q)
      PROVE  Settled' /\ InvoicesLast
  <2>1. PICK items \in [Lots -> 0..q] :
          /\ ReserveStock(items)
          /\ reservation' = [reservation EXCEPT ![o] = [status |-> "ACTIVE", items |-> items]]
    BY <1>1 DEF CreateOrder
  <2>2. \A p \in Orders \ {o} : order'[p] = order[p] /\ reservation'[p] = reservation[p]
    BY <1>1, <2>1 DEF CreateOrder, Inv, TypeOK
  <2>3. /\ order'[o].status = "CONFIRMED" /\ order'[o].invoice = None
        /\ reservation'[o].status = "ACTIVE"
    BY <1>1, <2>1 DEF CreateOrder, Inv, TypeOK
  <2>4. order[o].invoice = None /\ reservation[o].status = "NONE"
    BY <1>1 DEF CreateOrder, Inv, OpenOrdersUnlinked
  <2>5. UNCHANGED <<invoice, posted>>
    BY <1>1, <2>1 DEF CreateOrder, ReserveStock
  <2> QED
    BY <2>2, <2>3, <2>4, <2>5, OneOrderMoves
<1>2. ASSUME NEW o \in Orders, NEW status \in OrderStatus, Progress(o, status)
      PROVE  Settled' /\ InvoicesLast
  <2>1. UNCHANGED <<reservation, invoice, posted>>
    BY <1>2 DEF Progress, ledgerVars
  <2>2. \A p \in Orders \ {o} : order'[p] = order[p]
    BY <1>2 DEF Progress, SetOrderStatus, Inv, TypeOK
  <2>3. order'[o].status = status /\ order'[o].invoice = order[o].invoice
    BY <1>2 DEF Progress, SetOrderStatus, Inv, TypeOK
  <2>4. CASE status \in {"PICKING", "PACKED"}
    <3>1. order[o].status \in {"CONFIRMED", "PICKING"}
      BY <1>2, <2>4 DEF Progress
    <3>2. order[o].invoice = None /\ reservation[o].status = "ACTIVE"
      BY <3>1 DEF Inv, OpenOrdersUnlinked, OpenOrdersHoldStock
    <3> QED
      BY <2>1, <2>2, <2>3, <2>4, <3>2, OneOrderMoves
  <2>5. CASE status = "DELIVERED"
    <3>1. order[o].status = "DISPATCHED"
      BY <1>2, <2>5 DEF Progress
    <3>2. \/ reservation[o].status = "CONSUMED"
          \/ \E i \in Invoices : invoice[i].draftedFor = o /\ PostKey(i) \in posted
      BY <3>1 DEF Inv, ShippedWasDeducted
    <3> QED
      BY <2>1, <2>2, <2>3, <2>5, <3>2, OneOrderMoves
  <2> QED
    BY <1>2, <2>4, <2>5 DEF Progress
<1>3. ASSUME NEW o \in Orders, Dispatch(o)
      PROVE  Settled' /\ InvoicesLast
  <2>1. \A p \in Orders \ {o} : order'[p] = order[p]
    BY <1>3 DEF Dispatch, SetOrderStatus, Inv, TypeOK
  <2>2. order'[o].status = "DISPATCHED" /\ order'[o].invoice = order[o].invoice
    BY <1>3 DEF Dispatch, SetOrderStatus, Inv, TypeOK
  <2>3. UNCHANGED <<invoice, request>>
    BY <1>3 DEF Dispatch
  <2>4. CASE reservation[o].status = "CONSUMED" /\ UNCHANGED <<ledgerVars, reservation>>
    BY <2>1, <2>2, <2>3, <2>4, OneOrderMoves DEF ledgerVars
  <2>5. CASE /\ order[o].invoice # None /\ invoice[order[o].invoice].status = "POSTED"
             /\ UNCHANGED <<ledgerVars, reservation>>
    <3>1. PICK i \in Invoices : i = order[o].invoice
      BY <2>5 DEF Inv, TypeOK
    <3>2. invoice[i].draftedFor = o /\ invoice[i].status = "POSTED"
      BY <2>5, <3>1 DEF Inv, LinkedToItsOwn
    <3>3. PostKey(i) \in posted \/ ConsumeKey(i) \in posted
      BY <3>2 DEF Inv, InvoiceStockEvents
    <3>4. \/ reservation[o].status = "CONSUMED"
          \/ \E j \in Invoices : invoice[j].draftedFor = o /\ PostKey(j) \in posted
      BY <3>2, <3>3 DEF Inv, ConsumptionsSettle
    <3> QED
      BY <2>1, <2>2, <2>3, <2>5, <3>4, OneOrderMoves DEF ledgerVars
  <2>6. CASE /\ reservation[o].status = "ACTIVE"
             /\ PostEvent(DispatchKey(o), Movements("RESERVED", Outbound(reservation[o].items)))
             /\ Settle(o, "CONSUMED")
    <3>1. posted' = posted \cup {DispatchKey(o)}
      BY <2>6, ConsumptionTyped DEF Inv
    <3>2. ConsumptionsSettle' /\ ConsumedExactlyOnce'
      BY <2>3, <2>6, <3>1, ReservationConsumed
    <3>3. /\ reservation'[o].status = "CONSUMED"
          /\ \A p \in Orders \ {o} : reservation'[p] = reservation[p]
      BY <2>6 DEF Settle, Inv, TypeOK
    <3>4. \A i \in Invoices : /\ PostKey(i) \in posted' <=> PostKey(i) \in posted
                              /\ ConsumeKey(i) \in posted' <=> ConsumeKey(i) \in posted
                              /\ VoidKey(i) \in posted' <=> VoidKey(i) \in posted
      BY <3>1, KeysDiffer
    <3>5. InvoiceStockEvents'
      BY <2>3, <3>4 DEF Inv, InvoiceStockEvents, PostKey, ConsumeKey, VoidKey
    <3>6. ShippedWasDeducted'
      BY <2>1, <2>3, <3>1, <3>3 DEF Inv, ShippedWasDeducted, PostKey
    <3>7. LinkedToItsOwn' /\ OpenOrdersUnlinked' /\ OpenOrdersHoldStock'
      BY <2>1, <2>2, <2>3, <3>3 DEF Inv, LinkedToItsOwn, OpenOrdersUnlinked, OpenOrdersHoldStock
    <3> QED
      BY <2>3, <3>1, <3>2, <3>5, <3>6, <3>7 DEF Settled, InvoicesLast
  <2> QED
    BY <1>3, <2>4, <2>5, <2>6 DEF Dispatch, ConsumeForOnlineDispatch
<1>4. ASSUME NEW o \in Orders, CancelOrder(o)
      PROVE  Settled' /\ InvoicesLast
  <2>1. order[o].invoice = None /\ reservation[o].status = "ACTIVE"
    BY <1>4 DEF CancelOrder, Inv, OpenOrdersUnlinked, OpenOrdersHoldStock
  <2>2. ReleaseStock(reservation[o].items) /\ Settle(o, "RELEASED")
    BY <1>4, <2>1 DEF CancelOrder
  <2>3. UNCHANGED <<invoice, posted>>
    BY <1>4, <2>2 DEF CancelOrder, ReleaseStock
  <2>4. \A p \in Orders \ {o} : order'[p] = order[p] /\ reservation'[p] = reservation[p]
    BY <1>4, <2>2 DEF CancelOrder, SetOrderStatus, Settle, Inv, TypeOK
  <2>5. /\ order'[o].status = "CANCELLED" /\ order'[o].invoice = order[o].invoice
        /\ reservation'[o].status = "RELEASED"
    BY <1>4, <2>2 DEF CancelOrder, SetOrderStatus, Settle, Inv, TypeOK
  <2> QED
    BY <2>1, <2>3, <2>4, <2>5, OneOrderMoves
<1> QED
  BY <1>1, <1>2, <1>3, <1>4 DEF OrderStep

-----------------------------------------------------------------------------
(* Steps of one invoice.                                                   *)

\* Invoices that keep their order and are never forgotten keep the links.
LEMMA LinksKept ==
  ASSUME Inv, InvoicesLast, UNCHANGED order
  PROVE  LinkedToItsOwn'
<1> SUFFICES ASSUME NEW o \in Orders, order[o].invoice # None
             PROVE  /\ invoice'[order[o].invoice].draftedFor = o
                    /\ invoice'[order[o].invoice].status # "NONE"
  BY DEF LinkedToItsOwn
<1>1. order[o].invoice \in Invoices
  BY DEF Inv, TypeOK
<1> QED
  BY <1>1 DEF Inv, LinkedToItsOwn, InvoicesLast

\* A draft has caused no stock event yet, whoever it is for.
LEMMA DraftRight ==
  ASSUME Inv, TypeOK', NEW i \in Invoices, NEW o, NEW lot, NEW q, Draft(i, o, lot, q),
         UNCHANGED <<order, reservation, posted>>
  PROVE  Settled' /\ InvoicesLast
<1>1. /\ invoice[i].status = "NONE"
      /\ invoice'[i].status = "DRAFT" /\ invoice'[i].draftedFor = o
      /\ \A j \in Invoices \ {i} : invoice'[j] = invoice[j]
  BY DEF Draft, Inv, TypeOK
<1>2. PostKey(i) \notin posted /\ ConsumeKey(i) \notin posted /\ VoidKey(i) \notin posted
  BY <1>1 DEF Inv, InvoiceStockEvents
<1>3. InvoicesLast
  BY <1>1 DEF InvoicesLast
<1>4. OpenOrdersUnlinked' /\ OpenOrdersHoldStock'
  BY DEF Inv, OpenOrdersUnlinked, OpenOrdersHoldStock
<1>5. ConsumptionsSettle'
  BY <1>1, <1>2 DEF Inv, ConsumptionsSettle, DispatchKey, ConsumeKey
<1>6. ConsumedExactlyOnce'
  <2>1. \A p \in Orders : ConsumptionsOf(p)' \cap posted' = ConsumptionsOf(p) \cap posted
    <3> TAKE p \in Orders
    <3>1. \A e : e \in ConsumptionsOf(p)' <=>
                   \/ e = DispatchKey(p)
                   \/ \E j \in Invoices : invoice'[j].draftedFor = p /\ e = ConsumeKey(j)
      BY DEF ConsumptionsOf, DispatchKey, ConsumeKey
    <3>2. \A e \in posted : e \in ConsumptionsOf(p)' <=> e \in ConsumptionsOf(p)
      BY <1>1, <1>2, <3>1, ConsumptionsAre
    <3> QED
      BY <3>2
  <2> QED
    BY <2>1 DEF Inv, ConsumedExactlyOnce
<1>7. InvoiceStockEvents'
  BY <1>1, <1>2 DEF Inv, InvoiceStockEvents, PostKey, ConsumeKey, VoidKey
<1>8. ShippedWasDeducted'
  BY <1>1, <1>2 DEF Inv, ShippedWasDeducted, PostKey
<1>9. LinkedToItsOwn'
  BY <1>3, LinksKept
<1> QED
  BY <1>3, <1>4, <1>5, <1>6, <1>7, <1>8, <1>9 DEF Settled

\* The status of an invoice is overwritten by one that ends it.
LEMMA InvoiceEnded ==
  ASSUME Inv, UNCHANGED <<order, reservation, posted>>,
         \A j \in Invoices :
            /\ invoice'[j].draftedFor = invoice[j].draftedFor
            /\ \/ invoice'[j].status = invoice[j].status
               \/ invoice'[j].status \in {"PAID", "VOIDED", "CANCELLED"}
  PROVE  Settled' /\ InvoicesLast
<1>1. InvoicesLast
  BY DEF InvoicesLast
<1>2. OpenOrdersUnlinked' /\ OpenOrdersHoldStock'
  BY DEF Inv, OpenOrdersUnlinked, OpenOrdersHoldStock
<1>3. ConsumptionsSettle'
  BY DEF Inv, ConsumptionsSettle, DispatchKey, ConsumeKey
<1>4. \A p \in Orders : ConsumptionsOf(p)' = ConsumptionsOf(p)
  BY DEF ConsumptionsOf, DispatchKey, ConsumeKey
<1>5. ConsumedExactlyOnce'
  BY <1>4 DEF Inv, ConsumedExactlyOnce
<1>6. InvoiceStockEvents'
  BY DEF Inv, InvoiceStockEvents, PostKey, ConsumeKey, VoidKey
<1>7. ShippedWasDeducted'
  BY DEF Inv, ShippedWasDeducted, PostKey
<1>8. LinkedToItsOwn'
  BY <1>1, LinksKept
<1> QED
  BY <1>1, <1>2, <1>3, <1>5, <1>6, <1>7, <1>8 DEF Settled

\* Posting an invoice keeps the invariant.
LEMMA PostInvoiceRight ==
  ASSUME Inv, TypeOK', NEW i \in Invoices, PostInvoice(i)
  PROVE  Settled' /\ InvoicesLast
<1>1. /\ invoice[i].status = "DRAFT" /\ invoice'[i].status = "POSTED"
      /\ \A j \in Invoices : invoice'[j].draftedFor = invoice[j].draftedFor
      /\ \A j \in Invoices \ {i} : invoice'[j] = invoice[j]
  BY DEF PostInvoice, SetInvoiceStatus, Inv, TypeOK
<1>2. PostKey(i) \notin posted /\ ConsumeKey(i) \notin posted
  BY <1>1 DEF Inv, InvoiceStockEvents
<1>3. UNCHANGED order
  BY DEF PostInvoice
<1>4. posted \subseteq posted' => InvoicesLast /\ LinkedToItsOwn'
  BY <1>1, <1>3, LinksKept DEF InvoicesLast
<1>5. ASSUME NEW o \in LinkedOrders(i), ConsumeForOrder(o, i)
      PROVE  Settled' /\ InvoicesLast
  <2>1. o \in Orders /\ invoice[i].draftedFor = o
    BY <1>5, FulfilmentAssumption DEF LinkedOrders, Inv, LinkedToItsOwn
  <2>2. posted' = posted \cup {ConsumeKey(i)}
    BY <1>5, <2>1, ConsumptionTyped DEF ConsumeForOrder, Inv
  <2>3. ConsumptionsSettle' /\ ConsumedExactlyOnce'
    BY <1>1, <1>5, <2>1, <2>2, ReservationConsumed DEF ConsumeForOrder
  <2>4. /\ reservation'[o].status = "CONSUMED"
        /\ \A p \in Orders \ {o} : reservation'[p] = reservation[p]
    BY <1>5, <2>1 DEF ConsumeForOrder, Settle, Inv, TypeOK
  <2>5. order[o].invoice # None
    BY <1>5, FulfilmentAssumption DEF LinkedOrders
  <2>6. order[o].status \notin {"NONE", "CONFIRMED", "PICKING", "PACKED"}
    BY <2>1, <2>5 DEF Inv, OpenOrdersUnlinked
  <2>7. order[o].status # "CANCELLED"
    BY <1>5, <2>1 DEF Inv, OpenOrdersHoldStock, ConsumeForOrder
  <2>8. OpenOrdersUnlinked' /\ OpenOrdersHoldStock'
    BY <1>3, <2>4, <2>6, <2>7 DEF Inv, OpenOrdersUnlinked, OpenOrdersHoldStock
  <2>9. \A j \in Invoices : /\ PostKey(j) \in posted' <=> PostKey(j) \in posted
                            /\ VoidKey(j) \in posted' <=> VoidKey(j) \in posted
                            /\ ConsumeKey(j) \in posted' <=> ConsumeKey(j) \in posted \/ j = i
    BY <2>2, KeysDiffer
  <2>10. InvoiceStockEvents'
    BY <1>1, <1>2, <2>9 DEF Inv, InvoiceStockEvents, PostKey, ConsumeKey, VoidKey
  <2>11. ShippedWasDeducted'
    BY <1>1, <1>3, <2>4, <2>9 DEF Inv, ShippedWasDeducted, PostKey
  <2>12. InvoicesLast /\ LinkedToItsOwn'
    BY <1>4, <2>2
  <2> QED
    BY <2>3, <2>8, <2>10, <2>11, <2>12 DEF Settled
<1>6. CASE /\ PostEvent(PostKey(i),
                        Movements("AVAILABLE", OfLot(invoice[i].lot, - invoice[i].quantity)))
           /\ UNCHANGED reservation
  <2>1. posted' = posted \cup {PostKey(i)}
    <3>1. - invoice[i].quantity \in Int
      BY DEF Inv, TypeOK
    <3> QED
      BY <1>6, <3>1, InvoiceEventTyped DEF Inv
  <2>2. OpenOrdersUnlinked' /\ OpenOrdersHoldStock'
    BY <1>3, <1>6 DEF Inv, OpenOrdersUnlinked, OpenOrdersHoldStock
  <2>3. /\ \A p \in Orders : DispatchKey(p) \in posted' <=> DispatchKey(p) \in posted
        /\ \A j \in Invoices : /\ PostKey(j) \in posted' <=> PostKey(j) \in posted \/ j = i
                               /\ VoidKey(j) \in posted' <=> VoidKey(j) \in posted
                               /\ ConsumeKey(j) \in posted' <=> ConsumeKey(j) \in posted
    BY <2>1, KeysDiffer
  <2>4. ConsumptionsSettle'
    BY <1>1, <1>6, <2>3 DEF Inv, ConsumptionsSettle, DispatchKey, ConsumeKey
  <2>5. \A p \in Orders : ConsumptionsOf(p)' \cap posted' = ConsumptionsOf(p) \cap posted
    <3> TAKE p \in Orders
    <3>1. ConsumptionsOf(p)' = ConsumptionsOf(p)
      BY <1>1 DEF ConsumptionsOf, DispatchKey, ConsumeKey
    <3>2. PostKey(i) \notin ConsumptionsOf(p)
      BY ConsumptionsAre, KeysDiffer
    <3> QED
      BY <2>1, <3>1, <3>2
  <2>6. ConsumedExactlyOnce'
    BY <1>6, <2>5 DEF Inv, ConsumedExactlyOnce
  <2>7. InvoiceStockEvents'
    BY <1>1, <1>2, <2>3 DEF Inv, InvoiceStockEvents, PostKey, ConsumeKey, VoidKey
  <2>8. ShippedWasDeducted'
    BY <1>1, <1>3, <1>6, <2>3 DEF Inv, ShippedWasDeducted, PostKey
  <2>9. InvoicesLast /\ LinkedToItsOwn'
    BY <1>4, <2>1
  <2> QED
    BY <2>2, <2>4, <2>6, <2>7, <2>8, <2>9 DEF Settled
<1> QED
  BY <1>5, <1>6 DEF PostInvoice

\* Creating, posting or paying an invoice keeps the invariant.
LEMMA InvoiceStepRight ==
  ASSUME Inv, TypeOK', InvoiceStep
  PROVE  Settled' /\ RequestsRemember'
<1> SUFFICES Settled' /\ InvoicesLast
  BY NoRequestMoves DEF Inv, InvoiceStep, CreateInvoice, PostInvoice, PayInvoice
<1>1. ASSUME NEW i \in Invoices, NEW lot \in Lots, NEW q \in 1..MaxQuantity, CreateInvoice(i, lot, q)
      PROVE  Settled' /\ InvoicesLast
  BY <1>1, DraftRight DEF CreateInvoice, ledgerVars
<1>2. ASSUME NEW i \in Invoices, PayInvoice(i)
      PROVE  Settled' /\ InvoicesLast
  BY <1>2, InvoiceEnded DEF PayInvoice, ledgerVars, Inv, TypeOK
<1> QED
  BY <1>1, <1>2, PostInvoiceRight DEF InvoiceStep

-----------------------------------------------------------------------------
(* Steps of a request that is not atomic.                                  *)

\* The second step of convertToInvoice keeps the invariant.
LEMMA DraftConversionRight ==
  ASSUME Inv, TypeOK', NEW r \in Requests, NEW i \in Invoices, DraftConversion(r, i)
  PROVE  Settled' /\ RequestsRemember'
<1> DEFINE o == request[r].order
<1>1. o \in Orders
  BY DEF DraftConversion, Inv, RequestsRemember, Remembers
<1>2. PICK p \in Orders : p = o
  BY <1>1
<1>3. Draft(i, p, order[p].lot, order[p].quantity) /\ UNCHANGED <<order, reservation, posted>>
  BY <1>2 DEF DraftConversion, ledgerVars
<1>4. PICK lot, q : lot = order[p].lot /\ q = order[p].quantity
  OBVIOUS
<1>5. Settled' /\ InvoicesLast
  BY <1>3, <1>4, DraftRight
<1>6. \A s \in Requests \ {r} : request'[s] = request[s]
  BY DEF DraftConversion, Inv, TypeOK
<1>7. request'[r].at = "linkInvoice" /\ request'[r].order = p /\ request'[r].invoice = i
  BY <1>2 DEF DraftConversion, Inv, TypeOK
<1>8. invoice'[i].status = "DRAFT" /\ invoice'[i].draftedFor = p
  BY <1>3 DEF Draft, Inv, TypeOK
<1>9. Remembers(r)'
  BY <1>7, <1>8 DEF Remembers
<1> QED
  BY <1>5, <1>6, <1>9, OneRequestMoves DEF Inv

\* The third step of convertToInvoice keeps the invariant, although it reads
\* nothing again.
LEMMA LinkConversionRight ==
  ASSUME Inv, TypeOK', NEW r \in Requests, LinkConversion(r)
  PROVE  Settled' /\ RequestsRemember'
<1>1. PICK o \in Orders, i \in Invoices :
        /\ o = request[r].order /\ i = request[r].invoice
        /\ invoice[i].draftedFor = o /\ invoice[i].status # "NONE"
  BY DEF LinkConversion, Inv, RequestsRemember, Remembers
<1>2. /\ order'[o].status = "INVOICED" /\ order'[o].invoice = i
      /\ \A p \in Orders \ {o} : order'[p] = order[p]
  BY <1>1 DEF LinkConversion, Inv, TypeOK
<1>3. UNCHANGED <<reservation, invoice, posted>>
  BY DEF LinkConversion, ledgerVars
<1>4. LinkedToItsOwn'
  BY <1>1, <1>2, <1>3 DEF Inv, LinkedToItsOwn
<1>5. OpenOrdersUnlinked' /\ OpenOrdersHoldStock'
  BY <1>2, <1>3 DEF Inv, OpenOrdersUnlinked, OpenOrdersHoldStock
<1>6. ConsumptionsSettle' /\ ConsumedExactlyOnce'
  BY <1>3 DEF Inv, ConsumptionsSettle, ConsumedExactlyOnce, ConsumptionsOf, DispatchKey, ConsumeKey
<1>7. InvoiceStockEvents'
  BY <1>3 DEF Inv, InvoiceStockEvents, PostKey, ConsumeKey, VoidKey
<1>8. ShippedWasDeducted'
  BY <1>2, <1>3 DEF Inv, ShippedWasDeducted, PostKey
<1>9. RequestsRemember'
  BY <1>3, FinishRight DEF LinkConversion, Inv, InvoicesLast
<1> QED
  BY <1>4, <1>5, <1>6, <1>7, <1>8, <1>9 DEF Settled

\* The reversal of an invoice that is being voided keeps the invariant.
LEMMA ReverseInvoiceRight ==
  ASSUME Inv, TypeOK', NEW r \in Requests, ReverseInvoice(r)
  PROVE  Settled' /\ RequestsRemember'
<1>1. PICK i \in Invoices : i = request[r].invoice /\ Deducted(i)
  BY DEF ReverseInvoice, Inv, RequestsRemember, Remembers
<1>2. posted' = posted \cup {VoidKey(i)}
  <2>1. PICK lot \in Lots, q \in Int : lot = invoice[i].lot /\ q = invoice[i].quantity
    BY DEF Inv, TypeOK
  <2>2. PostEvent(VoidKey(i), Movements("AVAILABLE", OfLot(lot, q)))
    BY <1>1, <2>1 DEF ReverseInvoice
  <2> QED
    BY <2>2, InvoiceEventTyped DEF Inv
<1>3. UNCHANGED <<order, reservation, invoice>>
  BY DEF ReverseInvoice
<1>4. LinkedToItsOwn' /\ OpenOrdersUnlinked' /\ OpenOrdersHoldStock'
  BY <1>3 DEF Inv, LinkedToItsOwn, OpenOrdersUnlinked, OpenOrdersHoldStock
<1>5. /\ \A p \in Orders : DispatchKey(p) \in posted' <=> DispatchKey(p) \in posted
      /\ \A j \in Invoices : /\ PostKey(j) \in posted' <=> PostKey(j) \in posted
                             /\ VoidKey(j) \in posted' <=> VoidKey(j) \in posted \/ j = i
                             /\ ConsumeKey(j) \in posted' <=> ConsumeKey(j) \in posted
  BY <1>2, KeysDiffer
<1>6. ConsumptionsSettle'
  BY <1>3, <1>5 DEF Inv, ConsumptionsSettle, DispatchKey, ConsumeKey
<1>7. \A p \in Orders : ConsumptionsOf(p)' \cap posted' = ConsumptionsOf(p) \cap posted
  <2> TAKE p \in Orders
  <2>1. ConsumptionsOf(p)' = ConsumptionsOf(p)
    BY <1>3 DEF ConsumptionsOf, DispatchKey, ConsumeKey
  <2>2. VoidKey(i) \notin ConsumptionsOf(p)
    BY ConsumptionsAre, KeysDiffer
  <2> QED
    BY <1>2, <2>1, <2>2
<1>8. ConsumedExactlyOnce'
  BY <1>3, <1>7 DEF Inv, ConsumedExactlyOnce
<1>9. PostKey(i) \in posted \/ ConsumeKey(i) \in posted
  BY <1>1 DEF Deducted, Deductions
<1>10. InvoiceStockEvents'
  BY <1>3, <1>5, <1>9 DEF Inv, InvoiceStockEvents, PostKey, ConsumeKey, VoidKey
<1>11. ShippedWasDeducted'
  BY <1>3, <1>5 DEF Inv, ShippedWasDeducted, PostKey
<1>12. RequestsRemember'
  <2>1. \A s \in Requests \ {r} : request'[s] = request[s]
    BY DEF ReverseInvoice, Inv, TypeOK
  <2>2. request'[r].at = "markVoided"
    BY DEF ReverseInvoice, Inv, TypeOK
  <2>3. Remembers(r)'
    BY <2>2 DEF Remembers
  <2> QED
    BY <1>2, <1>3, <2>1, <2>3, OneRequestMoves DEF Inv, InvoicesLast
<1> QED
  BY <1>4, <1>6, <1>8, <1>10, <1>11, <1>12 DEF Settled

\* MarkVoided and MarkCancelled.
LEMMA StatusWrittenRight ==
  ASSUME Inv, NEW r \in Requests, NEW i, NEW status \in {"VOIDED", "CANCELLED"},
         SetInvoiceStatus(i, status), Finish(r), UNCHANGED <<order, reservation, posted>>
  PROVE  Settled' /\ RequestsRemember'
<1>1. Settled' /\ InvoicesLast
  BY InvoiceEnded DEF SetInvoiceStatus, Inv, TypeOK
<1> QED
  BY <1>1, FinishRight DEF Inv

\* Every step of a request that is not atomic keeps the invariant.
LEMMA RequestStepRight ==
  ASSUME Inv, TypeOK', RequestStepTaken
  PROVE  Settled' /\ RequestsRemember'
<1>1. ASSUME NEW r \in Requests, NEW o \in Orders, StartConversion(r, o)
      PROVE  Settled' /\ RequestsRemember'
  BY <1>1, BeginRight DEF StartConversion, ledgerVars, RequestStep
<1>2. ASSUME NEW r \in Requests, NEW i \in Invoices, StartVoid(r, i)
      PROVE  Settled' /\ RequestsRemember'
  <2>1. Deducted(i)
    BY <1>2 DEF StartVoid, Inv, InvoiceStockEvents, Deducted, Deductions
  <2> QED
    BY <1>2, <2>1, BeginRight DEF StartVoid, ledgerVars, RequestStep
<1>3. ASSUME NEW r \in Requests, NEW i \in Invoices, StartInvoiceCancellation(r, i)
      PROVE  Settled' /\ RequestsRemember'
  BY <1>3, BeginRight DEF StartInvoiceCancellation, ledgerVars, RequestStep
<1>4. ASSUME NEW r \in Requests, MarkVoided(r) \/ MarkCancelled(r)
      PROVE  Settled' /\ RequestsRemember'
  <2>1. PICK i : i = request[r].invoice
    OBVIOUS
  <2> QED
    BY <1>4, <2>1, StatusWrittenRight DEF MarkVoided, MarkCancelled, ledgerVars
<1>5. ASSUME NEW r \in Requests, Crash(r)
      PROVE  Settled' /\ RequestsRemember'
  BY <1>5, QuietStep, FinishRight DEF Crash, ledgerVars, Inv
<1> QED
  BY <1>1, <1>2, <1>3, <1>4, <1>5, DraftConversionRight, LinkConversionRight, ReverseInvoiceRight
  DEF RequestStepTaken

-----------------------------------------------------------------------------
(* The theorems.                                                           *)

\* Expiry and reservations by hand keep the invariant.
LEMMA StockStepRight ==
  ASSUME Inv, StockStep
  PROVE  Settled' /\ RequestsRemember'
<1>1. UNCHANGED <<order, reservation, invoice, request, posted>>
  BY DEF StockStep, Lapse, BlockBatch, UpdateBatch, ReserveByHand, ReleaseByHand, ReserveStock, ReleaseStock,
         ledgerVars
<1> QED
  BY <1>1, QuietStep, NoRequestMoves DEF Inv

\* The invariant holds at the start.
LEMMA InvInitially ==
  ASSUME Init
  PROVE  Inv
<1>1. TypeOK /\ SnapshotMatchesMovements
  BY InitTyped
<1>2. posted = {}
  BY DEF Init, LedgerInit
<1>3. RequestsRemember
  BY DEF Init, RequestsRemember, Remembers, Idle
<1>4. LinkedToItsOwn /\ OpenOrdersUnlinked /\ OpenOrdersHoldStock /\ ShippedWasDeducted
  BY DEF Init, LinkedToItsOwn, OpenOrdersUnlinked, OpenOrdersHoldStock, ShippedWasDeducted
<1>5. ConsumptionsSettle /\ ConsumedExactlyOnce /\ InvoiceStockEvents
  BY <1>2 DEF Init, ConsumptionsSettle, ConsumedExactlyOnce, InvoiceStockEvents
<1> QED
  BY <1>1, <1>3, <1>4, <1>5 DEF Inv

\* The invariant is inductive.
LEMMA InvKept ==
  ASSUME Inv, [Next]_vars
  PROVE  Inv'
<1>1. TypeOK' /\ SnapshotMatchesMovements'
  BY StepTyped
<1>2. Settled' /\ RequestsRemember'
  <2>1. CASE UNCHANGED vars
    BY <2>1, QuietStep, NoRequestMoves DEF vars, Inv
  <2> QED
    BY <1>1, <2>1, OrderStepRight, InvoiceStepRight, RequestStepRight, StockStepRight DEF Next
<1> QED
  BY <1>1, <1>2 DEF Inv, Settled

\* Inv is inductive, and holds always.
THEOREM InvariantHolds == Spec => []Inv
BY InvInitially, InvKept, PTL DEF Spec

\* The type invariant.
THEOREM TypeCorrect == Spec => []TypeOK
BY InvariantHolds, PTL DEF Inv

\* The snapshot rows never drift from the movement log, whichever of
\* postEvent, reserveStock and releaseStock writes them.
THEOREM SnapshotCorrect == Spec => []SnapshotMatchesMovements
BY InvariantHolds, PTL DEF Inv

\* An order's reservation is consumed by exactly one event.
THEOREM ConsumptionCorrect == Spec => []ConsumedExactlyOnce
BY InvariantHolds, PTL DEF Inv

\* An open order holds its stock and a cancelled one has given it back.
THEOREM OpenOrdersCorrect == Spec => []OpenOrdersHoldStock
BY InvariantHolds, PTL DEF Inv

\* What was dispatched was taken out of stock.
THEOREM ShipmentCorrect == Spec => []ShippedWasDeducted
BY InvariantHolds, PTL DEF Inv

\* An invoice deducts stock once, when it is posted, and is reversed only
\* after that.
THEOREM InvoiceEventsCorrect == Spec => []InvoiceStockEvents
BY InvariantHolds, PTL DEF Inv

\* A reservation that was released or consumed is never settled again.
THEOREM SettlementFinal == Spec => SettledIsFinal
<1> DEFINE Final == \A o \in Orders : reservation[o].status \in {"RELEASED", "CONSUMED"} =>
                       reservation'[o] = reservation[o]
<1>1. ASSUME Inv, [Next]_vars
      PROVE  Final
  <2>1. ASSUME NEW o \in Orders, NEW lot \in Lots, NEW q \in 1..MaxQuantity, CreateOrder(o, lot, q)
        PROVE  Final
    <3>1. reservation[o].status = "NONE"
      BY <1>1, <2>1 DEF CreateOrder, Inv, OpenOrdersUnlinked
    <3> QED
      BY <1>1, <2>1, <3>1 DEF CreateOrder, Inv, TypeOK
  <2>2. ASSUME NEW o \in Orders, Dispatch(o) \/ CancelOrder(o)
        PROVE  Final
    BY <1>1, <2>2 DEF Dispatch, CancelOrder, ConsumeForOnlineDispatch, Settle, Inv, TypeOK
  <2>3. ASSUME NEW i \in Invoices, PostInvoice(i)
        PROVE  Final
    <3>1. ASSUME NEW o \in LinkedOrders(i), ConsumeForOrder(o, i)
          PROVE  Final
      BY <1>1, <3>1 DEF ConsumeForOrder, Settle, LinkedOrders, Inv, TypeOK
    <3> QED
      BY <2>3, <3>1 DEF PostInvoice
  <2>4. CASE UNCHANGED reservation
    BY <2>4
  <2>5. CASE OrderStep
    BY <2>1, <2>2, <2>4, <2>5 DEF OrderStep, Progress
  <2>6. CASE InvoiceStep
    BY <2>3, <2>4, <2>6 DEF InvoiceStep, CreateInvoice, PayInvoice
  <2>7. CASE RequestStepTaken
    BY <2>4, <2>7 DEF RequestStepTaken, StartConversion, DraftConversion, LinkConversion, StartVoid,
                      ReverseInvoice, MarkVoided, StartInvoiceCancellation, MarkCancelled, Crash
  <2>8. CASE StockStep
    BY <2>4, <2>8 DEF StockStep, Lapse, BlockBatch, UpdateBatch, ReserveByHand, ReleaseByHand
  <2> QED
    BY <1>1, <2>4, <2>5, <2>6, <2>7, <2>8 DEF Next, vars
<1> QED
  BY <1>1, InvariantHolds, PTL DEF Spec, SettledIsFinal

-----------------------------------------------------------------------------
(* The refinement of StockBook.                                            *)

OnHand == [l \in Lots |-> snapshot[l]["AVAILABLE"] + snapshot[l]["RESERVED"]]

SaleEvents == {DispatchKey(o) : o \in Orders} \cup {ConsumeKey(i) : i \in Invoices}
                \cup {PostKey(i) : i \in Invoices}

\* Reserving and releasing move stock between the two states.
LEMMA TransferInvisible ==
  ASSUME TypeOK, NEW items \in [Lots -> Nat], ReserveStock(items) \/ ReleaseStock(items)
  PROVE  OnHand' = OnHand /\ posted' = posted
<1>1. posted' = posted
  BY DEF ReserveStock, ReleaseStock
<1>2. \A l \in Lots : snapshot'[l]["AVAILABLE"] + snapshot'[l]["RESERVED"]
                        = snapshot[l]["AVAILABLE"] + snapshot[l]["RESERVED"]
  BY FulfilmentAssumption
  DEF ReserveStock, ReleaseStock, Add, MovementPair, TypeOK, LedgerTypeOK
<1> QED
  BY <1>1, <1>2 DEF OnHand

\* An event moves stock of one state, in one direction.
LEMMA EventVisible ==
  ASSUME TypeOK, TypeOK', NEW key, NEW state \in {"AVAILABLE", "RESERVED"}, NEW items \in [Lots -> Int],
         PostEvent(key, Movements(state, items))
  PROVE  \/ posted' = posted /\ OnHand' = OnHand
         \/ /\ key \notin posted /\ posted' = posted \cup {key}
            /\ \A l \in Lots : OnHand[l]' = OnHand[l] + items[l] /\ OnHand[l]' >= 0
<1>1. CASE key \in posted
  BY <1>1 DEF PostEvent, ledgerVars, OnHand
<1>2. CASE key \notin posted
  <2>1. \A l \in Lots : snapshot'[l]["AVAILABLE"] + snapshot'[l]["RESERVED"]
                          = snapshot[l]["AVAILABLE"] + snapshot[l]["RESERVED"] + items[l]
    BY <1>2, FulfilmentAssumption
    DEF PostEvent, ApplyMovements, Add, Movements, TypeOK, LedgerTypeOK
  <2>2. \A l \in Lots : snapshot'[l]["AVAILABLE"] + snapshot'[l]["RESERVED"] >= 0
    BY FulfilmentAssumption DEF TypeOK, LedgerTypeOK
  <2> QED
    BY <1>2, <2>1, <2>2 DEF OnHand, PostEvent
<1> QED
  BY <1>1, <1>2

\* An event that takes stock out is a sale.
LEMMA DeductionIsSale ==
  ASSUME TypeOK, TypeOK', NEW key \in SaleEvents, NEW state \in {"AVAILABLE", "RESERVED"},
         NEW items \in [Lots -> Int], \A l \in Lots : items[l] <= 0,
         PostEvent(key, Movements(state, items))
  PROVE  [Book!BookNext]_(Book!bookVars)
<1>1. \/ posted' = posted /\ OnHand' = OnHand
      \/ /\ key \notin posted /\ posted' = posted \cup {key}
         /\ \A l \in Lots : OnHand[l]' = OnHand[l] + items[l] /\ OnHand[l]' >= 0
  BY EventVisible
<1>2. \A l \in Lots : OnHand[l] \in Nat
  BY FulfilmentAssumption DEF OnHand, TypeOK, LedgerTypeOK
<1>3. \A l \in Lots : items[l] \in Int
  OBVIOUS
<1>4. CASE posted' = posted /\ OnHand' = OnHand
  BY <1>4 DEF Book!bookVars, OnHand
<1>5. CASE /\ key \notin posted /\ posted' = posted \cup {key}
           /\ \A l \in Lots : OnHand[l]' = OnHand[l] + items[l] /\ OnHand[l]' >= 0
  <2>1. \A l \in Lots : 0 <= OnHand[l]' /\ OnHand[l]' <= OnHand[l]
    BY <1>2, <1>3, <1>5
  <2>2. Book!Sell(key)
    BY <1>5, <2>1 DEF Book!Sell, SaleEvents, OnHand
  <2> QED
    BY <2>2 DEF Book!BookNext, SaleEvents
<1> QED
  BY <1>1, <1>4, <1>5

\* The two consumptions of a reservation are sales.
LEMMA ConsumptionIsSale ==
  ASSUME TypeOK, TypeOK', NEW o \in Orders, NEW key \in SaleEvents,
         PostEvent(key, Movements("RESERVED", Outbound(reservation[o].items)))
  PROVE  [Book!BookNext]_(Book!bookVars)
<1>1. PICK items \in [Lots -> Nat] : items = reservation[o].items
  BY DEF TypeOK
<1>2. PICK out \in [Lots -> Int] : out = Outbound(items)
  BY <1>1, OutboundType
<1>3. \A l \in Lots : out[l] <= 0
  BY <1>2 DEF Outbound
<1> QED
  BY <1>1, <1>2, <1>3, DeductionIsSale

\* An invoice without an order takes its line out of AVAILABLE.
LEMMA PostInvoiceIsSale ==
  ASSUME Inv, TypeOK', NEW i \in Invoices, PostInvoice(i)
  PROVE  [Book!BookNext]_(Book!bookVars)
<1>1. ASSUME NEW o \in LinkedOrders(i), ConsumeForOrder(o, i)
      PROVE  [Book!BookNext]_(Book!bookVars)
  BY <1>1, ConsumptionIsSale DEF ConsumeForOrder, LinkedOrders, SaleEvents, Inv
<1>2. CASE PostEvent(PostKey(i), Movements("AVAILABLE", OfLot(invoice[i].lot, - invoice[i].quantity)))
  <2>1. invoice[i].quantity \in Nat
    BY DEF Inv, TypeOK
  <2>2. PICK out \in [Lots -> Int] : out = OfLot(invoice[i].lot, - invoice[i].quantity)
    BY <2>1, OfLotType
  <2>3. \A l \in Lots : out[l] <= 0
    BY <2>1, <2>2 DEF OfLot
  <2> QED
    BY <1>2, <2>2, <2>3, DeductionIsSale DEF SaleEvents, Inv
<1> QED
  BY <1>1, <1>2 DEF PostInvoice

\* The reversal of an invoice is a return that answers its deduction.
LEMMA ReversalIsReturn ==
  ASSUME Inv, TypeOK', NEW r \in Requests, ReverseInvoice(r)
  PROVE  [Book!BookNext]_(Book!bookVars)
<1>1. PICK i \in Invoices : i = request[r].invoice /\ Deducted(i)
  BY DEF ReverseInvoice, Inv, RequestsRemember, Remembers
<1>2. invoice[i].quantity \in Nat
  BY DEF Inv, TypeOK
<1>3. PICK back \in [Lots -> Int] : back = OfLot(invoice[i].lot, invoice[i].quantity)
  BY <1>2, OfLotType
<1>4. PostEvent(VoidKey(i), Movements("AVAILABLE", back))
  BY <1>1, <1>3 DEF ReverseInvoice
<1>5. \/ posted' = posted /\ OnHand' = OnHand
      \/ /\ VoidKey(i) \notin posted /\ posted' = posted \cup {VoidKey(i)}
         /\ \A l \in Lots : OnHand[l]' = OnHand[l] + back[l] /\ OnHand[l]' >= 0
  BY <1>4, EventVisible DEF Inv
<1>6. \A l \in Lots : OnHand[l] \in Nat /\ back[l] \in Int /\ back[l] >= 0
  BY <1>2, <1>3, FulfilmentAssumption DEF OnHand, Inv, TypeOK, LedgerTypeOK, OfLot
<1>7. CASE posted' = posted /\ OnHand' = OnHand
  BY <1>7 DEF Book!bookVars, OnHand
<1>8. CASE /\ VoidKey(i) \notin posted /\ posted' = posted \cup {VoidKey(i)}
           /\ \A l \in Lots : OnHand[l]' = OnHand[l] + back[l] /\ OnHand[l]' >= 0
  <2>1. \A l \in Lots : OnHand[l]' >= OnHand[l]
    BY <1>6, <1>8
  <2>2. {ConsumeKey(VoidKey(i)[2]), PostKey(VoidKey(i)[2])} \cap posted # {}
    BY <1>1 DEF Deducted, Deductions, VoidKey
  <2>3. Book!Return(VoidKey(i))
    BY <1>8, <2>1, <2>2 DEF Book!Return, OnHand
  <2> QED
    BY <2>3 DEF Book!BookNext
<1> QED
  BY <1>5, <1>7, <1>8

\* Every step of the sales side is a sale, a return, or invisible.
LEMMA StepIsBooked ==
  ASSUME Inv, TypeOK', [Next]_vars
  PROVE  [Book!BookNext]_(Book!bookVars)
<1>1. ASSUME OnHand' = OnHand, posted' = posted
      PROVE  [Book!BookNext]_(Book!bookVars)
  BY <1>1 DEF Book!bookVars, OnHand
<1>2. CASE UNCHANGED ledgerVars
  BY <1>1, <1>2 DEF ledgerVars, OnHand
<1>3. CASE OrderStep
  <2>1. ASSUME NEW o \in Orders, NEW lot \in Lots, NEW q \in 1..MaxQuantity, CreateOrder(o, lot, q)
        PROVE  [Book!BookNext]_(Book!bookVars)
    <3>1. PICK items \in [Lots -> 0..q] : ReserveStock(items)
      BY <2>1 DEF CreateOrder
    <3>2. items \in [Lots -> Nat]
      OBVIOUS
    <3> QED
      BY <1>1, <3>1, <3>2, TransferInvisible DEF Inv
  <2>2. ASSUME NEW o \in Orders, Dispatch(o)
        PROVE  [Book!BookNext]_(Book!bookVars)
    BY <1>2, <2>2, ConsumptionIsSale DEF Dispatch, ConsumeForOnlineDispatch, SaleEvents, Inv
  <2>3. ASSUME NEW o \in Orders, CancelOrder(o)
        PROVE  [Book!BookNext]_(Book!bookVars)
    <3>1. PICK items \in [Lots -> Nat] : items = reservation[o].items
      BY DEF Inv, TypeOK
    <3> QED
      BY <1>1, <1>2, <2>3, <3>1, TransferInvisible DEF CancelOrder, Inv
  <2> QED
    BY <1>2, <1>3, <2>1, <2>2, <2>3 DEF OrderStep, Progress
<1>4. CASE InvoiceStep
  BY <1>2, <1>4, PostInvoiceIsSale DEF InvoiceStep, CreateInvoice, PayInvoice
<1>5. CASE RequestStepTaken
  BY <1>2, <1>5, ReversalIsReturn
  DEF RequestStepTaken, StartConversion, DraftConversion, LinkConversion, StartVoid, MarkVoided,
      StartInvoiceCancellation, MarkCancelled, Crash
<1>6. CASE StockStep
  <2>1. ASSUME NEW l \in Lots, NEW q \in 1..MaxQuantity, ReserveByHand(l, q) \/ ReleaseByHand(l, q)
        PROVE  [Book!BookNext]_(Book!bookVars)
    <3>1. OfLot(l, q) \in [Lots -> Nat]
      BY FulfilmentAssumption, OfLotType
    <3> QED
      BY <1>1, <2>1, <3>1, TransferInvisible DEF ReserveByHand, ReleaseByHand, Inv
  <2> QED
    BY <1>2, <1>6, <2>1 DEF StockStep, Lapse, BlockBatch, UpdateBatch
<1> QED
  BY <1>2, <1>3, <1>4, <1>5, <1>6 DEF Next, vars, ledgerVars

\* The sales side implements StockBook.
THEOREM StockBookImplemented == Spec => StockIsBooked
<1>1. ASSUME Init
      PROVE  Book!BookInit
  <2>1. \A l \in Lots : snapshot[l]["AVAILABLE"] = Opening[l] /\ snapshot[l]["RESERVED"] = 0
    BY <1>1, FulfilmentAssumption DEF Init, LedgerInit, Movements
  <2>2. \A l \in Lots : Opening[l] \in Nat
    BY LedgerAssumption
  <2>3. Opening = [l \in Lots |-> Opening[l]]
    BY LedgerAssumption
  <2>4. \A l \in Lots : snapshot[l]["AVAILABLE"] + snapshot[l]["RESERVED"] = Opening[l]
    <3> TAKE l \in Lots
    <3>1. PICK n \in Nat : n = Opening[l]
      BY <2>2
    <3>2. snapshot[l]["AVAILABLE"] = n /\ snapshot[l]["RESERVED"] = 0
      BY <2>1, <3>1
    <3>3. n + 0 = n
      BY <3>1
    <3> QED
      BY <3>1, <3>2, <3>3
  <2>5. OnHand = Opening
    BY <2>3, <2>4 DEF OnHand
  <2> QED
    BY <1>1, <2>5 DEF Book!BookInit, Init, LedgerInit, OnHand
<1>2. ASSUME Inv, [Next]_vars
      PROVE  [Book!BookNext]_(Book!bookVars)
  BY <1>2, InvKept, StepIsBooked DEF Inv
<1> QED
  BY <1>1, <1>2, InvariantHolds, PTL DEF Spec, StockIsBooked, Book!BookSpec

-----------------------------------------------------------------------------
(* The RESERVED rows add up.                                               *)

\* What lot l owes to the reservation of each order.
Owed(l) == [o \in Orders |-> IF reservation[o].status = "ACTIVE" THEN reservation[o].items[l] ELSE 0]

\* What is actively reserved of a lot is the sum over the orders, before a step
\* and after it.
LEMMA ReservedIsSum ==
  ASSUME NEW l
  PROVE  ActivelyReserved(l) = Sum(Owed(l), Orders) /\ ActivelyReserved(l)' = Sum(Owed(l)', Orders)
BY DEF ActivelyReserved, SumFunction, Sum, Owed

\* What an order owes of a lot is an integer.
LEMMA OwedIsInt ==
  ASSUME TypeOK, NEW l \in Lots, NEW o \in Orders
  PROVE  Owed(l)[o] \in Int
BY DEF TypeOK, Owed

\* When one reservation changes, the sums change by what it owed before and after.
LEMMA OneReservationMoves ==
  ASSUME TypeOK, TypeOK', NEW o \in Orders, NEW new, reservation' = [reservation EXCEPT ![o] = new],
         NEW l \in Lots
  PROVE  ActivelyReserved(l)' = ActivelyReserved(l) + (Owed(l)'[o] - Owed(l)[o])
<1> DEFINE before == Owed(l)
           after == Owed(l)'
<1>1. \A p \in Orders \ {o} : reservation'[p] = reservation[p]
  BY DEF TypeOK
<1>2. \A p \in Orders \ {o} : after[p] = before[p]
  BY <1>1 DEF Owed
<1>3. \A p \in Orders : before[p] \in Int
  BY OwedIsInt
<1>4. after[o] \in Int
  BY DEF TypeOK, Owed
<1> HIDE DEF before, after
<1>5. Sum(after, Orders) = Sum(before, Orders) + (after[o] - before[o])
  BY <1>2, <1>3, <1>4, SumChanges, FinitelyManyOrders
<1> QED
  BY <1>5, ReservedIsSum DEF before, after

\* The RESERVED rows change by what an event moves.
LEMMA ReservedRowMoves ==
  ASSUME TypeOK, NEW delta \in Rows, ApplyMovements(delta), NEW l \in Lots
  PROVE  snapshot'[l]["RESERVED"] = snapshot[l]["RESERVED"] + delta[l]["RESERVED"]
BY FulfilmentAssumption DEF ApplyMovements, Add, TypeOK, LedgerTypeOK

\* Nothing reserved moves, or only stock that is AVAILABLE does.
LEMMA ReservedRowsStay ==
  ASSUME TypeOK, ReservedRowsAddUp, UNCHANGED <<reservation, manual>>,
         \A l \in Lots : snapshot'[l]["RESERVED"] = snapshot[l]["RESERVED"]
  PROVE  ReservedRowsAddUp'
BY DEF ReservedRowsAddUp, ActivelyReserved

\* An event in AVAILABLE.
LEMMA AvailableMoves ==
  ASSUME TypeOK, NEW key, NEW lot, NEW q \in Int,
         PostEvent(key, Movements("AVAILABLE", OfLot(lot, q))), NEW l \in Lots
  PROVE  snapshot'[l]["RESERVED"] = snapshot[l]["RESERVED"]
<1> DEFINE delta == Movements("AVAILABLE", OfLot(lot, q))
<1>1. delta \in Rows
  BY OfLotType, MovementsType
<1>2. delta[l]["RESERVED"] = 0
  BY FulfilmentAssumption DEF Movements
<1>3. snapshot[l]["RESERVED"] \in Int
  BY FulfilmentAssumption DEF TypeOK, LedgerTypeOK
<1>4. CASE key \in posted
  BY <1>4 DEF PostEvent, ledgerVars
<1>5. CASE key \notin posted
  <2>1. ApplyMovements(delta)
    BY <1>5 DEF PostEvent
  <2>2. snapshot'[l]["RESERVED"] = snapshot[l]["RESERVED"] + delta[l]["RESERVED"]
    BY <2>1, <1>1, ReservedRowMoves
  <2> QED
    BY <2>2, <1>2, <1>3
<1> QED
  BY <1>4, <1>5

\* Settling an ACTIVE reservation whose stock leaves the RESERVED rows.
LEMMA SettlingAddsUp ==
  ASSUME TypeOK, TypeOK', ReservedRowsAddUp, NEW o \in Orders, reservation[o].status = "ACTIVE",
         NEW status \in ReservationStatus \ {"ACTIVE"}, Settle(o, status), UNCHANGED manual,
         \A l \in Lots : snapshot'[l]["RESERVED"] = snapshot[l]["RESERVED"] - reservation[o].items[l]
  PROVE  ReservedRowsAddUp'
<1>1. SUFFICES ASSUME NEW l \in Lots
               PROVE  snapshot'[l]["RESERVED"] = ActivelyReserved(l)' + manual[l]
  BY DEF ReservedRowsAddUp
<1>2. PICK new : reservation' = [reservation EXCEPT ![o] = new]
  BY DEF Settle
<1>3. Owed(l)[o] = reservation[o].items[l] /\ Owed(l)'[o] = 0
  BY DEF Owed, Settle, TypeOK
<1>4. ActivelyReserved(l)' = ActivelyReserved(l) - reservation[o].items[l]
  <2>1. ActivelyReserved(l)' = ActivelyReserved(l) + (Owed(l)'[o] - Owed(l)[o])
    BY <1>2, OneReservationMoves
  <2>2. ActivelyReserved(l) \in Int /\ reservation[o].items[l] \in Int
    BY OwedIsInt, SumIsInt, ReservedIsSum, FinitelyManyOrders DEF TypeOK
  <2> QED
    BY <1>3, <2>1, <2>2
<1>5. /\ snapshot[l]["RESERVED"] = ActivelyReserved(l) + manual[l]
      /\ ActivelyReserved(l) \in Int /\ manual[l] \in Int /\ reservation[o].items[l] \in Int
  BY OwedIsInt, SumIsInt, ReservedIsSum, FinitelyManyOrders DEF TypeOK, ReservedRowsAddUp
<1> QED
  BY <1>4, <1>5

\* Consuming the reservation of an order under a key that was not used.
LEMMA ConsumingAddsUp ==
  ASSUME TypeOK, TypeOK', ReservedRowsAddUp, NEW o \in Orders, reservation[o].status = "ACTIVE",
         NEW key, key \notin posted,
         PostEvent(key, Movements("RESERVED", Outbound(reservation[o].items))),
         Settle(o, "CONSUMED"), UNCHANGED manual
  PROVE  ReservedRowsAddUp'
<1> DEFINE delta == Movements("RESERVED", Outbound(reservation[o].items))
<1>1. reservation[o].items \in [Lots -> Nat]
  BY DEF TypeOK
<1>2. delta \in Rows
  BY <1>1, OutboundType, MovementsType
<1>3. ApplyMovements(delta)
  BY DEF PostEvent
<1>4. ASSUME NEW l \in Lots
      PROVE  snapshot'[l]["RESERVED"] = snapshot[l]["RESERVED"] - reservation[o].items[l]
  <2>1. delta[l]["RESERVED"] = - reservation[o].items[l]
    BY FulfilmentAssumption DEF Movements, Outbound
  <2>2. snapshot'[l]["RESERVED"] = snapshot[l]["RESERVED"] + delta[l]["RESERVED"]
    BY <1>2, <1>3, ReservedRowMoves
  <2>3. snapshot[l]["RESERVED"] \in Int /\ reservation[o].items[l] \in Int
    BY <1>1, FulfilmentAssumption DEF TypeOK, LedgerTypeOK
  <2> QED
    BY <2>1, <2>2, <2>3
<1> QED
  BY <1>4, SettlingAddsUp DEF ReservationStatus

\* What reserveStock and releaseStock do to the RESERVED rows.
LEMMA ReservedByPair ==
  ASSUME TypeOK, NEW items \in [Lots -> Nat], NEW l \in Lots
  PROVE  /\ ReserveStock(items) => snapshot'[l]["RESERVED"] = snapshot[l]["RESERVED"] + items[l]
         /\ ReleaseStock(items) => snapshot'[l]["RESERVED"] = snapshot[l]["RESERVED"] - items[l]
<1>1. snapshot[l]["RESERVED"] \in Int /\ "RESERVED" \in StockStates
  BY FulfilmentAssumption DEF TypeOK, LedgerTypeOK
<1>2. ReserveStock(items) => snapshot'[l]["RESERVED"] = snapshot[l]["RESERVED"] + items[l]
  BY <1>1 DEF ReserveStock, Add, MovementPair
<1>3. ReleaseStock(items) => snapshot'[l]["RESERVED"] = snapshot[l]["RESERVED"] - items[l]
  BY <1>1 DEF ReleaseStock, Add, MovementPair
<1> QED
  BY <1>2, <1>3

\* Steps of the orders move the RESERVED row and one order's reservation
\* together.
LEMMA OrderStepAddsUp ==
  ASSUME Inv, TypeOK', ReservedRowsAddUp, OrderStep
  PROVE  ReservedRowsAddUp'
<1> USE DEF Inv
<1>1. ASSUME NEW o \in Orders, NEW lot \in Lots, NEW q \in 1..MaxQuantity, CreateOrder(o, lot, q)
      PROVE  ReservedRowsAddUp'
  <2>1. PICK items \in [Lots -> 0..q] :
          /\ ReserveStock(items)
          /\ reservation' = [reservation EXCEPT ![o] = [status |-> "ACTIVE", items |-> items]]
    BY <1>1 DEF CreateOrder
  <2>2. items \in [Lots -> Nat]
    BY FulfilmentAssumption
  <2>3. SUFFICES ASSUME NEW l \in Lots
                 PROVE  snapshot'[l]["RESERVED"] = ActivelyReserved(l)' + manual[l]'
    BY DEF ReservedRowsAddUp
  <2>4. reservation[o].status = "NONE"
    BY <1>1 DEF CreateOrder, OpenOrdersUnlinked
  <2>5. Owed(l)[o] = 0 /\ Owed(l)'[o] = items[l]
    BY <2>1, <2>4 DEF Owed, TypeOK
  <2>6. ActivelyReserved(l)' = ActivelyReserved(l) + (Owed(l)'[o] - Owed(l)[o])
    BY <2>1, OneReservationMoves
  <2>7. snapshot'[l]["RESERVED"] = snapshot[l]["RESERVED"] + items[l]
    BY <2>1, <2>2, ReservedByPair
  <2>8. /\ snapshot[l]["RESERVED"] = ActivelyReserved(l) + manual[l]
        /\ ActivelyReserved(l) \in Int /\ manual[l] \in Int /\ items[l] \in Int
    BY <2>2, OwedIsInt, SumIsInt, ReservedIsSum, FinitelyManyOrders DEF TypeOK, ReservedRowsAddUp
  <2>9. manual' = manual
    BY <1>1 DEF CreateOrder
  <2> QED
    BY <2>5, <2>6, <2>7, <2>8, <2>9
<1>2. ASSUME NEW o \in Orders, NEW status \in OrderStatus, Progress(o, status)
      PROVE  ReservedRowsAddUp'
  BY <1>2, ReservedRowsStay DEF Progress, ledgerVars
<1>3. ASSUME NEW o \in Orders, Dispatch(o)
      PROVE  ReservedRowsAddUp'
  <2>1. CASE UNCHANGED <<ledgerVars, reservation>>
    BY <1>3, <2>1, ReservedRowsStay DEF Dispatch, ledgerVars
  <2>2. CASE /\ reservation[o].status = "ACTIVE"
             /\ PostEvent(DispatchKey(o), Movements("RESERVED", Outbound(reservation[o].items)))
             /\ Settle(o, "CONSUMED")
    <3>1. DispatchKey(o) \notin posted
      BY <2>2 DEF ConsumptionsSettle
    <3> QED
      BY <1>3, <2>2, <3>1, ConsumingAddsUp DEF Dispatch
  <2> QED
    BY <1>3, <2>1, <2>2 DEF Dispatch, ConsumeForOnlineDispatch
<1>4. ASSUME NEW o \in Orders, CancelOrder(o)
      PROVE  ReservedRowsAddUp'
  <2>1. CASE reservation[o].status = "ACTIVE"
    <3>1. ReleaseStock(reservation[o].items) /\ Settle(o, "RELEASED") /\ UNCHANGED manual
      BY <1>4, <2>1 DEF CancelOrder
    <3>2. reservation[o].items \in [Lots -> Nat]
      BY DEF TypeOK
    <3>3. \A l \in Lots : snapshot'[l]["RESERVED"] = snapshot[l]["RESERVED"] - reservation[o].items[l]
      BY <3>1, <3>2, ReservedByPair
    <3> QED
      BY <2>1, <3>1, <3>3, SettlingAddsUp DEF ReservationStatus
  <2>2. CASE reservation[o].status # "ACTIVE"
    BY <1>4, <2>2, ReservedRowsStay DEF CancelOrder, ledgerVars
  <2> QED
    BY <2>1, <2>2
<1> QED
  BY <1>1, <1>2, <1>3, <1>4 DEF OrderStep

\* So does an invoice that consumes the reservation of its order.
LEMMA PostInvoiceAddsUp ==
  ASSUME Inv, TypeOK', ReservedRowsAddUp, NEW i \in Invoices, PostInvoice(i)
  PROVE  ReservedRowsAddUp'
<1> USE DEF Inv
<1>1. ASSUME NEW o \in LinkedOrders(i), ConsumeForOrder(o, i)
      PROVE  ReservedRowsAddUp'
  <2>1. o \in Orders /\ invoice[i].draftedFor = o
    BY <1>1, FulfilmentAssumption DEF LinkedOrders, LinkedToItsOwn
  <2>2. ConsumeKey(i) \notin posted
    BY <1>1, <2>1 DEF ConsumeForOrder, ConsumptionsSettle
  <2> QED
    BY <1>1, <2>1, <2>2, ConsumingAddsUp DEF ConsumeForOrder, PostInvoice
<1>2. ASSUME PostEvent(PostKey(i), Movements("AVAILABLE", OfLot(invoice[i].lot, - invoice[i].quantity))),
             UNCHANGED reservation
      PROVE  ReservedRowsAddUp'
  <2>1. - invoice[i].quantity \in Int
    BY DEF TypeOK
  <2>2. \A l \in Lots : snapshot'[l]["RESERVED"] = snapshot[l]["RESERVED"]
    BY <1>2, <2>1, AvailableMoves
  <2> QED
    BY <1>2, <2>2, ReservedRowsStay DEF PostInvoice
<1> QED
  BY <1>1, <1>2 DEF PostInvoice

\* A reservation by hand moves the RESERVED row and its own total together.
LEMMA ByHandAddsUp ==
  ASSUME TypeOK, ReservedRowsAddUp, NEW l \in Lots, NEW q \in 1..MaxQuantity,
         ReserveByHand(l, q) \/ ReleaseByHand(l, q)
  PROVE  ReservedRowsAddUp'
<1>1. SUFFICES ASSUME NEW k \in Lots
               PROVE  snapshot'[k]["RESERVED"] = ActivelyReserved(k)' + manual'[k]
  BY DEF ReservedRowsAddUp
<1> DEFINE here == IF k = l THEN q ELSE 0
<1>2. q \in Nat /\ OfLot(l, q) \in [Lots -> Nat] /\ OfLot(l, q)[k] = here
  BY FulfilmentAssumption, OfLotType DEF OfLot
<1>3. ActivelyReserved(k)' = ActivelyReserved(k)
  BY DEF ReserveByHand, ReleaseByHand, ActivelyReserved
<1>4. /\ snapshot[k]["RESERVED"] = ActivelyReserved(k) + manual[k]
      /\ ActivelyReserved(k) \in Int /\ manual[k] \in Int
  BY OwedIsInt, SumIsInt, ReservedIsSum, FinitelyManyOrders DEF TypeOK, ReservedRowsAddUp
<1>5. CASE ReserveByHand(l, q)
  <2>1. manual'[k] = manual[k] + here
    BY <1>2, <1>4, <1>5 DEF ReserveByHand, TypeOK
  <2>2. snapshot'[k]["RESERVED"] = snapshot[k]["RESERVED"] + here
    BY <1>2, <1>5, ReservedByPair DEF ReserveByHand
  <2> QED
    BY <1>2, <1>3, <1>4, <2>1, <2>2
<1>6. CASE ReleaseByHand(l, q)
  <2>1. manual'[k] = manual[k] - here
    BY <1>2, <1>4, <1>6 DEF ReleaseByHand, TypeOK
  <2>2. snapshot'[k]["RESERVED"] = snapshot[k]["RESERVED"] - here
    BY <1>2, <1>6, ReservedByPair DEF ReleaseByHand
  <2> QED
    BY <1>2, <1>3, <1>4, <2>1, <2>2
<1> QED
  BY <1>5, <1>6

\* No step disturbs that the RESERVED rows add up.
LEMMA StepAddsUp ==
  ASSUME Inv, Inv', ReservedRowsAddUp, [Next]_vars
  PROVE  ReservedRowsAddUp'
<1> USE DEF Inv
<1>1. CASE OrderStep
  BY <1>1, OrderStepAddsUp
<1>2. CASE InvoiceStep
  <2>1. ASSUME NEW i \in Invoices, NEW lot \in Lots, NEW q \in 1..MaxQuantity, CreateInvoice(i, lot, q)
        PROVE  ReservedRowsAddUp'
    BY <2>1, ReservedRowsStay DEF CreateInvoice, ledgerVars
  <2>2. ASSUME NEW i \in Invoices, PayInvoice(i)
        PROVE  ReservedRowsAddUp'
    BY <2>2, ReservedRowsStay DEF PayInvoice, ledgerVars
  <2> QED
    BY <1>2, <2>1, <2>2, PostInvoiceAddsUp DEF InvoiceStep
<1>3. CASE RequestStepTaken
  <2>1. ASSUME NEW r \in Requests, ReverseInvoice(r)
        PROVE  ReservedRowsAddUp'
    <3>1. invoice[request[r].invoice].quantity \in Int
      BY <2>1 DEF ReverseInvoice, RequestsRemember, Remembers, TypeOK
    <3>2. \A l \in Lots : snapshot'[l]["RESERVED"] = snapshot[l]["RESERVED"]
      BY <2>1, <3>1, AvailableMoves DEF ReverseInvoice
    <3> QED
      BY <2>1, <3>2, ReservedRowsStay DEF ReverseInvoice
  <2>2. CASE UNCHANGED <<ledgerVars, reservation, manual>>
    BY <2>2, ReservedRowsStay DEF ledgerVars
  <2> QED
    BY <1>3, <2>1, <2>2
    DEF RequestStepTaken, StartConversion, DraftConversion, LinkConversion, StartVoid, MarkVoided,
        StartInvoiceCancellation, MarkCancelled, Crash
<1>4. CASE StockStep
  <2>1. CASE UNCHANGED <<ledgerVars, reservation, manual>>
    BY <2>1, ReservedRowsStay DEF ledgerVars
  <2> QED
    BY <1>4, <2>1, ByHandAddsUp DEF StockStep, Lapse, BlockBatch, UpdateBatch
<1>5. CASE UNCHANGED vars
  BY <1>5, ReservedRowsStay DEF vars
<1> QED
  BY <1>1, <1>2, <1>3, <1>4, <1>5 DEF Next

\* Nothing is reserved at first.
LEMMA InitAddsUp ==
  ASSUME Init
  PROVE  ReservedRowsAddUp
<1>1. SUFFICES ASSUME NEW l \in Lots
               PROVE  snapshot[l]["RESERVED"] = ActivelyReserved(l) + manual[l]
  BY DEF ReservedRowsAddUp
<1>2. snapshot[l]["RESERVED"] = 0 /\ manual[l] = 0
  BY FulfilmentAssumption DEF Init, LedgerInit, Movements
<1>3. \A o \in Orders : Owed(l)[o] = 0
  BY DEF Init, Owed
<1>4. ActivelyReserved(l) = 0
  BY <1>3, SumOfZeros, ReservedIsSum, FinitelyManyOrders
<1> QED
  BY <1>2, <1>4

\* The RESERVED rows hold exactly what ACTIVE reservations and reservations by
\* hand add up to, for any finite set of orders (reserveStock, releaseStock,
\* consumeForOrder, consumeForOnlineDispatch).
THEOREM ReservedAddsUp == Spec => []ReservedRowsAddUp
<1>1. Init => ReservedRowsAddUp
  BY InitAddsUp
<1>2. Inv /\ Inv' /\ ReservedRowsAddUp /\ [Next]_vars => ReservedRowsAddUp'
  BY StepAddsUp
<1> QED
  BY <1>1, <1>2, InvariantHolds, PTL DEF Spec

-----------------------------------------------------------------------------
(* The allocation loop.                                                    *)

\* The query returns finitely many batches.
LEMMA PositionsAreFinite == IsFiniteSet(Positions)
BY AllocationAssumption, FS_Interval DEF Positions

\* What batches hold together is a quantity.
LEMMA BatchesHold ==
  ASSUME NEW table \in [Positions -> Nat]
  PROVE  SumFunction(table) \in Nat
BY PositionsAreFinite, SumIsNat DEF Sum, SumFunction

\* Allocating nothing adds up to nothing.
LEMMA NothingAllocated == SumFunction([p \in Positions |-> 0]) = 0
BY PositionsAreFinite, SumOfZeros DEF Sum, SumFunction

\* The loop starts with the invariant.
LEMMA LoopInvInitially ==
  ASSUME AllocationInit
  PROVE  LoopInv
<1>1. 0 \in Nat /\ wanted \in Nat /\ stock \in [Positions -> Nat] /\ next \in 1..(Candidates + 1)
  BY AllocationAssumption DEF AllocationInit
<1>2. SumFunction(allocations) = 0
  BY NothingAllocated DEF AllocationInit
<1>3. /\ next = 1 /\ remaining = wanted /\ outcome = "checking"
      /\ allocations \in [Positions -> Nat] /\ \A p \in Positions : allocations[p] = 0 /\ ~(p < 1)
  BY AllocationAssumption DEF AllocationInit, Positions
<1> HIDE DEF SumFunction, TotalAvailable, Positions
<1> QED
  BY <1>1, <1>2, <1>3 DEF LoopInv

\* The check before the loop.
LEMMA CheckKeepsLoopInv ==
  ASSUME LoopInv, Check, SumFunction(stock) \in Nat
  PROVE  LoopInv'
<1>1. TotalAvailable < wanted \/ TotalAvailable >= wanted
  BY DEF LoopInv, TotalAvailable
<1>2. TotalAvailable' = TotalAvailable /\ SumFunction(allocations)' = SumFunction(allocations)
  BY DEF Check, TotalAvailable
<1> HIDE DEF TotalAvailable, SumFunction
<1> QED
  BY <1>1, <1>2 DEF LoopInv, Check

\* One iteration: what it allocates leaves the rest.
LEMMA AllocateAddsUp ==
  ASSUME LoopInv, Allocate
  PROVE  /\ remaining' \in Nat /\ remaining' <= remaining
         /\ allocations' \in [Positions -> Nat]
         /\ allocations'[next] <= stock[next]
         /\ remaining' > 0 => allocations'[next] = stock[next]
         /\ \A p \in Positions \ {next} : allocations'[p] = allocations[p]
         /\ remaining' + SumFunction(allocations') = wanted
<1> DEFINE allocated == Lesser(remaining, stock[next])
<1>1. /\ next \in Positions /\ remaining \in Nat /\ stock[next] \in Nat
      /\ allocations \in [Positions -> Nat] /\ allocations[next] = 0 /\ next >= next
  BY DEF LoopInv, Allocate, Positions
<1>2. /\ allocated \in Nat /\ allocated <= remaining /\ allocated <= stock[next]
      /\ remaining - allocated > 0 => allocated = stock[next]
  BY <1>1 DEF Lesser
<1>3. allocations' = [allocations EXCEPT ![next] = allocated] /\ remaining' = remaining - allocated
  BY DEF Allocate
<1> HIDE DEF allocated
<1>4. /\ allocations' \in [Positions -> Nat] /\ allocations'[next] = allocated
      /\ \A p \in Positions \ {next} : allocations'[p] = allocations[p]
  BY <1>1, <1>2, <1>3
<1>5. IsFiniteSet(Positions)
  BY PositionsAreFinite
<1>6. Sum(allocations, Positions) \in Nat
  BY <1>1, <1>5, SumIsNat
<1>7. Sum(allocations', Positions) = Sum(allocations, Positions) + (allocated - 0)
  <2>1. /\ \A y \in Positions : allocations[y] \in Int
        /\ allocations'[next] \in Int
    BY <1>1, <1>2, <1>4
  <2> QED
    BY <1>1, <1>4, <1>5, <2>1, SumChanges
<1>8. DOMAIN allocations = Positions /\ DOMAIN allocations' = Positions
  BY <1>1, <1>4
<1>9. SumFunction(allocations) = Sum(allocations, Positions) /\ SumFunction(allocations') = Sum(allocations', Positions)
  BY <1>8 DEF Sum, SumFunction
<1>10. remaining + SumFunction(allocations) = wanted /\ wanted \in Nat
  BY DEF LoopInv
<1>11. remaining' \in Nat /\ remaining' <= remaining
  BY <1>1, <1>2, <1>3
<1>12. remaining' + SumFunction(allocations') = wanted
  <2> HIDE DEF Sum, SumFunction
  <2> QED
    BY <1>1, <1>2, <1>3, <1>6, <1>7, <1>9, <1>10
<1> QED
  BY <1>2, <1>3, <1>4, <1>11, <1>12

\* An iteration keeps the invariant: a later batch gives something only when
\* the earlier ones were emptied.
LEMMA AllocateKeepsLoopInv ==
  ASSUME LoopInv, Allocate
  PROVE  LoopInv'
<1>1. /\ stock' = stock /\ wanted' = wanted /\ outcome' = outcome /\ outcome = "allocating"
      /\ next' = next + 1 /\ next \in Positions /\ remaining > 0
  BY DEF Allocate
<1>2. TotalAvailable' = TotalAvailable
  BY <1>1 DEF TotalAvailable
<1>3. Candidates \in Nat /\ next \in 1..Candidates /\ next' \in 1..(Candidates + 1)
  BY <1>1, AllocationAssumption DEF Positions
<1>4. ASSUME NEW p \in Positions
      PROVE  /\ allocations'[p] <= stock[p]
             /\ p >= next + 1 => allocations'[p] = 0
             /\ p < next + 1 /\ remaining' > 0 => allocations'[p] = stock[p]
  <2>1. p \in Nat /\ next \in Nat
    BY <1>3, AllocationAssumption DEF Positions
  <2>2. CASE p = next
    BY <2>1, <2>2, AllocateAddsUp
  <2>3. CASE p # next
    <3>1. allocations'[p] = allocations[p] /\ remaining' \in Nat /\ remaining' <= remaining
      BY <2>3, AllocateAddsUp
    <3>2. /\ allocations[p] <= stock[p]
          /\ p >= next => allocations[p] = 0
          /\ p < next /\ remaining > 0 => allocations[p] = stock[p]
      BY DEF LoopInv
    <3> QED
      BY <1>1, <2>1, <2>3, <3>1, <3>2
  <2> QED
    BY <2>2, <2>3
<1>5. ASSUME NEW early \in Positions, NEW late \in Positions, early < late, allocations'[late] > 0
      PROVE  allocations'[early] = stock[early]
  <2>1. early \in Nat /\ late \in Nat /\ next \in Nat
    BY <1>3, AllocationAssumption DEF Positions
  <2>2. ~(late >= next + 1)
    BY <1>4, <1>5
  <2>3. early < next /\ early # next
    BY <1>5, <2>1, <2>2
  <2>4. allocations'[early] = allocations[early]
    BY <2>3, AllocateAddsUp
  <2>5. allocations[early] = stock[early]
    BY <1>1, <2>3 DEF LoopInv
  <2> QED
    BY <2>4, <2>5
<1>6. /\ remaining' \in Nat /\ allocations' \in [Positions -> Nat]
      /\ remaining' + SumFunction(allocations') = wanted
  BY AllocateAddsUp
<1>7. TotalAvailable >= wanted /\ stock \in [Positions -> Nat] /\ wanted \in Nat
  BY <1>1 DEF LoopInv
<1> HIDE DEF TotalAvailable, SumFunction
<1> QED
  BY <1>1, <1>2, <1>3, <1>4, <1>5, <1>6, <1>7 DEF LoopInv

\* The loop does not run out of batches: had something remained after the
\* last, every batch were empty and together they held the line.
LEMMA LoopEndsServed ==
  ASSUME LoopInv, LoopEnds
  PROVE  remaining = 0
<1>1. remaining \in Nat /\ next \in 1..(Candidates + 1) /\ wanted \in Nat /\ outcome = "allocating"
  BY DEF LoopInv, LoopEnds
<1>2. CASE remaining <= 0
  BY <1>1, <1>2
<1>3. CASE next \notin Positions /\ remaining > 0
  <2>1. next = Candidates + 1 /\ Candidates \in Nat
    BY <1>1, <1>3, AllocationAssumption DEF Positions
  <2>2. \A p \in Positions : p < next
    BY <2>1 DEF Positions
  <2>3. \A p \in Positions : allocations[p] = stock[p]
    BY <1>3, <2>2 DEF LoopInv
  <2>4. stock = allocations
    BY <2>3 DEF LoopInv
  <2>5. TotalAvailable >= wanted /\ remaining + SumFunction(allocations) = wanted
    BY <1>1 DEF LoopInv
  <2>6. stock \in [Positions -> Nat]
    BY DEF LoopInv
  <2>7. SumFunction(stock) \in Nat
    BY <2>6, BatchesHold
  <2>8. SumFunction(stock) >= wanted /\ remaining + SumFunction(stock) = wanted
    BY <2>4, <2>5 DEF TotalAvailable
  <2> HIDE DEF SumFunction
  <2> QED
    BY <1>1, <1>3, <2>7, <2>8
<1> QED
  BY <1>1, <1>2, <1>3 DEF LoopEnds

\* Every step of the loop keeps its invariant.
LEMMA LoopStepKeeps ==
  ASSUME LoopInv, [AllocationNext]_allocationVars
  PROVE  LoopInv'
<1>1. SumFunction(stock) \in Nat
  <2>1. stock \in [Positions -> Nat]
    BY DEF LoopInv
  <2> QED
    BY <2>1, BatchesHold
<1>2. CASE Check
  BY <1>1, <1>2, CheckKeepsLoopInv
<1>3. CASE Allocate
  BY <1>3, AllocateKeepsLoopInv
<1>4. CASE LoopEnds
  <2>1. remaining = 0
    BY <1>4, LoopEndsServed
  <2>2. TotalAvailable' = TotalAvailable
    BY <1>4 DEF LoopEnds, TotalAvailable
  <2> HIDE DEF TotalAvailable, SumFunction
  <2> QED
    BY <1>4, <2>1, <2>2 DEF LoopInv, LoopEnds
<1>5. CASE UNCHANGED allocationVars
  <2>1. TotalAvailable' = TotalAvailable
    BY <1>5 DEF allocationVars, TotalAvailable
  <2> HIDE DEF TotalAvailable, SumFunction
  <2> QED
    BY <1>5, <2>1 DEF LoopInv, allocationVars
<1> QED
  BY <1>2, <1>3, <1>4, <1>5 DEF AllocationNext

\* For every number of batches and every quantity: the loop of
\* reserveSalesOrderItem returns the first-expired-first-out allocation of
\* the whole line, and refuses only what the batches cannot cover.
THEOREM LoopAllocatesFefo == AllocationSpec => []AllocatesFefo
<1>1. LoopInv => AllocatesFefo
  <2> SUFFICES ASSUME LoopInv
      PROVE  AllocatesFefo
    OBVIOUS
  <2>1. ASSUME outcome = "done"
        PROVE  IsFefoAllocation(stock, [p \in Positions |-> p], wanted, allocations)
    <3>1. remaining = 0 /\ remaining + SumFunction(allocations) = wanted /\ DOMAIN allocations = Positions
      BY <2>1 DEF LoopInv
    <3>2. SumFunction(allocations) = wanted
      <4>1. allocations \in [Positions -> Nat]
        BY DEF LoopInv
      <4>2. SumFunction(allocations) \in Nat
        BY <4>1, BatchesHold
      <4> HIDE DEF SumFunction
      <4> QED
        BY <3>1, <4>2
    <3> HIDE DEF SumFunction
    <3> QED
      BY <3>1, <3>2 DEF LoopInv, IsFefoAllocation
  <2>2. outcome = "refused" => TotalAvailable < wanted
    BY DEF LoopInv
  <2> QED
    BY <2>1, <2>2 DEF AllocatesFefo
<1> QED
  BY <1>1, LoopInvInitially, LoopStepKeeps, PTL DEF AllocationSpec

-----------------------------------------------------------------------------
(* What the loop computes is determined by the stock.                      *)

\* Two first-expired-first-out allocations do not cross: where one takes less
\* from a batch than the other, it takes less or as much from every batch.
LEMMA AllocationsDoNotCross ==
  ASSUME NEW D, NEW held \in [D -> Nat], NEW rank \in [D -> Int],
         \A l \in D : \A m \in D : rank[l] = rank[m] => l = m,
         NEW quantity, NEW items \in [D -> Nat], NEW other \in [D -> Nat],
         IsFefoAllocation(held, rank, quantity, items), IsFefoAllocation(held, rank, quantity, other),
         NEW a \in D, items[a] < other[a], NEW b \in D
  PROVE  items[b] <= other[b]
<1> SUFFICES ASSUME other[b] < items[b]
             PROVE  FALSE
  OBVIOUS
<1>1. a # b /\ rank[a] # rank[b]
  OBVIOUS
<1>2. /\ \A l \in D : items[l] <= held[l] /\ other[l] <= held[l]
      /\ \A l \in D : \A m \in D : rank[l] < rank[m] /\ items[m] > 0 => items[l] = held[l]
      /\ \A l \in D : \A m \in D : rank[l] < rank[m] /\ other[m] > 0 => other[l] = held[l]
  BY DEF IsFefoAllocation
<1>3. items[a] \in Nat /\ items[b] \in Nat /\ other[a] \in Nat /\ other[b] \in Nat /\ held[a] \in Nat /\ held[b] \in Nat
  OBVIOUS
<1>4. CASE rank[a] < rank[b]
  <2>1. items[a] = held[a] /\ other[a] <= held[a]
    BY <1>2, <1>3, <1>4
  <2> QED
    BY <1>3, <2>1
<1>5. CASE rank[b] < rank[a]
  <2>1. other[b] = held[b] /\ items[b] <= held[b]
    BY <1>2, <1>3, <1>5
  <2> QED
    BY <1>3, <2>1
<1>6. rank[a] \in Int /\ rank[b] \in Int
  OBVIOUS
<1> QED
  BY <1>1, <1>4, <1>5, <1>6

\* Of batches with different expiry there is at most one first-expired-first-out
\* allocation of a line: what reserveSalesOrderItem reserves follows from the
\* stock it found.
THEOREM FefoIsUnique ==
  ASSUME NEW D, IsFiniteSet(D), NEW held \in [D -> Nat], NEW rank \in [D -> Int],
         \A l \in D : \A m \in D : rank[l] = rank[m] => l = m,
         NEW quantity, NEW items \in [D -> Nat], NEW other \in [D -> Nat],
         IsFefoAllocation(held, rank, quantity, items), IsFefoAllocation(held, rank, quantity, other)
  PROVE  items = other
<1>1. Sum(items, D) = quantity /\ Sum(other, D) = quantity
  BY DEF IsFefoAllocation, SumFunction, Sum
<1>2. CASE \A l \in D : items[l] <= other[l]
  <2>1. \A l \in D : items[l] = other[l]
    BY <1>1, <1>2, SumGrows
  <2> QED
    BY <2>1
<1>3. CASE \E l \in D : other[l] < items[l]
  <2>1. \A l \in D : other[l] <= items[l]
    BY <1>3, AllocationsDoNotCross
  <2>2. \A l \in D : other[l] = items[l]
    BY <1>1, <2>1, SumGrows
  <2> QED
    BY <2>2
<1> QED
  BY <1>2, <1>3
==============================================================================
