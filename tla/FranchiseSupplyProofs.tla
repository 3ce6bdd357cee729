------------------------- MODULE FranchiseSupplyProofs -------------------------
(***************************************************************************)
(* Proofs about the supply orders: a supply order never runs ahead of its  *)
(* sales order, what is dispatched was taken out of stock, every step is   *)
(* taken once and in turn, a store with stock keeps its branch, and the    *)
(* stock of the warehouse and of the stores adds up.                       *)
(***************************************************************************)
EXTENDS FranchiseSupply, SequenceTheorems, SumTheorems

-----------------------------------------------------------------------------
(* The path of a supply order, and ranks.                                  *)

\* The six statuses of a supply order, in their order.
LEMMA PathOfLifecycle ==
  /\ Lifecycle \in Seq(SupplyStatus) /\ Len(Lifecycle) = 6
  /\ Lifecycle[1] = "REQUESTED" /\ Lifecycle[2] = "APPROVED" /\ Lifecycle[3] = "PICKING"
  /\ Lifecycle[4] = "PACKED" /\ Lifecycle[5] = "DISPATCHED" /\ Lifecycle[6] = "RECEIVED"
BY DEF Lifecycle, SupplyStatus, Range

\* The statuses of a supply order are those of the path, and NONE before it
\* exists.
LEMMA Statuses ==
  SupplyStatus = {"NONE", "REQUESTED", "APPROVED", "PICKING", "PACKED", "DISPATCHED", "RECEIVED"}
<1>1. DOMAIN Lifecycle = 1..6
  BY DEF Lifecycle
<1>2. Range(Lifecycle) = {Lifecycle[i] : i \in 1..6}
  BY <1>1 DEF Range
<1>3. 1..6 = {1, 2, 3, 4, 5, 6}
  OBVIOUS
<1> QED
  BY <1>2, <1>3, PathOfLifecycle DEF SupplyStatus

\* A rank is one of five.
LEMMA RankIsBounded ==
  ASSUME NEW status
  PROVE  Rank(status) \in 0..4
BY DEF Rank

\* The path up to a status, and the next status, is the path up to that one.
LEMMA PathGrows ==
  ASSUME NEW n \in 0..5
  PROVE  Append(SubSeq(Lifecycle, 1, n), Lifecycle[n + 1]) = SubSeq(Lifecycle, 1, n + 1)
<1>1. SubSeq(Lifecycle, 1, n + 1) = SubSeq(Lifecycle, 1, (n + 1) - 1) \o <<Lifecycle[n + 1]>>
  BY PathOfLifecycle, SubSeqRecursiveSecond
<1>2. \A i \in 1..6 : Lifecycle[i] \in SupplyStatus
  BY PathOfLifecycle, ElementOfSeq
<1>3. SubSeq(Lifecycle, 1, n) \in Seq(SupplyStatus)
  BY <1>2, SubSeqProperties
<1>4. Append(SubSeq(Lifecycle, 1, n), Lifecycle[n + 1]) = SubSeq(Lifecycle, 1, n) \o <<Lifecycle[n + 1]>>
  BY <1>2, <1>3
<1> QED
  BY <1>1, <1>4

-----------------------------------------------------------------------------
(* The sales order only goes on: what a step must keep for the others.     *)

Onward ==
  /\ sales' \in [Orders -> SalesStatus] /\ reservation' \in [Orders -> ReservationStatus]
  /\ createdBy' \in [Orders -> Actors \cup {None}]
  /\ UnplacedHoldsNothing' /\ ShippedIsConsumed'
  /\ \A o \in Orders : \A n \in 0..4 : Reached(o, n) => Reached(o, n)'
  /\ \A o \in Orders : reservation[o] = "CONSUMED" => reservation'[o] = "CONSUMED"

\* A step that leaves the sales orders alone keeps what others need of them.
LEMMA StayingIsOnward ==
  ASSUME SupplyInv, UNCHANGED <<sales, reservation, createdBy>>
  PROVE  Onward
BY DEF SupplyInv, OrdersTypeOK, UnplacedHoldsNothing, ShippedIsConsumed, Onward, Reached

\* A sales order that is created is CONFIRMED, with an ACTIVE reservation.
LEMMA CreatingIsOnward ==
  ASSUME SupplyInv, NEW o \in Orders, NEW actor \in Actors, CreateOnline(o, actor)
  PROVE  Onward /\ Reached(o, 1)'
<1>1. sales[o] = "NONE" /\ sales' = [sales EXCEPT ![o] = "CONFIRMED"]
      /\ reservation' = [reservation EXCEPT ![o] = "ACTIVE"] /\ createdBy' = [createdBy EXCEPT ![o] = actor]
  BY DEF CreateOnline
<1>2. reservation[o] = "NONE"
  BY <1>1 DEF SupplyInv, UnplacedHoldsNothing
<1>3. /\ sales' \in [Orders -> SalesStatus] /\ reservation' \in [Orders -> ReservationStatus]
      /\ createdBy' \in [Orders -> Actors \cup {None}]
  BY <1>1 DEF SupplyInv, OrdersTypeOK, SalesStatus, ReservationStatus
<1>4. UnplacedHoldsNothing' /\ ShippedIsConsumed'
  BY <1>1 DEF SupplyInv, OrdersTypeOK, UnplacedHoldsNothing, ShippedIsConsumed
<1>5. \A d \in Orders : \A n \in 0..4 : Reached(d, n) => Reached(d, n)'
  BY <1>1 DEF SupplyInv, OrdersTypeOK, Reached, Rank
<1>6. \A d \in Orders : reservation[d] = "CONSUMED" => reservation'[d] = "CONSUMED"
  BY <1>1, <1>2 DEF SupplyInv, OrdersTypeOK
<1>7. Reached(o, 1)'
  BY <1>1 DEF SupplyInv, OrdersTypeOK, Reached, Rank
<1> QED
  BY <1>3, <1>4, <1>5, <1>6, <1>7 DEF Onward

\* What is consumed was reserved for a sales order.
LEMMA ConsumingConsumes ==
  ASSUME SupplyInv, NEW o \in Orders, ConsumeForOnlineDispatch(o)
  PROVE  /\ reservation' = [reservation EXCEPT ![o] = "CONSUMED"]
         /\ reservation[o] # "NONE" /\ sales[o] # "NONE"
BY DEF ConsumeForOnlineDispatch, warehouse, SupplyInv, OrdersTypeOK, UnplacedHoldsNothing

\* updateStatus reaches the status it is asked for, and dispatch consumes the
\* stock.
LEMMA UpdatingIsOnward ==
  ASSUME SupplyInv, NEW o \in Orders, NEW to \in {"PICKING", "PACKED", "DISPATCHED", "DELIVERED"},
         UpdateStatus(o, to), createdBy' = createdBy
  PROVE  /\ Onward /\ Reached(o, Rank(to))'
         /\ to = "DISPATCHED" => reservation'[o] = "CONSUMED"
<1>1. sales' = [sales EXCEPT ![o] = to]
  BY DEF UpdateStatus
<1>2. sales[o] = to \/ <<sales[o], to>> \in ValidTransitions
  BY DEF UpdateStatus, MayBecome
<1>3. \/ reservation' = reservation
      \/ to = "DISPATCHED" /\ reservation' = [reservation EXCEPT ![o] = "CONSUMED"]
  BY ConsumingConsumes DEF UpdateStatus, warehouse
<1>4. to = "DISPATCHED" => reservation'[o] = "CONSUMED"
  <2>1. CASE sales[o] = to
    BY <1>3, <2>1 DEF SupplyInv, OrdersTypeOK, ShippedIsConsumed
  <2>2. CASE sales[o] # to
    BY <2>2, ConsumingConsumes DEF UpdateStatus, SupplyInv, OrdersTypeOK
  <2> QED
    BY <2>1, <2>2
<1>5. to = "DELIVERED" => reservation[o] = "CONSUMED"
  BY <1>2 DEF ValidTransitions, SupplyInv, ShippedIsConsumed
<1>6. sales[o] \notin {"NONE", "CANCELLED"}
  BY <1>2 DEF ValidTransitions
<1>7. Reached(o, Rank(to))' /\ (sales[o] # "INVOICED" => Rank(sales[o]) <= Rank(to))
      /\ (sales[o] = "INVOICED" => Rank(to) = 4)
  BY <1>1, <1>2 DEF ValidTransitions, Rank, Reached, SupplyInv, OrdersTypeOK
<1>8. sales' \in [Orders -> SalesStatus] /\ reservation' \in [Orders -> ReservationStatus]
      /\ createdBy' \in [Orders -> Actors \cup {None}]
  BY <1>1, <1>3 DEF SupplyInv, OrdersTypeOK, SalesStatus, ReservationStatus
<1>9. UnplacedHoldsNothing' /\ ShippedIsConsumed'
  BY <1>1, <1>3, <1>4, <1>5, <1>6 DEF SupplyInv, OrdersTypeOK, UnplacedHoldsNothing, ShippedIsConsumed
<1>10. \A d \in Orders : \A n \in 0..4 : Reached(d, n) => Reached(d, n)'
  <2> SUFFICES ASSUME NEW d \in Orders, NEW n \in 0..4, Reached(d, n) PROVE Reached(d, n)'
    OBVIOUS
  <2>1. CASE d = o
    <3>1. Rank(sales[o]) \in 0..4 /\ Rank(to) \in 0..4
      BY RankIsBounded
    <3>2. Rank(to) >= n
      BY <1>6, <1>7, <2>1, <3>1 DEF Reached
    <3> QED
      BY <1>1, <2>1, <3>2 DEF Reached, SupplyInv, OrdersTypeOK
  <2>2. CASE d # o
    BY <1>1, <2>2 DEF Reached, SupplyInv, OrdersTypeOK
  <2> QED
    BY <2>1, <2>2
<1>11. \A d \in Orders : reservation[d] = "CONSUMED" => reservation'[d] = "CONSUMED"
  BY <1>3 DEF SupplyInv, OrdersTypeOK
<1> QED
  BY <1>4, <1>7, <1>8, <1>9, <1>10, <1>11 DEF Onward

\* Cancelling, linking an invoice and delivering to a store overwrite the status.
LEMMA OvertakingIsOnward ==
  ASSUME SupplyInv, NEW o \in Orders, NEW to \in {"CANCELLED", "INVOICED", "DELIVERED"},
         sales' = [sales EXCEPT ![o] = to], createdBy' = createdBy,
         \/ reservation' = reservation
         \/ reservation[o] = "ACTIVE" /\ reservation' = [reservation EXCEPT ![o] = "RELEASED"] /\ to = "CANCELLED",
         to = "DELIVERED" => reservation[o] = "CONSUMED"
  PROVE  Onward
<1>1. sales' \in [Orders -> SalesStatus] /\ reservation' \in [Orders -> ReservationStatus]
      /\ createdBy' \in [Orders -> Actors \cup {None}]
  BY DEF SupplyInv, OrdersTypeOK, SalesStatus, ReservationStatus
<1>2. UnplacedHoldsNothing' /\ ShippedIsConsumed'
  BY DEF SupplyInv, OrdersTypeOK, UnplacedHoldsNothing, ShippedIsConsumed
<1>3. \A d \in Orders : \A n \in 0..4 : Reached(d, n) => Reached(d, n)'
  BY DEF SupplyInv, OrdersTypeOK, Reached, Rank
<1>4. \A d \in Orders : reservation[d] = "CONSUMED" => reservation'[d] = "CONSUMED"
  BY DEF SupplyInv, OrdersTypeOK
<1> QED
  BY <1>1, <1>2, <1>3, <1>4 DEF Onward

\* Posting the invoice of a sales order consumes its reservation and leaves its
\* status; posting one that no sales order names, and voiding, touch neither.
LEMMA InvoicingIsOnward ==
  ASSUME SupplyInv, NEW i \in Invoices, PostInvoice(i) \/ ReverseInvoice(i) \/ MarkVoided(i)
  PROVE  Onward
<1>1. ASSUME NEW o \in Orders, PostInvoice(i), PostLinked(i, o)
      PROVE  Onward
  <2>1. /\ sales' = sales /\ reservation' = [reservation EXCEPT ![o] = "CONSUMED"]
        /\ reservation[o] = "ACTIVE" /\ sales[o] # "NONE" /\ createdBy' = createdBy
    BY <1>1, ConsumingConsumes DEF PostInvoice, PostLinked
  <2> QED
    BY <2>1 DEF Onward, SupplyInv, OrdersTypeOK, ReservationStatus, UnplacedHoldsNothing, ShippedIsConsumed, Reached
<1>2. CASE UNCHANGED <<sales, createdBy, reservation>>
  BY <1>2, StayingIsOnward
<1>3. UNCHANGED <<sales, createdBy, reservation>> \/ (PostInvoice(i) /\ \E o \in Orders : PostLinked(i, o))
  BY DEF PostInvoice, PostUnlinked, ReverseInvoice, MarkVoided, warehouse
<1> QED
  BY <1>1, <1>2, <1>3

-----------------------------------------------------------------------------
(* The supply orders and the requests, beside a step that goes onward.     *)

SuppliesKept == SupplyFollowsSales /\ DispatchedWasDeducted /\ HistoryIsThePath

\* A step that leaves supply orders and their history alone keeps their
\* invariant.
LEMMA KeepingSupplies ==
  ASSUME SupplyInv, Onward, UNCHANGED <<supply, history>>
  PROVE  SuppliesKept'
<1>1. \A o \in Orders : Rank(supply[o].status) \in 0..4
  BY RankIsBounded
<1>2. \A o \in Orders : Reached(o, Rank(supply[o].status))
  BY DEF SupplyInv, SupplyFollowsSales, Reached, Rank
<1>3. \A o \in Orders : Reached(o, Rank(supply[o].status))'
  BY <1>1, <1>2 DEF Onward, Reached
<1>4. SupplyFollowsSales'
  BY <1>3 DEF SupplyFollowsSales, Reached, Rank
<1>5. DispatchedWasDeducted'
  BY DEF SupplyInv, Onward, DispatchedWasDeducted
<1>6. HistoryIsThePath'
  BY DEF SupplyInv, HistoryIsThePath
<1> QED
  BY <1>4, <1>5, <1>6 DEF SuppliesKept

Entered(o, to) == \E linked \in BOOLEAN : Enter(o, to, linked)

\* A supply order that takes the next status, once its sales order is there,
\* keeps its invariant.
LEMMA EnteringStep ==
  ASSUME SupplyInv, Onward, NEW o \in Orders, NEW n \in 0..5, NEW m \in 1..6, m = n + 1, NEW to,
         supply[o].status = IF n = 0 THEN "NONE" ELSE Lifecycle[n],
         to = Lifecycle[m], Entered(o, to),
         Reached(o, Rank(to))',
         to \in {"DISPATCHED", "RECEIVED"} => reservation'[o] = "CONSUMED"
  PROVE  /\ SuppliesKept'
         /\ supply' \in [Orders -> [status : SupplyStatus, linked : BOOLEAN]]
         /\ history' \in [Orders -> Seq(SupplyStatus)]
<1>0. to \in SupplyStatus
  <2>1. m \in 1..Len(Lifecycle)
    BY PathOfLifecycle
  <2> QED
    BY <2>1, PathOfLifecycle, ElementOfSeq
<1>1. PICK linked \in BOOLEAN :
        /\ supply' = [supply EXCEPT ![o] = [status |-> to, linked |-> linked]]
        /\ history' = [history EXCEPT ![o] = Append(history[o], to)]
  BY DEF Entered, Enter
<1>2. supply'[o].status = to /\ \A d \in Orders : d # o => supply'[d] = supply[d] /\ history'[d] = history[d]
  BY <1>1 DEF SupplyInv, OrdersTypeOK
<1>3. history[o] = SubSeq(Lifecycle, 1, n)
  <2>1. PICK k \in 0..6 : /\ history[o] = SubSeq(Lifecycle, 1, k)
                          /\ supply[o].status = IF k = 0 THEN "NONE" ELSE Lifecycle[k]
    BY PathOfLifecycle DEF SupplyInv, HistoryIsThePath
  <2>2. k = n
    BY <2>1, PathOfLifecycle
  <2> QED
    BY <2>1, <2>2
<1>4. history'[o] = SubSeq(Lifecycle, 1, m)
  BY <1>0, <1>1, <1>3, PathGrows DEF SupplyInv, OrdersTypeOK
<1>5. HistoryIsThePath'
  <2>1. m \in 0..Len(Lifecycle) /\ m # 0
    BY PathOfLifecycle
  <2>2. \E k \in 0..Len(Lifecycle) : /\ history'[o] = SubSeq(Lifecycle, 1, k)
                                     /\ supply'[o].status = IF k = 0 THEN "NONE" ELSE Lifecycle[k]
    BY <1>0, <1>2, <1>4, <2>1
  <2>3. \A d \in Orders : d # o => \E k \in 0..Len(Lifecycle) :
           /\ history'[d] = SubSeq(Lifecycle, 1, k)
           /\ supply'[d].status = IF k = 0 THEN "NONE" ELSE Lifecycle[k]
    BY <1>2 DEF SupplyInv, HistoryIsThePath
  <2> QED
    BY <2>2, <2>3 DEF HistoryIsThePath
<1>6. SupplyFollowsSales'
  <2>1. \A d \in Orders : Rank(supply[d].status) \in 0..4
    BY RankIsBounded
  <2>2. \A d \in Orders : Reached(d, Rank(supply[d].status))
    BY DEF SupplyInv, SupplyFollowsSales, Reached, Rank
  <2>3. \A d \in Orders : d # o => Reached(d, Rank(supply[d].status))'
    BY <1>2, <2>1, <2>2 DEF Onward, Reached
  <2>4. Reached(o, Rank(supply[o].status))'
    BY <1>0, <1>2 DEF Reached
  <2> QED
    BY <2>3, <2>4 DEF SupplyFollowsSales, Reached, Rank
<1>7. DispatchedWasDeducted'
  BY <1>0, <1>2 DEF SupplyInv, Onward, DispatchedWasDeducted
<1>8. supply' \in [Orders -> [status : SupplyStatus, linked : BOOLEAN]]
  BY <1>0, <1>1 DEF SupplyInv, OrdersTypeOK
<1>9. history' \in [Orders -> Seq(SupplyStatus)]
  <2>1. Append(history[o], to) \in Seq(SupplyStatus)
    BY <1>0, AppendProperties DEF SupplyInv, OrdersTypeOK
  <2> QED
    BY <1>1, <2>1 DEF SupplyInv, OrdersTypeOK
<1> QED
  BY <1>5, <1>6, <1>7, <1>8, <1>9 DEF SuppliesKept

\* A step in which one request moves on, with what it relies on in place,
\* leaves every request backed.
LEMMA RequestsGoOn ==
  ASSUME SupplyInv, Onward, NEW r \in Requests, NEW q \in RequestType,
         request' = [request EXCEPT ![r] = q], Backed(q)'
  PROVE  RequestsAreBacked' /\ request' \in [Requests -> RequestType]
<1>1. request' \in [Requests -> RequestType]
  BY DEF SupplyInv, OrdersTypeOK
<1>2. \A s \in Requests : s # r => Backed(request[s])'
  <2> SUFFICES ASSUME NEW s \in Requests, s # r PROVE Backed(request[s])'
    OBVIOUS
  <2>1. PICK p \in RequestType : p = request[s] /\ p = request'[s]
    BY DEF SupplyInv, OrdersTypeOK
  <2>2. Backed(p)
    BY <2>1 DEF SupplyInv, RequestsAreBacked
  <2>3. p.at \in {"link", "follow"} => p.order \in Orders
    BY DEF RequestType, Idle
  <2>4. Rank(p.step[2]) \in 0..4
    BY RankIsBounded
  <2>5. Backed(p)'
    BY <2>2, <2>3, <2>4 DEF Backed, Onward, Reached
  <2> QED
    BY <2>1, <2>5 DEF Backed, Reached
<1>3. request'[r] = q
  BY DEF SupplyInv, OrdersTypeOK
<1>4. Backed(request[r])'
  BY <1>3 DEF Backed, Reached
<1> QED
  BY <1>1, <1>2, <1>4 DEF RequestsAreBacked

\* A request that only takes note of something, or ends.
LEMMA RequestsStay ==
  ASSUME SupplyInv, Onward, UNCHANGED request
  PROVE  RequestsAreBacked' /\ request' \in [Requests -> RequestType]
<1> SUFFICES ASSUME NEW s \in Requests PROVE Backed(request[s])'
  BY DEF RequestsAreBacked, SupplyInv, OrdersTypeOK
<1>1. PICK p \in RequestType : p = request[s] /\ p = request'[s]
  BY DEF SupplyInv, OrdersTypeOK
<1>2. Backed(p)
  BY <1>1 DEF SupplyInv, RequestsAreBacked
<1>3. p.at \in {"link", "follow"} => p.order \in Orders
  BY DEF RequestType, Idle
<1>4. Rank(p.step[2]) \in 0..4
  BY RankIsBounded
<1>5. Backed(p)'
  BY <1>2, <1>3, <1>4 DEF Backed, Onward, Reached
<1> QED
  BY <1>1, <1>5 DEF Backed, Reached

StoresTyped == store' \in [Stores -> [branch : Branches \cup {None}, location : Branches \cup {None}]]

\* The parts above make the invariant.
LEMMA PartsMakeTheInvariant ==
  ASSUME Onward, SuppliesKept', RequestsAreBacked', StoresTyped,
         supply' \in [Orders -> [status : SupplyStatus, linked : BOOLEAN]],
         history' \in [Orders -> Seq(SupplyStatus)],
         request' \in [Requests -> RequestType]
  PROVE  SupplyInv'
BY DEF Onward, SuppliesKept, StoresTyped, SupplyInv, OrdersTypeOK
-----------------------------------------------------------------------------
(* The invariant.                                                          *)

\* No supply order exists at first.
LEMMA SupplyStarts ==
  ASSUME Init
  PROVE  SupplyInv
<1>1. OrdersTypeOK
  BY Statuses DEF Init, OrdersTypeOK, SalesStatus, ReservationStatus, RequestType
<1>2. HistoryIsThePath
  <2>1. SubSeq(Lifecycle, 1, 0) = << >> /\ 0 \in 0..Len(Lifecycle)
    BY SubSeqEmpty, PathOfLifecycle
  <2> QED
    BY <2>1 DEF Init, HistoryIsThePath
<1>3. RequestsAreBacked
  BY DEF Init, RequestsAreBacked, Backed, Idle
<1>4. UnplacedHoldsNothing /\ ShippedIsConsumed /\ SupplyFollowsSales /\ DispatchedWasDeducted
  BY DEF Init, UnplacedHoldsNothing, ShippedIsConsumed, SupplyFollowsSales, DispatchedWasDeducted, Rank
<1> QED
  BY <1>1, <1>2, <1>3, <1>4 DEF SupplyInv

\* The routes of a supply order that end in one transaction: its creation and
\* its receipt.
LEMMA SupplyStepKeeps ==
  ASSUME SupplyInv, NEW o \in Orders, CreateSupplyOrder(o) \/ Receive(o)
  PROVE  SupplyInv'
<1>1. CASE CreateSupplyOrder(o)
  <2>1. Onward
    BY <1>1, StayingIsOnward DEF CreateSupplyOrder, warehouse
  <2>2. supply[o].status = "NONE" /\ Entered(o, "REQUESTED")
    BY <1>1 DEF CreateSupplyOrder, Entered
  <2>5. Reached(o, Rank("REQUESTED"))'
    <3>1. Rank(sales'[o]) \in 0..4 /\ Rank("REQUESTED") = 0
      BY RankIsBounded DEF Rank
    <3> QED
      BY <3>1 DEF Reached
  <2>3. /\ SuppliesKept'
        /\ supply' \in [Orders -> [status : SupplyStatus, linked : BOOLEAN]]
        /\ history' \in [Orders -> Seq(SupplyStatus)]
    BY <2>1, <2>2, <2>5, PathOfLifecycle, EnteringStep
  <2>4. RequestsAreBacked' /\ request' \in [Requests -> RequestType] /\ StoresTyped
    BY <1>1, <2>1, RequestsStay DEF CreateSupplyOrder, stores, StoresTyped, SupplyInv, OrdersTypeOK
  <2> QED
    BY <2>1, <2>3, <2>4, PartsMakeTheInvariant
<1>2. CASE Receive(o)
  <2>1. /\ supply[o].status = "DISPATCHED" /\ reservation[o] = "CONSUMED"
        /\ sales' = [sales EXCEPT ![o] = "DELIVERED"] /\ reservation' = reservation /\ request' = request
        /\ createdBy' = createdBy
    BY <1>2 DEF Receive, Receivable, warehouse
  <2>2. Onward
    BY <2>1, OvertakingIsOnward
  <2>3. Entered(o, "RECEIVED") /\ reservation'[o] = "CONSUMED"
    BY <1>2, <2>1 DEF Receive, Entered
  <2>7. Reached(o, Rank("RECEIVED"))'
    <3>1. sales'[o] = "DELIVERED"
      BY <2>1 DEF SupplyInv, OrdersTypeOK
    <3>2. Rank("DELIVERED") = 4 /\ Rank("RECEIVED") = 4
      BY DEF Rank
    <3> QED
      BY <3>1, <3>2 DEF Reached
  <2>4. /\ SuppliesKept'
        /\ supply' \in [Orders -> [status : SupplyStatus, linked : BOOLEAN]]
        /\ history' \in [Orders -> Seq(SupplyStatus)]
    BY <2>1, <2>2, <2>3, <2>7, PathOfLifecycle, EnteringStep
  <2>5. RequestsAreBacked' /\ request' \in [Requests -> RequestType]
    BY <2>1, <2>2, RequestsStay
  <2>6. StoresTyped
    BY <1>2, SupplyAssumption DEF Receive, StoresTyped, SupplyInv, OrdersTypeOK
  <2> QED
    BY <2>2, <2>4, <2>5, <2>6, PartsMakeTheInvariant
<1> QED
  BY <1>1, <1>2

\* Steps that leave the supply orders alone.
LEMMA BesideSupplies ==
  ASSUME SupplyInv, Onward, StoresTyped, UNCHANGED <<supply, history>>,
         RequestsAreBacked', request' \in [Requests -> RequestType]
  PROVE  SupplyInv'
<1>1. SuppliesKept'
  BY KeepingSupplies
<1>2. supply' \in [Orders -> [status : SupplyStatus, linked : BOOLEAN]] /\ history' \in [Orders -> Seq(SupplyStatus)]
  BY DEF SupplyInv, OrdersTypeOK
<1> QED
  BY <1>1, <1>2, PartsMakeTheInvariant

\* The sales order by its own routes, and its invoices.
LEMMA SalesStepKeeps ==
  ASSUME SupplyInv, SalesStep \/ InvoiceStep
  PROVE  SupplyInv'
<1>1. Onward
  <2>1. ASSUME NEW o \in Orders, ProgressDirectly(o)
        PROVE  Onward
    BY <2>1, UpdatingIsOnward DEF ProgressDirectly
  <2>2. ASSUME NEW o \in Orders, CancelSalesOrder(o)
        PROVE  Onward
    BY <2>2, OvertakingIsOnward DEF CancelSalesOrder, warehouse
  <2> QED
    BY <2>1, <2>2, InvoicingIsOnward DEF SalesStep, InvoiceStep
<1>2. UNCHANGED <<supply, history, request, store>>
  BY DEF SalesStep, InvoiceStep, ProgressDirectly, CancelSalesOrder, PostInvoice, ReverseInvoice, MarkVoided, stores
<1>3. RequestsAreBacked' /\ request' \in [Requests -> RequestType]
  BY <1>1, <1>2, RequestsStay
<1>4. StoresTyped
  BY <1>2 DEF StoresTyped, SupplyInv, OrdersTypeOK
<1> QED
  BY <1>1, <1>2, <1>3, <1>4, BesideSupplies

\* Requests that begin, are refused or stop: nothing else changes.
LEMMA NotingKeeps ==
  ASSUME SupplyInv, NEW r \in Requests, NEW q \in RequestType, q.at \notin {"link", "follow"},
         request' = [request EXCEPT ![r] = q], UNCHANGED <<supply, history, sales, createdBy, warehouse, stores>>
  PROVE  SupplyInv'
<1>1. Onward
  BY StayingIsOnward DEF warehouse
<1>2. Backed(q)'
  BY DEF Backed
<1>3. RequestsAreBacked' /\ request' \in [Requests -> RequestType]
  BY <1>1, <1>2, RequestsGoOn
<1>4. StoresTyped
  BY DEF stores, StoresTyped, SupplyInv, OrdersTypeOK
<1> QED
  BY <1>1, <1>3, <1>4, BesideSupplies

\* A request that is idle is a request.
LEMMA IdleIsARequest == Idle \in RequestType /\ Idle.at = "idle"
BY DEF Idle, RequestType

\* Requests that begin, are refused or crash change no order.
LEMMA BeginningKeeps ==
  ASSUME SupplyInv, NEW r \in Requests,
         \/ Crash(r) \/ Refuse(r)
         \/ \E o \in Orders :
              \/ \E actor \in Actors : StartApproval(r, o, actor)
              \/ StartStep(r, o)
         \/ \E i \in Invoices : StartConversion(r, i)
         \/ \E s \in Stores, b \in Branches : StartAssignment(r, s, b)
  PROVE  SupplyInv'
<1>1. /\ \E q \in RequestType : q.at \notin {"link", "follow"} /\ request' = [request EXCEPT ![r] = q]
      /\ UNCHANGED <<supply, history, sales, createdBy, warehouse, stores>>
  <2>1. CASE Crash(r) \/ Refuse(r)
    BY <2>1, IdleIsARequest DEF Crash, Refuse, End
  <2>2. CASE \E o \in Orders : \E actor \in Actors : StartApproval(r, o, actor)
    BY <2>2 DEF StartApproval, Begin, RequestType
  <2>3. CASE \E o \in Orders : StartStep(r, o)
    BY <2>3 DEF StartStep, Begin, RequestType
  <2>4. CASE \E i \in Invoices : StartConversion(r, i)
    BY <2>4 DEF StartConversion, Begin, RequestType
  <2>5. CASE \E s \in Stores, b \in Branches : StartAssignment(r, s, b)
    BY <2>5 DEF StartAssignment, Begin, RequestType
  <2> QED
    BY <2>1, <2>2, <2>3, <2>4, <2>5
<1> QED
  BY <1>1, NotingKeeps
-----------------------------------------------------------------------------
(* The two transactions of a request.                                      *)

\* Whoever the key of a sales order belongs to, the sales order is placed.
LEMMA PlacedByAnActor ==
  ASSUME SupplyInv, NEW o \in Orders, createdBy[o] \in Actors
  PROVE  Reached(o, 1)
<1>1. sales[o] # "NONE" /\ sales[o] \in SalesStatus
  BY SupplyAssumption DEF SupplyInv, OrdersTypeOK, UnplacedHoldsNothing
<1> QED
  BY <1>1 DEF SalesStatus, Reached, Rank

\* The first transaction of approval creates the sales order.
LEMMA CreateForSupplyKeeps ==
  ASSUME SupplyInv, NEW r \in Requests, CreateForSupply(r)
  PROVE  SupplyInv'
<1>1. PICK q \in RequestType : q = request[r]
  BY DEF SupplyInv, OrdersTypeOK
<1>2. q.at = "create" /\ q.order \in Orders /\ q.actor \in Actors
  BY <1>1 DEF CreateForSupply, RequestType, Idle
<1>3. PICK p \in RequestType : p = [at |-> "link", order |-> q.order, actor |-> q.actor]
  BY <1>2 DEF RequestType
<1>4. request' = [request EXCEPT ![r] = p]
  BY <1>1, <1>3 DEF CreateForSupply, Continue
<1>5. Onward /\ Reached(q.order, 1)'
  <2>1. CASE CreateOnline(q.order, q.actor)
    BY <1>2, <2>1, CreatingIsOnward
  <2>2. CASE createdBy[q.order] = q.actor /\ UNCHANGED <<sales, createdBy, warehouse>>
    <3>1. Onward
      BY <2>2, StayingIsOnward DEF warehouse
    <3>2. Reached(q.order, 1)
      BY <1>2, <2>2, PlacedByAnActor
    <3> QED
      BY <1>2, <3>1, <3>2 DEF Onward
  <2> QED
    BY <1>1, <2>1, <2>2 DEF CreateForSupply
<1>6. Backed(p)'
  BY <1>3, <1>5 DEF Backed, Reached
<1>7. RequestsAreBacked' /\ request' \in [Requests -> RequestType]
  BY <1>4, <1>5, <1>6, RequestsGoOn
<1>8. UNCHANGED <<supply, history, store>>
  BY DEF CreateForSupply, stores
<1>9. StoresTyped
  BY <1>8 DEF StoresTyped, SupplyInv, OrdersTypeOK
<1> QED
  BY <1>5, <1>7, <1>8, <1>9, BesideSupplies

\* The supply order is entered by the second transaction of a request.
LEMMA SecondKeeps ==
  ASSUME SupplyInv, NEW r \in Requests, NEW o \in Orders, NEW n \in {1, 2, 3, 4}, NEW m \in 1..6, m = n + 1,
         UNCHANGED <<sales, createdBy, warehouse, stores>>, request' = [request EXCEPT ![r] = Idle],
         \/ supply[o].status = Lifecycle[n] /\ Entered(o, Lifecycle[m])
         \/ UNCHANGED <<supply, history>>,
         Reached(o, Rank(Lifecycle[m])),
         Lifecycle[m] = "DISPATCHED" => reservation[o] = "CONSUMED"
  PROVE  SupplyInv'
<1>1. Onward
  BY StayingIsOnward DEF warehouse
<1>2. Backed(Idle)'
  BY IdleIsARequest DEF Backed
<1>3. RequestsAreBacked' /\ request' \in [Requests -> RequestType]
  BY <1>1, <1>2, IdleIsARequest, RequestsGoOn
<1>4. StoresTyped
  BY DEF stores, StoresTyped, SupplyInv, OrdersTypeOK
<1>5. CASE UNCHANGED <<supply, history>>
  BY <1>1, <1>3, <1>4, <1>5, BesideSupplies
<1>6. CASE supply[o].status = Lifecycle[n] /\ Entered(o, Lifecycle[m])
  <2>1. Lifecycle[m] # "RECEIVED" /\ n # 0 /\ n \in 0..5
    BY PathOfLifecycle
  <2>2. PICK to : to = Lifecycle[m]
    OBVIOUS
  <2>3. Reached(o, Rank(to)) /\ Rank(to) \in 0..4
    BY <2>2, RankIsBounded
  <2>4. Reached(o, Rank(to))'
    BY <1>1, <2>3 DEF Onward
  <2>5. to \in {"DISPATCHED", "RECEIVED"} => reservation'[o] = "CONSUMED"
    BY <2>1, <2>2 DEF warehouse
  <2>6. Entered(o, to)
    BY <1>6, <2>2
  <2>7. supply[o].status = IF n = 0 THEN "NONE" ELSE Lifecycle[n]
    BY <1>6, <2>1
  <2>8. /\ SuppliesKept'
        /\ supply' \in [Orders -> [status : SupplyStatus, linked : BOOLEAN]]
        /\ history' \in [Orders -> Seq(SupplyStatus)]
    BY <1>1, <2>1, <2>2, <2>4, <2>5, <2>6, <2>7, EnteringStep
  <2> QED
    BY <1>1, <1>3, <1>4, <2>8, PartsMakeTheInvariant
<1> QED
  BY <1>5, <1>6

\* Its second one approves the supply order and links it.
LEMMA LinkSalesOrderKeeps ==
  ASSUME SupplyInv, NEW r \in Requests, LinkSalesOrder(r)
  PROVE  SupplyInv'
<1>1. PICK q \in RequestType : q = request[r]
  BY DEF SupplyInv, OrdersTypeOK
<1>2. q.at = "link" /\ q.order \in Orders /\ Reached(q.order, 1)
  BY <1>1 DEF LinkSalesOrder, RequestType, Idle, SupplyInv, RequestsAreBacked, Backed
<1>3. PICK o \in Orders : o = q.order
  BY <1>2
<1>4. PICK n \in {1, 2, 3, 4}, m \in 1..6 : n = 1 /\ m = 2
  OBVIOUS
<1>5. \/ supply[o].status = Lifecycle[n] /\ Entered(o, Lifecycle[m])
      \/ UNCHANGED <<supply, history>>
  BY <1>1, <1>3, <1>4, PathOfLifecycle DEF LinkSalesOrder, Entered
<1>6. Reached(o, Rank(Lifecycle[m])) /\ Lifecycle[m] # "DISPATCHED"
  <2>1. Rank("APPROVED") = 1
    BY DEF Rank
  <2> QED
    BY <1>2, <1>3, <1>4, <2>1, PathOfLifecycle
<1>7. UNCHANGED <<sales, createdBy, warehouse, stores>> /\ request' = [request EXCEPT ![r] = Idle]
  BY DEF LinkSalesOrder, End
<1>8. n \in {1, 2, 3, 4} /\ m \in 1..6 /\ m = n + 1
  BY <1>4
<1> QED
  BY <1>8, <1>5, <1>6, <1>7, SecondKeeps

\* The second transaction of a step writes the supply order's status.
LEMMA FollowKeeps ==
  ASSUME SupplyInv, NEW r \in Requests, Follow(r)
  PROVE  SupplyInv'
<1>1. PICK q \in RequestType : q = request[r]
  BY DEF SupplyInv, OrdersTypeOK
<1>2. /\ q.at = "follow" /\ q.order \in Orders /\ q.step \in Steps
      /\ Reached(q.order, Rank(q.step[2])) /\ (q.step[2] = "DISPATCHED" => reservation[q.order] = "CONSUMED")
  BY <1>1 DEF Follow, RequestType, Idle, SupplyInv, RequestsAreBacked, Backed
<1>3. PICK o \in Orders : o = q.order
  BY <1>2
<1>4. PICK n \in {2, 3, 4}, m \in 1..6 : m = n + 1 /\ q.step[1] = Lifecycle[n] /\ q.step[2] = Lifecycle[m]
  <2>1. q.step = <<"APPROVED", "PICKING">> \/ q.step = <<"PICKING", "PACKED">> \/ q.step = <<"PACKED", "DISPATCHED">>
    BY <1>2 DEF Steps
  <2>2. CASE q.step = <<"APPROVED", "PICKING">>
    BY <2>2, PathOfLifecycle
  <2>3. CASE q.step = <<"PICKING", "PACKED">>
    BY <2>3, PathOfLifecycle
  <2>4. CASE q.step = <<"PACKED", "DISPATCHED">>
    BY <2>4, PathOfLifecycle
  <2> QED
    BY <2>1, <2>2, <2>3, <2>4
<1>5. \/ supply[o].status = Lifecycle[n] /\ Entered(o, Lifecycle[m])
      \/ UNCHANGED <<supply, history>>
  BY <1>1, <1>3, <1>4 DEF Follow, Entered
<1>6. UNCHANGED <<sales, createdBy, warehouse, stores>> /\ request' = [request EXCEPT ![r] = Idle]
  BY DEF Follow, End
<1>7. Reached(o, Rank(Lifecycle[m])) /\ (Lifecycle[m] = "DISPATCHED" => reservation[o] = "CONSUMED")
  BY <1>2, <1>3, <1>4
<1> QED
  BY <1>4, <1>5, <1>6, <1>7, SecondKeeps

\* Its first one updates the sales order.
LEMMA ProgressSalesKeeps ==
  ASSUME SupplyInv, NEW r \in Requests, ProgressSales(r)
  PROVE  SupplyInv'
<1>1. PICK q \in RequestType : q = request[r]
  BY DEF SupplyInv, OrdersTypeOK
<1>2. q.at = "progress" /\ q.order \in Orders /\ q.step \in Steps
  BY <1>1 DEF ProgressSales, RequestType, Idle
<1>3. PICK to \in {"PICKING", "PACKED", "DISPATCHED", "DELIVERED"} : to = q.step[2]
  BY <1>2 DEF Steps
<1>4. PICK o \in Orders : o = q.order
  BY <1>2
<1>5. UpdateStatus(o, to) /\ createdBy' = createdBy
  BY <1>1, <1>3, <1>4 DEF ProgressSales
<1>6. Onward /\ Reached(o, Rank(to))' /\ (to = "DISPATCHED" => reservation'[o] = "CONSUMED")
  BY <1>5, UpdatingIsOnward
<1>7. PICK p \in RequestType : p = [at |-> "follow", order |-> q.order, step |-> q.step]
  BY <1>2 DEF RequestType
<1>8. Backed(p)'
  <2>1. p.at = "follow" /\ p.order = o /\ p.step[2] = to
    BY <1>3, <1>4, <1>7
  <2> QED
    BY <1>6, <2>1 DEF Backed
<1>9. RequestsAreBacked' /\ request' \in [Requests -> RequestType]
  BY <1>1, <1>6, <1>7, <1>8, RequestsGoOn DEF ProgressSales, Continue
<1>10. UNCHANGED <<supply, history, store>>
  BY DEF ProgressSales, stores
<1>11. StoresTyped
  BY <1>10 DEF StoresTyped, SupplyInv, OrdersTypeOK
<1> QED
  BY <1>6, <1>9, <1>10, <1>11, BesideSupplies

\* Linking an invoice, and assigning a store to a branch.
LEMMA OtherRequestsKeep ==
  ASSUME SupplyInv, NEW r \in Requests, LinkConversion(r) \/ AssignStoreBranch(r)
  PROVE  SupplyInv'
<1>1. PICK q \in RequestType : q = request[r]
  BY DEF SupplyInv, OrdersTypeOK
<1>2. request' = [request EXCEPT ![r] = Idle] /\ UNCHANGED <<supply, history>>
  BY DEF LinkConversion, AssignStoreBranch, End
<1>3. Onward
  <2>1. CASE LinkConversion(r)
    <3>1. q.invoice \in Invoices /\ sales' = [sales EXCEPT ![OrderOf[q.invoice]] = "INVOICED"]
          /\ reservation' = reservation /\ createdBy' = createdBy
      BY <1>1, <2>1 DEF LinkConversion, RequestType, Idle, warehouse
    <3>2. PICK o \in Orders : o = OrderOf[q.invoice]
      BY <3>1, SupplyAssumption
    <3> QED
      BY <3>1, <3>2, OvertakingIsOnward
  <2>2. CASE AssignStoreBranch(r)
    BY <2>2, StayingIsOnward DEF AssignStoreBranch, warehouse
  <2> QED
    BY <2>1, <2>2
<1>4. StoresTyped
  <2>1. CASE LinkConversion(r)
    BY <2>1 DEF LinkConversion, stores, StoresTyped, SupplyInv, OrdersTypeOK
  <2>2. CASE AssignStoreBranch(r)
    <3>1. q.store \in Stores /\ q.branch \in Branches
      BY <1>1, <2>2 DEF AssignStoreBranch, RequestType, Idle
    <3>2. store' = [store EXCEPT ![q.store] = [branch |-> q.branch, location |-> store[q.store].location]]
      BY <1>1, <2>2 DEF AssignStoreBranch
    <3> QED
      BY <3>1, <3>2 DEF StoresTyped, SupplyInv, OrdersTypeOK
  <2> QED
    BY <2>1, <2>2
<1>5. Backed(Idle)'
  BY IdleIsARequest DEF Backed
<1>6. RequestsAreBacked' /\ request' \in [Requests -> RequestType]
  BY <1>2, <1>3, <1>5, IdleIsARequest, RequestsGoOn
<1> QED
  BY <1>2, <1>3, <1>4, <1>6, BesideSupplies

\* Closing or opening a branch changes no order.
LEMMA UpdateBranchKeeps ==
  ASSUME SupplyInv, NEW b \in Branches, UpdateBranch(b)
  PROVE  SupplyInv'
<1>1. Onward
  BY StayingIsOnward DEF UpdateBranch, warehouse
<1>2. UNCHANGED <<supply, history, request, store>>
  BY DEF UpdateBranch
<1>3. RequestsAreBacked' /\ request' \in [Requests -> RequestType]
  BY <1>1, <1>2, RequestsStay
<1>4. StoresTyped
  BY <1>2 DEF StoresTyped, SupplyInv, OrdersTypeOK
<1> QED
  BY <1>1, <1>2, <1>3, <1>4, BesideSupplies

\* No step disturbs the invariant of the supply orders.
LEMMA SupplyInvStep == SupplyInv /\ [Next]_vars => SupplyInv'
<1> SUFFICES ASSUME SupplyInv, [Next]_vars PROVE SupplyInv'
  OBVIOUS
<1>1. CASE SupplyStep
  BY <1>1, SupplyStepKeeps DEF SupplyStep
<1>2. CASE SalesStep \/ InvoiceStep
  BY <1>2, SalesStepKeeps
<1>3. CASE \E r \in Requests : RequestStep(r)
  <2> SUFFICES ASSUME NEW r \in Requests, RequestStep(r) PROVE SupplyInv'
    BY <1>3
  <2>1. CASE CreateForSupply(r)
    BY <2>1, CreateForSupplyKeeps
  <2>2. CASE LinkSalesOrder(r)
    BY <2>2, LinkSalesOrderKeeps
  <2>3. CASE ProgressSales(r)
    BY <2>3, ProgressSalesKeeps
  <2>4. CASE Follow(r)
    BY <2>4, FollowKeeps
  <2>5. CASE AssignStoreBranch(r) \/ LinkConversion(r)
    BY <2>5, OtherRequestsKeep
  <2>6. CASE Refuse(r)
    BY <2>6, BeginningKeeps
  <2> QED
    BY <2>1, <2>2, <2>3, <2>4, <2>5, <2>6 DEF RequestStep
<1>4. ASSUME NEW r \in Requests,
             \/ Crash(r)
             \/ \E o \in Orders :
                  \/ \E actor \in Actors : StartApproval(r, o, actor)
                  \/ StartStep(r, o)
             \/ \E i \in Invoices : StartConversion(r, i)
             \/ \E s \in Stores, b \in Branches : StartAssignment(r, s, b)
      PROVE  SupplyInv'
  BY <1>4, BeginningKeeps
<1>5. CASE \E b \in Branches : UpdateBranch(b)
  BY <1>5, UpdateBranchKeeps
<1>6. CASE UNCHANGED vars
  <2>1. Onward
    BY <1>6, StayingIsOnward DEF vars, warehouse
  <2>2. UNCHANGED <<supply, history, request, store>>
    BY <1>6 DEF vars, stores
  <2>3. RequestsAreBacked' /\ request' \in [Requests -> RequestType]
    BY <2>1, <2>2, RequestsStay
  <2>4. StoresTyped
    BY <2>2 DEF StoresTyped, SupplyInv, OrdersTypeOK
  <2> QED
    BY <2>1, <2>2, <2>3, <2>4, BesideSupplies
<1> QED
  BY <1>1, <1>2, <1>3, <1>4, <1>5, <1>6 DEF Next

\* The invariant of the supply orders holds throughout: what a request did in
\* its first transaction (create, updateStatus) still stands in its second.
THEOREM SupplyInvariant == Spec => []SupplyInv
<1>1. Init => SupplyInv
  BY SupplyStarts
<1> QED
  BY <1>1, SupplyInvStep, PTL DEF Spec

\* A supply order is never further than its sales order, unless that was
\* cancelled or invoiced (transition moves the sales order first).
THEOREM SupplyIsBehindItsSales == Spec => []SupplyFollowsSales
<1>1. SupplyInv => SupplyFollowsSales
  BY DEF SupplyInv
<1> QED
  BY <1>1, SupplyInvariant, PTL

\* What a supply order says was dispatched or received was consumed from the
\* warehouse's reservation (consumeForOnlineDispatch).
THEOREM DispatchedLeftTheWarehouse == Spec => []DispatchedWasDeducted
<1>1. SupplyInv => DispatchedWasDeducted
  BY DEF SupplyInv
<1> QED
  BY <1>1, SupplyInvariant, PTL

\* Every step of a supply order is taken and recorded once, in turn, however
\* many requests for it overlap (the re-read in transition's last transaction).
THEOREM StepsAreTakenInTurn == Spec => []HistoryIsThePath
<1>1. SupplyInv => HistoryIsThePath
  BY DEF SupplyInv
<1> QED
  BY <1>1, SupplyInvariant, PTL

\* A store with an inventory location keeps its branch (assignStoreBranch and
\* receive, against requests that looked the branch up before).
THEOREM StoresKeepTheirBranch == Spec => StoreKeepsItsBranch
<1> DEFINE Keeps == \A s \in Stores : store[s].location # None => store'[s] = store[s]
<1>1. SupplyInv /\ [Next]_vars => [Keeps]_vars
  <2> SUFFICES ASSUME SupplyInv, Next, NEW s \in Stores, store[s].location # None
               PROVE  store'[s] = store[s]
    OBVIOUS
  <2>1. store[s] = [branch |-> store[s].branch, location |-> store[s].location]
    BY DEF SupplyInv, OrdersTypeOK
  <2>2. CASE \E o \in Orders : Receive(o)
    <3>1. PICK o \in Orders : Receive(o)
      BY <2>2
    <3>2. CASE StoreOf[o] = s
      BY <2>1, <3>1, <3>2 DEF Receive, Receivable, SupplyInv, OrdersTypeOK
    <3>3. CASE StoreOf[o] # s
      BY <3>1, <3>3 DEF Receive, SupplyInv, OrdersTypeOK
    <3> QED
      BY <3>2, <3>3
  <2>3. CASE \E r \in Requests : AssignStoreBranch(r)
    <3>1. PICK r \in Requests : AssignStoreBranch(r)
      BY <2>3
    <3>2. CASE request[r].store = s
      BY <2>1, <3>1, <3>2 DEF AssignStoreBranch, KeepsLocation, SupplyInv, OrdersTypeOK
    <3>3. CASE request[r].store # s
      BY <3>1, <3>3 DEF AssignStoreBranch, SupplyInv, OrdersTypeOK
    <3> QED
      BY <3>2, <3>3
  <2>4. \/ \E o \in Orders : Receive(o)
        \/ \E r \in Requests : AssignStoreBranch(r)
        \/ UNCHANGED store
    BY DEF Next, SupplyStep, SalesStep, RequestStep, CreateSupplyOrder, ProgressDirectly, CancelSalesOrder,
           InvoiceStep, PostInvoice, ReverseInvoice, MarkVoided, CreateForSupply, LinkSalesOrder, ProgressSales, Follow, LinkConversion, Refuse, Crash,
           StartApproval, StartStep, StartConversion, StartAssignment, UpdateBranch, stores
  <2> QED
    BY <2>2, <2>3, <2>4
<1> QED
  BY <1>1, SupplyInvariant, PTL DEF Spec, StoreKeepsItsBranch

-----------------------------------------------------------------------------
(* What the warehouse and the stores have.                                 *)

\* Totals of some of the orders, and of one order more.
LEMMA Totals ==
  /\ \A S \in SUBSET Orders : Total(S) \in Int
  /\ \A S \in SUBSET Orders : \A o \in Orders \ S :
       Total(S \cup {o}) = Total(S) + Quantity[o]
  /\ Total({}) = 0
<1>1. ASSUME NEW S \in SUBSET Orders
      PROVE  Total(S) \in Int /\ \A o \in Orders \ S : Total(S \cup {o}) = Total(S) + Quantity[o]
  <2>1. IsFiniteSet(S) /\ \A x \in Orders : Quantity[x] \in Int
    BY FinitelyManyOrders, SupplyAssumption, FS_Subset
  <2>2. Sum(Quantity, S) \in Int
    BY <2>1, SumIsInt
  <2>3. ASSUME NEW o \in Orders \ S
        PROVE  Sum(Quantity, S \cup {o}) = Sum(Quantity, S) + Quantity[o]
    <3>1. Sum(Quantity, S \cup {o}) = Quantity[o] + Sum(Quantity, S)
      BY <2>1, SumAdd
    <3> QED
      BY <2>1, <2>2, <3>1
  <2> QED
    BY <2>2, <2>3 DEF Total, Sum
<1>2. Total({}) = 0
  BY SumEmpty DEF Total, Sum
<1> QED
  BY <1>1, <1>2

\* The goods of some of the invoices, and of one invoice more.
LEMMA GoodsAddUp ==
  /\ \A I \in SUBSET Invoices : Goods(I) \in Int
  /\ \A I \in SUBSET Invoices : \A i \in Invoices \ I :
       Goods(I \cup {i}) = Goods(I) + Quantity[OrderOf[i]]
  /\ Goods({}) = 0
<1> DEFINE amount == [i \in Invoices |-> Quantity[OrderOf[i]]]
<1>1. \A i \in Invoices : amount[i] \in Int /\ amount[i] = Quantity[OrderOf[i]]
  BY SupplyAssumption
<1>2. \A I : Goods(I) = Sum(amount, I)
  BY DEF Goods, Sum
<1> HIDE DEF amount
<1>3. ASSUME NEW I \in SUBSET Invoices
      PROVE  Goods(I) \in Int /\ \A i \in Invoices \ I : Goods(I \cup {i}) = Goods(I) + Quantity[OrderOf[i]]
  <2>1. IsFiniteSet(I) /\ \A i \in I : amount[i] \in Int
    BY <1>1, FinitelyManyOrders, FS_Subset
  <2>2. Sum(amount, I) \in Int
    BY <2>1, SumIsInt
  <2>3. ASSUME NEW i \in Invoices \ I
        PROVE  Sum(amount, I \cup {i}) = Sum(amount, I) + amount[i]
    <3>1. \A j \in I \cup {i} : amount[j] \in Int
      BY <1>1
    <3>2. Sum(amount, I \cup {i}) = amount[i] + Sum(amount, I)
      BY <2>1, <3>1, SumAdd
    <3> QED
      BY <2>2, <3>1, <3>2
  <2> QED
    BY <1>1, <1>2, <2>2, <2>3
<1>4. Goods({}) = 0
  BY <1>2, SumEmpty
<1> QED
  BY <1>3, <1>4

\* The reservation of o goes from one status to another.
Moves(o, from, to) ==
  reservation[o] = from /\ reservation' = [reservation EXCEPT ![o] = to]

\* What the orders with a status hold, when one order's reservation moves.
LEMMA TotalsMove ==
  ASSUME OrdersTypeOK, NEW o \in Orders, NEW from, NEW to, from # to, Moves(o, from, to)
  PROVE  /\ Total(With(to))' = Total(With(to)) + Quantity[o]
         /\ Total(With(from))' = Total(With(from)) - Quantity[o]
         /\ \A status : status \notin {from, to} => Total(With(status))' = Total(With(status))
         /\ \A status : Total(With(status)) \in Int
         /\ Quantity[o] \in Nat \ {0}
<1>1. \A d \in Orders : reservation'[d] = IF d = o THEN to ELSE reservation[d]
  BY DEF Moves, OrdersTypeOK
<1>2. reservation[o] = from
  BY DEF Moves
<1>3. With(to)' = With(to) \cup {o} /\ o \in Orders \ With(to)
  BY <1>1, <1>2 DEF With
<1>4. With(from) = With(from)' \cup {o} /\ o \in Orders \ With(from)'
  BY <1>1, <1>2 DEF With
<1>5. \A status : status \notin {from, to} => With(status)' = With(status)
  BY <1>1, <1>2 DEF With
<1>6. \A status : With(status) \in SUBSET Orders /\ With(status)' \in SUBSET Orders
  BY DEF With
<1>7. \A status : Total(With(status)) \in Int /\ Total(With(status)') \in Int
  BY <1>6, Totals
<1>8. Quantity[o] \in Nat \ {0}
  BY SupplyAssumption
<1>9. Total(With(to)') = Total(With(to)) + Quantity[o]
  BY <1>3, <1>6, Totals
<1>10. Total(With(from)) = Total(With(from)') + Quantity[o]
  BY <1>4, <1>6, Totals
<1>11. \A status : Total(With(status))' = Total(With(status)')
  BY DEF Total
<1>12. Total(With(from)') = Total(With(from)) - Quantity[o]
  BY <1>7, <1>8, <1>10
<1> QED
  BY <1>5, <1>7, <1>8, <1>9, <1>11, <1>12

\* What a step does to the warehouse's stock: nothing, or it reserves, consumes
\* or releases what one order is for.
Reserves(o) ==
  /\ Moves(o, "NONE", "ACTIVE")
  /\ available >= Quantity[o]
  /\ available' = available - Quantity[o] /\ reserved' = reserved + Quantity[o]

Consumes(o) ==
  /\ Moves(o, "ACTIVE", "CONSUMED")
  /\ available' = available /\ reserved' = reserved - Quantity[o]

Releases(o) ==
  /\ Moves(o, "ACTIVE", "RELEASED")
  /\ available' = available + Quantity[o] /\ reserved' = reserved - Quantity[o]

StockMoves(o) == Reserves(o) \/ Consumes(o) \/ Releases(o)

\* consumeForOnlineDispatch consumes once, whoever calls it.
LEMMA ConsumingMoves ==
  ASSUME NEW o \in Orders, ConsumeForOnlineDispatch(o)
  PROVE  UNCHANGED warehouse \/ Consumes(o)
BY DEF ConsumeForOnlineDispatch, Consumes, Moves

\* updateStatus consumes, or leaves the warehouse alone.
LEMMA UpdatingMoves ==
  ASSUME NEW o \in Orders, NEW to, UpdateStatus(o, to)
  PROVE  UNCHANGED warehouse \/ Consumes(o)
BY ConsumingMoves DEF UpdateStatus

\* What sells or puts back: the posting of an invoice, and its reversal.
Trades(i) == PostInvoice(i) \/ ReverseInvoice(i)

\* No step does anything else to the warehouse.
LEMMA StepMovesStock ==
  ASSUME SupplyInv, [Next]_vars
  PROVE  \/ \E i \in Invoices : Trades(i)
         \/ UNCHANGED <<sale, returned>> /\ (UNCHANGED warehouse \/ \E o \in Orders : StockMoves(o))
<1>1. CASE SupplyStep
  BY <1>1 DEF SupplyStep, CreateSupplyOrder, Receive, invoices
<1>2. ASSUME NEW o \in Orders, ProgressDirectly(o) \/ CancelSalesOrder(o)
      PROVE  UNCHANGED <<sale, returned>> /\ (UNCHANGED warehouse \/ StockMoves(o))
  <2>1. CASE ProgressDirectly(o)
    BY <2>1, UpdatingMoves DEF ProgressDirectly, StockMoves, invoices
  <2>2. CASE CancelSalesOrder(o)
    BY <2>2 DEF CancelSalesOrder, StockMoves, Releases, Moves, invoices
  <2> QED
    BY <1>2, <2>1, <2>2
<1>3. ASSUME NEW r \in Requests, CreateForSupply(r)
      PROVE  UNCHANGED <<sale, returned>> /\ (UNCHANGED warehouse \/ \E o \in Orders : StockMoves(o))
  <2>1. PICK q \in RequestType : q = request[r]
    BY DEF SupplyInv, OrdersTypeOK
  <2>2. q.at = "create" /\ q.order \in Orders
    BY <1>3, <2>1 DEF CreateForSupply, RequestType, Idle
  <2>3. CASE CreateOnline(q.order, q.actor)
    <3>1. reservation[q.order] = "NONE"
      BY <2>2, <2>3 DEF CreateOnline, SupplyInv, UnplacedHoldsNothing
    <3>2. Reserves(q.order)
      BY <2>3, <3>1 DEF CreateOnline, Reserves, Moves
    <3> QED
      BY <1>3, <2>2, <3>2 DEF StockMoves, CreateForSupply, invoices
  <2>4. CASE UNCHANGED warehouse
    BY <1>3, <2>4 DEF CreateForSupply, invoices
  <2> QED
    BY <1>3, <2>1, <2>3, <2>4 DEF CreateForSupply
<1>4. ASSUME NEW r \in Requests, ProgressSales(r)
      PROVE  UNCHANGED <<sale, returned>> /\ (UNCHANGED warehouse \/ \E o \in Orders : StockMoves(o))
  <2>1. PICK q \in RequestType : q = request[r]
    BY DEF SupplyInv, OrdersTypeOK
  <2>2. q.at = "progress" /\ q.order \in Orders
    BY <1>4, <2>1 DEF ProgressSales, RequestType, Idle
  <2>3. UpdateStatus(q.order, q.step[2])
    BY <1>4, <2>1 DEF ProgressSales
  <2> QED
    BY <1>4, <2>2, <2>3, UpdatingMoves DEF StockMoves, ProgressSales, invoices
<1>5. \/ SupplyStep
      \/ \E o \in Orders : ProgressDirectly(o) \/ CancelSalesOrder(o)
      \/ \E i \in Invoices : Trades(i)
      \/ \E r \in Requests : CreateForSupply(r) \/ ProgressSales(r)
      \/ UNCHANGED <<sale, returned, warehouse>>
  BY DEF Next, SalesStep, InvoiceStep, Trades, MarkVoided, RequestStep, LinkSalesOrder, Follow, AssignStoreBranch,
         LinkConversion, Refuse, Crash, StartApproval, StartStep, StartConversion, StartAssignment, UpdateBranch,
         invoices, vars
<1> QED
  BY <1>1, <1>2, <1>3, <1>4, <1>5

\* What is consumed stays consumed.
LEMMA ConsumedStays ==
  ASSUME SupplyInv, [Next]_vars, NEW d \in Orders, reservation[d] = "CONSUMED"
  PROVE  reservation'[d] = "CONSUMED"
<1>1. ASSUME NEW o \in Orders, StockMoves(o)
      PROVE  reservation'[d] = "CONSUMED"
  BY <1>1 DEF StockMoves, Reserves, Consumes, Releases, Moves, SupplyInv, OrdersTypeOK
<1>2. ASSUME NEW i \in Invoices, Trades(i)
      PROVE  reservation'[d] = "CONSUMED"
  BY <1>2, InvoicingIsOnward DEF Trades, Onward
<1> QED
  BY <1>1, <1>2, StepMovesStock DEF warehouse

\* The goods of the invoices, when one of them trades.
LEMMA TradingAddsUp ==
  ASSUME InvoicesInv, NEW i \in Invoices
  PROVE  /\ Goods(SoldOffTheShelf) \in Int /\ Goods(PutBack) \in Int /\ Quantity[OrderOf[i]] \in Nat \ {0}
         /\ sale[i] = "NONE" /\ sale' = [sale EXCEPT ![i] = "SHELF"] =>
              Goods(SoldOffTheShelf)' = IF i \in Here THEN Goods(SoldOffTheShelf) + Quantity[OrderOf[i]]
                                                     ELSE Goods(SoldOffTheShelf)
         /\ i \notin returned /\ returned' = returned \cup {i} =>
              Goods(PutBack)' = IF i \in Here THEN Goods(PutBack) + Quantity[OrderOf[i]] ELSE Goods(PutBack)
<1>1. SoldOffTheShelf \in SUBSET Invoices /\ PutBack \in SUBSET Invoices
  BY SupplyAssumption DEF SoldOffTheShelf, PutBack
<1>2. Quantity[OrderOf[i]] \in Nat \ {0}
  BY SupplyAssumption
<1>3. Goods(SoldOffTheShelf)' = Goods(SoldOffTheShelf') /\ Goods(PutBack)' = Goods(PutBack')
  BY DEF Goods
<1>4. ASSUME sale[i] = "NONE", sale' = [sale EXCEPT ![i] = "SHELF"]
      PROVE  Goods(SoldOffTheShelf)' = IF i \in Here THEN Goods(SoldOffTheShelf) + Quantity[OrderOf[i]]
                                                     ELSE Goods(SoldOffTheShelf)
  <2>1. i \notin SoldOffTheShelf
    BY <1>4 DEF SoldOffTheShelf
  <2>2. SoldOffTheShelf' = IF i \in Here THEN SoldOffTheShelf \cup {i} ELSE SoldOffTheShelf
    BY <1>4, SupplyAssumption DEF SoldOffTheShelf, InvoicesInv
  <2> QED
    BY <1>1, <1>3, <2>1, <2>2, GoodsAddUp
<1>5. ASSUME i \notin returned, returned' = returned \cup {i}
      PROVE  Goods(PutBack)' = IF i \in Here THEN Goods(PutBack) + Quantity[OrderOf[i]] ELSE Goods(PutBack)
  <2>1. i \notin PutBack
    BY <1>5 DEF PutBack
  <2>2. PutBack' = IF i \in Here THEN PutBack \cup {i} ELSE PutBack
    BY <1>5 DEF PutBack
  <2> QED
    BY <1>1, <1>3, <2>1, <2>2, GoodsAddUp
<1> QED
  BY <1>1, <1>2, <1>4, <1>5, GoodsAddUp

\* What the warehouse accounts for when a reservation moves and the invoices'
\* sales off the shelf and returns do not.
LEMMA StockMovesKeep ==
  ASSUME SupplyInv, WarehouseAddsUp, NEW o \in Orders, StockMoves(o),
         SoldOffTheShelf' = SoldOffTheShelf, PutBack' = PutBack
  PROVE  WarehouseAddsUp'
<1>1. OrdersTypeOK /\ Opening \in Nat
  BY SupplyAssumption DEF SupplyInv
<1>2. /\ Goods(SoldOffTheShelf)' = Goods(SoldOffTheShelf) /\ Goods(PutBack)' = Goods(PutBack)
      /\ Goods(SoldOffTheShelf) \in Int /\ Goods(PutBack) \in Int
  <2>1. SoldOffTheShelf \in SUBSET Invoices /\ PutBack \in SUBSET Invoices
    BY SupplyAssumption DEF SoldOffTheShelf, PutBack
  <2> QED
    BY <2>1, GoodsAddUp DEF Goods
<1>3. CASE Reserves(o)
  <2>1. /\ Total(With("ACTIVE"))' = Total(With("ACTIVE")) + Quantity[o]
        /\ Total(With("CONSUMED"))' = Total(With("CONSUMED"))
        /\ Total(With("ACTIVE")) \in Int /\ Total(With("CONSUMED")) \in Int
        /\ Quantity[o] \in Nat \ {0}
    BY <1>1, <1>3, TotalsMove DEF Reserves
  <2> QED
    BY <1>1, <1>2, <1>3, <2>1 DEF Reserves, WarehouseAddsUp
<1>4. CASE Consumes(o)
  <2>1. /\ Total(With("ACTIVE"))' = Total(With("ACTIVE")) - Quantity[o]
        /\ Total(With("CONSUMED"))' = Total(With("CONSUMED")) + Quantity[o]
        /\ Total(With("ACTIVE")) \in Int /\ Total(With("CONSUMED")) \in Int
        /\ Quantity[o] \in Nat \ {0}
    BY <1>1, <1>4, TotalsMove DEF Consumes
  <2> QED
    BY <1>1, <1>2, <1>4, <2>1 DEF Consumes, WarehouseAddsUp
<1>5. CASE Releases(o)
  <2>1. /\ Total(With("ACTIVE"))' = Total(With("ACTIVE")) - Quantity[o]
        /\ Total(With("CONSUMED"))' = Total(With("CONSUMED"))
        /\ Total(With("ACTIVE")) \in Int /\ Total(With("CONSUMED")) \in Int
        /\ Quantity[o] \in Nat \ {0}
    BY <1>1, <1>5, TotalsMove DEF Releases
  <2> QED
    BY <1>1, <1>2, <1>5, <2>1 DEF Releases, WarehouseAddsUp
<1> QED
  BY <1>3, <1>4, <1>5 DEF StockMoves

\* A reservation that stays accounts for what it did.
LEMMA TotalsStay ==
  ASSUME UNCHANGED reservation
  PROVE  \A status : Total(With(status))' = Total(With(status))
<1>1. \A status : With(status)' = With(status)
  BY DEF With
<1> QED
  BY <1>1 DEF Total

\* An invoice that sells or puts back leaves the warehouse with what is
\* accounted for.
LEMMA TradingKeepsWarehouse ==
  ASSUME SupplyInv, InvoicesInv, WarehouseAddsUp, NEW i \in Invoices, Trades(i)
  PROVE  WarehouseAddsUp'
<1>1. /\ Goods(SoldOffTheShelf) \in Int /\ Goods(PutBack) \in Int /\ Quantity[OrderOf[i]] \in Nat \ {0}
      /\ Total(With("ACTIVE")) \in Int /\ Total(With("CONSUMED")) \in Int /\ Opening \in Nat
  <2>1. With("ACTIVE") \in SUBSET Orders /\ With("CONSUMED") \in SUBSET Orders
    BY DEF With
  <2> QED
    BY <2>1, Totals, TradingAddsUp, SupplyAssumption
<1>2. ASSUME NEW o \in Orders, PostInvoice(i), PostLinked(i, o)
      PROVE  WarehouseAddsUp'
  <2>1. Consumes(o)
    BY <1>2 DEF PostLinked, ConsumeForOnlineDispatch, Consumes, Moves
  <2>2. sale[i] = "NONE" /\ sale' = [sale EXCEPT ![i] = "RESERVATION"] /\ returned' = returned
    BY <1>2 DEF PostInvoice, PostLinked, InvoicesInv
  <2>3. SoldOffTheShelf' = SoldOffTheShelf /\ PutBack' = PutBack
    BY <2>2, SupplyAssumption DEF SoldOffTheShelf, PutBack, InvoicesInv
  <2> QED
    BY <2>1, <2>3, StockMovesKeep DEF StockMoves
<1>3. ASSUME PostInvoice(i), PostUnlinked(i)
      PROVE  WarehouseAddsUp'
  <2>1. sale[i] = "NONE" /\ sale' = [sale EXCEPT ![i] = "SHELF"] /\ returned' = returned
    BY <1>3 DEF PostInvoice, PostUnlinked, InvoicesInv
  <2>2. Goods(SoldOffTheShelf)' = IF i \in Here THEN Goods(SoldOffTheShelf) + Quantity[OrderOf[i]]
                                               ELSE Goods(SoldOffTheShelf)
    BY <2>1, TradingAddsUp
  <2>3. Goods(PutBack)' = Goods(PutBack)
    BY <2>1 DEF Goods, PutBack
  <2>4. /\ i \in Here => available >= Quantity[OrderOf[i]]
        /\ available' = IF i \in Here THEN available - Quantity[OrderOf[i]] ELSE available
        /\ reserved' = reserved /\ reservation' = reservation
    BY <1>1, <1>3 DEF PostUnlinked, Shelve, WarehouseAddsUp
  <2>5. Total(With("ACTIVE"))' = Total(With("ACTIVE")) /\ Total(With("CONSUMED"))' = Total(With("CONSUMED"))
    BY <2>4, TotalsStay
  <2> QED
    BY <1>1, <2>2, <2>3, <2>4, <2>5 DEF WarehouseAddsUp
<1>4. ASSUME ReverseInvoice(i)
      PROVE  WarehouseAddsUp'
  <2>1. i \notin returned /\ returned' = returned \cup {i} /\ sale' = sale
    BY <1>4 DEF ReverseInvoice
  <2>2. Goods(PutBack)' = IF i \in Here THEN Goods(PutBack) + Quantity[OrderOf[i]] ELSE Goods(PutBack)
    BY <2>1, TradingAddsUp
  <2>3. Goods(SoldOffTheShelf)' = Goods(SoldOffTheShelf)
    BY <2>1 DEF Goods, SoldOffTheShelf
  <2>4. /\ available' = IF i \in Here THEN available + Quantity[OrderOf[i]] ELSE available
        /\ reserved' = reserved /\ reservation' = reservation
    BY <1>4 DEF ReverseInvoice, Shelve
  <2>5. Total(With("ACTIVE"))' = Total(With("ACTIVE")) /\ Total(With("CONSUMED"))' = Total(With("CONSUMED"))
    BY <2>4, TotalsStay
  <2> QED
    BY <1>1, <2>2, <2>3, <2>4, <2>5 DEF WarehouseAddsUp
<1>5. \/ \E o \in Orders : PostInvoice(i) /\ PostLinked(i, o)
      \/ PostInvoice(i) /\ PostUnlinked(i)
      \/ ReverseInvoice(i)
  BY DEF Trades, PostInvoice
<1> QED
  BY <1>2, <1>3, <1>4, <1>5

\* Every step leaves the warehouse with what the orders and invoices account for.
LEMMA StepKeepsWarehouse ==
  ASSUME SupplyInv, InvoicesInv, WarehouseAddsUp, [Next]_vars
  PROVE  WarehouseAddsUp'
<1>1. CASE \E i \in Invoices : Trades(i)
  BY <1>1, TradingKeepsWarehouse
<1>2. CASE UNCHANGED <<sale, returned>>
  <2>1. SoldOffTheShelf' = SoldOffTheShelf /\ PutBack' = PutBack
    BY <1>2 DEF SoldOffTheShelf, PutBack
  <2>2. CASE UNCHANGED warehouse
    <3>1. Goods(SoldOffTheShelf)' = Goods(SoldOffTheShelf) /\ Goods(PutBack)' = Goods(PutBack)
      BY <2>1 DEF Goods
    <3>2. Total(With("ACTIVE"))' = Total(With("ACTIVE")) /\ Total(With("CONSUMED"))' = Total(With("CONSUMED"))
      BY <2>2, TotalsStay DEF warehouse
    <3> QED
      BY <2>2, <3>1, <3>2 DEF warehouse, WarehouseAddsUp
  <2>3. CASE \E o \in Orders : StockMoves(o)
    BY <2>1, <2>3, StockMovesKeep
  <2>4. CASE \E i \in Invoices : Trades(i)
    BY <2>4, TradingKeepsWarehouse
  <2> QED
    BY <2>2, <2>3, <2>4, StepMovesStock
<1> QED
  BY <1>1, <1>2, StepMovesStock

\* Every step leaves an invoice with what it sold and put back.
LEMMA StepKeepsInvoices ==
  ASSUME SupplyInv, InvoicesInv, [Next]_vars
  PROVE  InvoicesInv'
<1>1. \A d \in Orders : reservation[d] = "CONSUMED" => reservation'[d] = "CONSUMED"
  BY ConsumedStays
<1>2. CASE UNCHANGED invoices
  BY <1>1, <1>2, SupplyAssumption DEF invoices, InvoicesInv, SoldFromReservation
<1>3. ASSUME NEW r \in Requests, NEW i \in Invoices, StartConversion(r, i)
      PROVE  InvoicesInv'
  <2>1. invoice[i] = "NONE" /\ invoice' = [invoice EXCEPT ![i] = "DRAFT"] /\ UNCHANGED <<link, sale, returned>>
    BY <1>3 DEF StartConversion
  <2>2. /\ invoice' \in [Invoices -> InvoiceStatus]
        /\ \A j \in Invoices : invoice'[j] \in {"NONE", "DRAFT"} <=> invoice[j] \in {"NONE", "DRAFT"}
    BY <2>1 DEF InvoicesInv, InvoiceStatus
  <2>3. \A d \in Orders : SoldFromReservation(d)' = SoldFromReservation(d)
    BY <2>1 DEF SoldFromReservation
  <2>4. \A j \in Invoices : sale[j] = "RESERVATION" => reservation'[OrderOf[j]] = "CONSUMED"
    BY <1>1, SupplyAssumption DEF InvoicesInv
  <2> QED
    BY <2>1, <2>2, <2>3, <2>4 DEF InvoicesInv
<1>4. ASSUME NEW r \in Requests, LinkConversion(r)
      PROVE  InvoicesInv'
  <2>1. PICK q \in RequestType : q = request[r]
    BY DEF SupplyInv, OrdersTypeOK
  <2>2. /\ q.invoice \in Invoices /\ OrderOf[q.invoice] \in Orders
        /\ link' = [link EXCEPT ![OrderOf[q.invoice]] = q.invoice] /\ UNCHANGED <<invoice, sale, returned>>
    BY <1>4, <2>1, SupplyAssumption DEF LinkConversion, RequestType, Idle
  <2> QED
    BY <1>1, <2>2, SupplyAssumption DEF InvoicesInv, SoldFromReservation
<1>5. ASSUME NEW i \in Invoices, PostInvoice(i)
      PROVE  InvoicesInv'
  <2>1. /\ invoice[i] = "DRAFT" /\ invoice' = [invoice EXCEPT ![i] = "POSTED"] /\ UNCHANGED <<link, returned>>
        /\ sale[i] = "NONE" /\ i \notin returned
    BY <1>5 DEF PostInvoice, InvoicesInv
  <2>2. ASSUME NEW o \in Orders, link[o] = i, PostLinked(i, o)
        PROVE  InvoicesInv'
    <3>1. OrderOf[i] = o /\ i # None
      BY <2>2, SupplyAssumption DEF InvoicesInv
    <3>2. reservation[o] = "ACTIVE" /\ reservation' = [reservation EXCEPT ![o] = "CONSUMED"]
          /\ sale' = [sale EXCEPT ![i] = "RESERVATION"]
      BY <2>2 DEF PostLinked, ConsumeForOnlineDispatch
    <3>3. SoldFromReservation(o) = {}
      BY <3>2 DEF InvoicesInv, SoldFromReservation
    <3>4. \A d \in Orders : SoldFromReservation(d)' = IF d = o THEN {i} ELSE SoldFromReservation(d)
      BY <2>1, <3>1, <3>2, <3>3 DEF SoldFromReservation, InvoicesInv
    <3>5. \A d \in Orders : \A j, k \in SoldFromReservation(d)' : j = k
      BY <3>4 DEF InvoicesInv
    <3>6. \A j \in Invoices : sale'[j] = "RESERVATION" => reservation'[OrderOf[j]] = "CONSUMED"
      BY <3>1, <3>2 DEF InvoicesInv, SupplyInv, OrdersTypeOK
    <3> QED
      BY <2>1, <3>2, <3>5, <3>6 DEF InvoicesInv, InvoiceStatus, Sources
  <2>3. ASSUME PostUnlinked(i)
        PROVE  InvoicesInv'
    <3>1. reservation' = reservation /\ sale' = [sale EXCEPT ![i] = "SHELF"]
      BY <2>3 DEF PostUnlinked
    <3>2. \A d \in Orders : SoldFromReservation(d)' = SoldFromReservation(d)
      BY <2>1, <3>1 DEF SoldFromReservation, InvoicesInv
    <3> QED
      BY <2>1, <3>1, <3>2 DEF InvoicesInv, InvoiceStatus, Sources
  <2> QED
    BY <1>5, <2>2, <2>3 DEF PostInvoice
<1>6. ASSUME NEW i \in Invoices, ReverseInvoice(i)
      PROVE  InvoicesInv'
  <2>1. /\ invoice[i] = "POSTED" /\ returned' = returned \cup {i}
        /\ UNCHANGED <<invoice, link, sale, reservation>>
    BY <1>6 DEF ReverseInvoice
  <2> QED
    BY <2>1 DEF InvoicesInv, SoldFromReservation
<1>7. ASSUME NEW i \in Invoices, MarkVoided(i)
      PROVE  InvoicesInv'
  <2>1. /\ invoice[i] = "POSTED" /\ invoice' = [invoice EXCEPT ![i] = "VOIDED"]
        /\ UNCHANGED <<link, sale, returned, reservation>>
    BY <1>7 DEF MarkVoided, warehouse
  <2> QED
    BY <2>1 DEF InvoicesInv, InvoiceStatus, SoldFromReservation
<1>8. \/ \E r \in Requests : LinkConversion(r) \/ \E i \in Invoices : StartConversion(r, i)
      \/ \E i \in Invoices : PostInvoice(i) \/ ReverseInvoice(i) \/ MarkVoided(i)
      \/ UNCHANGED invoices
  BY DEF Next, SupplyStep, SalesStep, InvoiceStep, RequestStep, CreateSupplyOrder, Receive, ProgressDirectly,
         CancelSalesOrder, CreateForSupply, LinkSalesOrder, ProgressSales, Follow, AssignStoreBranch, Refuse, Crash,
         StartApproval, StartStep, StartAssignment, UpdateBranch, vars, invoices
<1> QED
  BY <1>2, <1>3, <1>4, <1>5, <1>6, <1>7, <1>8

\* What is entered by any step but a receipt: neither from RECEIVED nor to it.
EntersOpen ==
  \E o \in Orders : \E to \in SupplyStatus \ {"RECEIVED"} :
    supply[o].status # "RECEIVED" /\ Entered(o, to)

\* Only receipt changes what a store has; any other step enters at most one
\* status, and not RECEIVED.
LEMMA StepEnters ==
  ASSUME SupplyInv, [Next]_vars
  PROVE  \/ \E o \in Orders : Receive(o)
         \/ UNCHANGED <<atStore, receipts>> /\ (UNCHANGED supply \/ EntersOpen)
<1>1. CASE SupplyStep
  <2>1. PICK o \in Orders : CreateSupplyOrder(o) \/ Receive(o)
    BY <1>1 DEF SupplyStep
  <2>2. CASE CreateSupplyOrder(o)
    BY <2>2, Statuses DEF CreateSupplyOrder, stores, EntersOpen, Entered
  <2> QED
    BY <2>1, <2>2
<1>2. CASE SalesStep
  BY <1>2 DEF SalesStep, ProgressDirectly, CancelSalesOrder, stores
<1>3. ASSUME NEW r \in Requests, LinkSalesOrder(r)
      PROVE  UNCHANGED <<atStore, receipts>> /\ (UNCHANGED supply \/ EntersOpen)
  <2>1. PICK q \in RequestType : q = request[r]
    BY DEF SupplyInv, OrdersTypeOK
  <2>2. q.at = "link" /\ q.order \in Orders
    BY <1>3, <2>1 DEF LinkSalesOrder, RequestType, Idle
  <2>3. UNCHANGED supply \/ (supply[q.order].status = "REQUESTED" /\ Entered(q.order, "APPROVED"))
    BY <1>3, <2>1 DEF LinkSalesOrder, Entered
  <2>4. UNCHANGED supply \/ EntersOpen
    BY <2>2, <2>3, Statuses DEF EntersOpen
  <2> QED
    BY <1>3, <2>4 DEF LinkSalesOrder, stores
<1>4. ASSUME NEW r \in Requests, Follow(r)
      PROVE  UNCHANGED <<atStore, receipts>> /\ (UNCHANGED supply \/ EntersOpen)
  <2>1. PICK q \in RequestType : q = request[r]
    BY DEF SupplyInv, OrdersTypeOK
  <2>2. q.at = "follow" /\ q.order \in Orders /\ q.step \in Steps
    BY <1>4, <2>1 DEF Follow, RequestType, Idle
  <2>3. q.step[1] # "RECEIVED" /\ q.step[2] \in SupplyStatus \ {"RECEIVED"}
    BY <2>2, Statuses DEF Steps
  <2>4. UNCHANGED supply \/ (supply[q.order].status = q.step[1] /\ Entered(q.order, q.step[2]))
    BY <1>4, <2>1 DEF Follow, Entered
  <2>5. UNCHANGED supply \/ EntersOpen
    BY <2>2, <2>3, <2>4 DEF EntersOpen
  <2> QED
    BY <1>4, <2>5 DEF Follow, stores
<1>5. \/ SupplyStep \/ SalesStep
      \/ \E r \in Requests : LinkSalesOrder(r) \/ Follow(r)
      \/ UNCHANGED <<atStore, receipts, supply>>
  BY DEF Next, InvoiceStep, PostInvoice, ReverseInvoice, MarkVoided, RequestStep, CreateForSupply, ProgressSales, AssignStoreBranch, LinkConversion, Refuse, Crash,
         StartApproval, StartStep, StartConversion, StartAssignment, UpdateBranch, stores, vars
<1> QED
  BY <1>1, <1>2, <1>3, <1>4, <1>5

\* Every step leaves a store with what the orders it received were for.
LEMMA StepKeepsStores ==
  ASSUME SupplyInv, StoresAddUp, [Next]_vars
  PROVE  StoresAddUp'
<1>1. CASE UNCHANGED <<atStore, receipts>> /\ (UNCHANGED supply \/ EntersOpen)
  <2>1. \A d \in Orders : supply'[d].status = "RECEIVED" <=> supply[d].status = "RECEIVED"
    <3>1. CASE EntersOpen
      <4>1. PICK o \in Orders, to \in SupplyStatus \ {"RECEIVED"} :
              supply[o].status # "RECEIVED" /\ Entered(o, to)
        BY <3>1 DEF EntersOpen
      <4> QED
        BY <4>1 DEF Entered, Enter, SupplyInv, OrdersTypeOK
    <3> QED
      BY <1>1, <3>1
  <2>2. Received' = Received
    BY <2>1 DEF Received
  <2>3. \A s : Total(ReceivedBy(s))' = Total(ReceivedBy(s))
    BY <2>2 DEF Total, ReceivedBy
  <2> QED
    BY <1>1, <2>2, <2>3 DEF StoresAddUp
<1>2. ASSUME NEW o \in Orders, Receive(o)
      PROVE  StoresAddUp'
  <2>1. PICK s \in Stores : s = StoreOf[o]
    BY SupplyAssumption
  <2>2. /\ supply[o].status = "DISPATCHED"
        /\ supply' = [supply EXCEPT ![o] = [status |-> "RECEIVED", linked |-> TRUE]]
    BY <1>2 DEF Receive, Receivable, Enter
  <2>3. o \notin Received /\ Received' = Received \cup {o}
    BY <2>2 DEF Received, SupplyInv, OrdersTypeOK
  <2>4. o \notin receipts
    BY <2>3 DEF StoresAddUp
  <2>5. /\ atStore' = [atStore EXCEPT ![s] = atStore[s] + Quantity[o]]
        /\ receipts' = receipts \cup {o}
    BY <1>2, <2>1, <2>4 DEF Receive, ReceiptKey
  <2>6. receipts' \subseteq Received'
    BY <2>3, <2>5 DEF StoresAddUp
  <2>7. \A t : ReceivedBy(t)' = IF t = s THEN ReceivedBy(t) \cup {o} ELSE ReceivedBy(t)
    BY <2>1, <2>3 DEF ReceivedBy
  <2>8. \A t : ReceivedBy(t) \in SUBSET Orders /\ o \in Orders \ ReceivedBy(t)
    BY <2>3 DEF ReceivedBy, Received
  <2>9. \A t : Total(ReceivedBy(t))' = IF t = s THEN Total(ReceivedBy(t)) + Quantity[o] ELSE Total(ReceivedBy(t))
    <3>1. \A t : Total(ReceivedBy(t))' = Total(ReceivedBy(t)')
      BY DEF Total
    <3> QED
      BY <2>7, <2>8, <3>1, Totals
  <2>10. atStore' = [t \in Stores |-> Total(ReceivedBy(t))']
    BY <2>5, <2>9 DEF StoresAddUp
  <2> QED
    BY <2>6, <2>10 DEF StoresAddUp
<1> QED
  BY <1>1, <1>2, StepEnters

\* No order, no invoice, no stock but what was there.
LEMMA StockStarts ==
  ASSUME Init
  PROVE  StockInv
<1>1. /\ With("ACTIVE") = {} /\ With("CONSUMED") = {} /\ Received = {}
      /\ SoldOffTheShelf = {} /\ PutBack = {}
  BY SupplyAssumption DEF Init, With, Received, SoldOffTheShelf, PutBack
<1>2. Total({}) = 0 /\ \A s : ReceivedBy(s) = {}
  BY <1>1, Totals DEF ReceivedBy
<1>3. WarehouseAddsUp
  <2>1. available = Opening /\ reserved = 0 /\ Opening \in Nat
    BY SupplyAssumption DEF Init
  <2>2. /\ Total(With("ACTIVE")) = 0 /\ Total(With("CONSUMED")) = 0
        /\ Goods(SoldOffTheShelf) = 0 /\ Goods(PutBack) = 0
    BY <1>1, <1>2, GoodsAddUp
  <2> QED
    BY <2>1, <2>2 DEF WarehouseAddsUp
<1>4. StoresAddUp
  BY <1>1, <1>2 DEF Init, StoresAddUp
<1>5. InvoicesInv
  BY SupplyAssumption DEF Init, InvoicesInv, InvoiceStatus, Sources, SoldFromReservation
<1> QED
  BY <1>3, <1>4, <1>5, SupplyStarts DEF StockInv

\* The stock of the warehouse and of the stores is what the orders and invoices
\* account for, whatever their requests and the routes of the sales orders and
\* invoices do (reserveStock, consumeForOnlineDispatch, releaseStock, receive,
\* post, void).
THEOREM SupplyStockHolds == Spec => []StockInv
<1>1. Init => StockInv
  BY StockStarts
<1>2. StockInv /\ [Next]_vars => StockInv'
  BY SupplyInvStep, StepKeepsInvoices, StepKeepsWarehouse, StepKeepsStores DEF StockInv
<1> QED
  BY <1>1, <1>2, PTL DEF Spec

\* Nothing is lost, sold or counted twice between approval and receipt.
THEOREM SupplyAddsUpAlways == Spec => []SupplyAddsUp
<1>1. StockInv => SupplyAddsUp
  BY DEF StockInv, InvoicesInv, WarehouseAddsUp, StoresAddUp, SupplyAddsUp
<1> QED
  BY <1>1, SupplyStockHolds, PTL

\* No quantity is ever negative: not in the warehouse, not at a store.
THEOREM SupplyTypeCorrect == Spec => []TypeOK
<1> DEFINE Bounds == receipts \subseteq Orders /\ open \subseteq Branches
<1>1. Init => Bounds
  BY DEF Init
<1>2. ASSUME Bounds, [Next]_vars
      PROVE  Bounds'
  <2>1. CASE \E o \in Orders : Receive(o)
    BY <1>2, <2>1 DEF Receive, ReceiptKey
  <2>2. CASE \E b \in Branches : UpdateBranch(b)
    BY <1>2, <2>2, SupplyAssumption DEF UpdateBranch
  <2>3. \/ \E o \in Orders : Receive(o)
        \/ \E b \in Branches : UpdateBranch(b)
        \/ UNCHANGED <<receipts, open>>
    BY <1>2 DEF Next, SupplyStep, SalesStep, RequestStep, CreateSupplyOrder, ProgressDirectly, CancelSalesOrder,
           InvoiceStep, PostInvoice, ReverseInvoice, MarkVoided, CreateForSupply, LinkSalesOrder, ProgressSales, Follow, AssignStoreBranch, LinkConversion,
           Refuse, Crash, StartApproval, StartStep, StartConversion, StartAssignment, stores, vars
  <2> QED
    BY <1>2, <2>1, <2>2, <2>3
<1>3. StockInv /\ Bounds => TypeOK
  <2> SUFFICES ASSUME StockInv, Bounds PROVE TypeOK
    OBVIOUS
  <2>1. ASSUME NEW S \in SUBSET Orders
        PROVE  Total(S) \in Nat
    <3>1. IsFiniteSet(S) /\ \A x \in S : Quantity[x] \in Nat
      BY FinitelyManyOrders, SupplyAssumption, FS_Subset
    <3>2. Sum(Quantity, S) \in Nat
      BY <3>1, SumIsNat
    <3> QED
      BY <3>2 DEF Total, Sum
  <2>2. With("ACTIVE") \in SUBSET Orders /\ \A s : ReceivedBy(s) \in SUBSET Orders
    BY DEF With, ReceivedBy, Received
  <2>3. Total(With("ACTIVE")) \in Nat /\ \A s : Total(ReceivedBy(s)) \in Nat
    BY <2>1, <2>2
  <2>4. reserved \in Nat /\ available \in Nat /\ atStore \in [Stores -> Nat]
    BY <2>3 DEF StockInv, WarehouseAddsUp, StoresAddUp
  <2>5. OrdersTypeOK
    BY DEF StockInv, SupplyInv
  <2> QED
    BY <2>4, <2>5 DEF TypeOK, OrdersTypeOK, StockInv, InvoicesInv
<1>4. Spec => []Bounds
  <2>1. Bounds /\ [Next]_vars => Bounds'
    BY <1>2
  <2> HIDE DEF Bounds
  <2> QED
    BY <1>1, <2>1, PTL DEF Spec
<1> HIDE DEF Bounds
<1> QED
  BY <1>3, <1>4, SupplyStockHolds, PTL
=============================================================================
