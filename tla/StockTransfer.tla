---------------------------- MODULE StockTransfer ----------------------------
(***************************************************************************)
(* Transfers from a warehouse to a store that another system, the CEO      *)
(* dashboard, runs.  Dispatch moves the stock into transit and writes an   *)
(* outbox event; the event is sent to the dashboard over HTTP, after the   *)
(* transaction, by the request that dispatched or by one that retries; the *)
(* dashboard counts the goods and acknowledges them.                       *)
(*                                                                         *)
(* A transfer has one item.  A request whose idempotency key was used for  *)
(* something else is refused before it changes anything and is left out.   *)
(* A missing STORE_SYNC_WEBHOOK_URL ends a request where a crash would.    *)
(***************************************************************************)
EXTENDS InventoryLedger, Functions

CONSTANTS
  Transfers, Requests,
  MaxQuantity,  \* bound: quantity of a transfer, and of what the store counts
  MaxLost,      \* bound: HTTP requests the network loses
  MaxCrashes,   \* bound: requests that crash between two steps
  None

ASSUME TransferAssumption ==
  /\ StockStates = {"AVAILABLE", "IN_TRANSIT"}
  /\ MaxQuantity \in Nat /\ MaxLost \in Nat /\ MaxCrashes \in Nat
  /\ None \notin Transfers

VARIABLES
  transfer,  \* status and item of each transfer
  outbox,    \* the store-sync event of each transfer: eventStatus and metadata.status
  request,   \* the requests that send, and what each read of the outbox
  network,   \* transfers whose registration is on its way to the dashboard
  store,     \* what the dashboard knows of each transfer, and what it counted
  lost, crashes

vars == <<snapshot, moved, posted, transfer, outbox, request, network, store, lost, crashes>>

TransferStatus == {"NONE", "DRAFT", "CONFIRMED", "IN_TRANSIT", "RECEIVED"}   \* SHIPPED is never written

NoEvent == [eventStatus |-> "NONE", sync |-> "NONE"]
Pending == [eventStatus |-> "DRAFT", sync |-> "PENDING"]
Sent    == [eventStatus |-> "POSTED", sync |-> "SENT"]

Idle == [at |-> "idle", transfer |-> None, seen |-> "NONE"]

DispatchKey(t) == <<"transfer-dispatch", t>>
ReceiptKey(t)  == <<"transfer-receive-origin", t>>

Init ==
  /\ LedgerInit
  /\ transfer \in [Transfers -> [status : {"NONE"}, lot : Lots, quantity : {0}]]
  /\ outbox = [t \in Transfers |-> NoEvent]
  /\ request = [r \in Requests |-> Idle]
  /\ network = {}
  /\ store = [t \in Transfers |-> [status |-> "unknown", counted |-> 0]]
  /\ lost = 0 /\ crashes = 0

externalVars == <<network, store, lost, crashes>>

-----------------------------------------------------------------------------
(* Transfers.                                                              *)

Create(t, lot, quantity) ==
  /\ transfer[t].status = "NONE"
  /\ transfer' = [transfer EXCEPT ![t] = [status |-> "DRAFT", lot |-> lot, quantity |-> quantity]]
  /\ UNCHANGED <<ledgerVars, outbox, request, externalVars>>

Confirm(t) ==
  /\ transfer[t].status = "DRAFT"
  /\ transfer' = [transfer EXCEPT ![t].status = "CONFIRMED"]
  /\ UNCHANGED <<ledgerVars, outbox, request, externalVars>>

Cargo(t) == OfLot(transfer[t].lot, transfer[t].quantity)

GoTo(r, step) == request' = [request EXCEPT ![r].at = step]

Finish(r) == request' = [request EXCEPT ![r] = Idle]

\* Mutant: the outbox event is not written with the dispatch.
DispatchWithoutOutbox(r, t) ==
  /\ request[r].at = "idle"
  /\ \/ /\ transfer[t].status = "CONFIRMED"
        /\ PostEvent(DispatchKey(t), MovementPair("AVAILABLE", "IN_TRANSIT", Cargo(t)))
        /\ transfer' = [transfer EXCEPT ![t].status = "IN_TRANSIT"]
     \/ transfer[t].status \in {"IN_TRANSIT", "RECEIVED"} /\ UNCHANGED <<ledgerVars, transfer>>
  /\ request' = [request EXCEPT ![r] = [at |-> "notify", transfer |-> t, seen |-> "NONE"]]
  /\ UNCHANGED <<outbox, externalVars>>

\* dispatch: stock, status and outbox event in one transaction.  Of a
\* transfer already dispatched it only notifies the dashboard again.
Dispatch(r, t) ==
  /\ request[r].at = "idle"
  /\ \/ /\ transfer[t].status = "CONFIRMED"
        /\ PostEvent(DispatchKey(t), MovementPair("AVAILABLE", "IN_TRANSIT", Cargo(t)))
        /\ transfer' = [transfer EXCEPT ![t].status = "IN_TRANSIT"]
        /\ outbox' = [outbox EXCEPT ![t] = Pending]
     \/ /\ transfer[t].status \in {"IN_TRANSIT", "RECEIVED"}
        /\ UNCHANGED <<ledgerVars, transfer, outbox>>
  /\ request' = [request EXCEPT ![r] = [at |-> "notify", transfer |-> t, seen |-> "NONE"]]
  /\ UNCHANGED externalVars

\* Mutant: the receipt is booked with the count, whatever it is.
AcknowledgeCounted(t) ==
  /\ store[t].status = "received"
  /\ transfer[t].status = "IN_TRANSIT"
  /\ PostEvent(ReceiptKey(t), Movements("IN_TRANSIT", OfLot(transfer[t].lot, - store[t].counted)))
  /\ transfer' = [transfer EXCEPT ![t].status = "RECEIVED"]
  /\ UNCHANGED <<outbox, request, externalVars>>

\* Mutant: only a transfer recorded as sent can be acknowledged.
AcknowledgeSent(t) ==
  /\ store[t].status = "received"
  /\ transfer[t].status = "IN_TRANSIT" /\ outbox[t] = Sent
  /\ store[t].counted = transfer[t].quantity
  /\ PostEvent(ReceiptKey(t), Movements("IN_TRANSIT", Outbound(Cargo(t))))
  /\ transfer' = [transfer EXCEPT ![t].status = "RECEIVED"]
  /\ UNCHANGED <<outbox, request, externalVars>>

\* acknowledgeStoreReceipt: the dashboard reports its count, any number of
\* times; another count than what was dispatched is refused, and a transfer
\* that is RECEIVED is left alone.
Acknowledge(t) ==
  /\ store[t].status = "received"
  /\ transfer[t].status = "IN_TRANSIT"
  /\ store[t].counted = transfer[t].quantity
  /\ PostEvent(ReceiptKey(t), Movements("IN_TRANSIT", Outbound(Cargo(t))))
  /\ transfer' = [transfer EXCEPT ![t].status = "RECEIVED"]
  /\ UNCHANGED <<outbox, request, externalVars>>

-----------------------------------------------------------------------------
(* Sending the outbox event: each step is a database call or an HTTP       *)
(* request, and none of them holds a lock.                                 *)

\* retryStoreSync reads the transfer first.
StartRetry(r, t) ==
  /\ request[r].at = "idle"
  /\ transfer[t].status = "IN_TRANSIT"
  /\ request' = [request EXCEPT ![r] = [at |-> "retry", transfer |-> t, seen |-> "NONE"]]
  /\ UNCHANGED <<ledgerVars, transfer, outbox, externalVars>>

\* Both read the event: notifyStoreSync gives up if it is POSTED, a retry
\* unless it is DRAFT and PENDING.
ReadOutbox(r) ==
  LET event == outbox[request[r].transfer] IN
  /\ \/ /\ \/ request[r].at = "notify" /\ event.eventStatus \notin {"NONE", "POSTED"}
           \/ request[r].at = "retry" /\ event = Pending
        /\ request' = [request EXCEPT ![r].at = "save", ![r].seen = event.sync]
     \/ /\ \/ request[r].at = "notify" /\ event.eventStatus \in {"NONE", "POSTED"}
           \/ request[r].at = "retry" /\ event # Pending
        /\ Finish(r)
  /\ UNCHANGED <<ledgerVars, transfer, outbox, externalVars>>

\* Mutant: the event is marked as sent before it is.
SaveAsSent(r) ==
  /\ request[r].at = "save"
  /\ outbox' = [outbox EXCEPT ![request[r].transfer] = Sent]
  /\ GoTo(r, "send")
  /\ UNCHANGED <<ledgerVars, transfer, externalVars>>

\* The payload is written back with the metadata as it was read.
SavePayload(r) ==
  /\ request[r].at = "save"
  /\ outbox' = [outbox EXCEPT ![request[r].transfer].sync = request[r].seen]
  /\ GoTo(r, "send")
  /\ UNCHANGED <<ledgerVars, transfer, externalVars>>

Send(r) ==
  /\ request[r].at = "send"
  /\ network' = network \cup {request[r].transfer}
  /\ GoTo(r, "wait")
  /\ UNCHANGED <<ledgerVars, transfer, outbox, store, lost, crashes>>

Answered(r) ==
  /\ request[r].at = "wait"
  /\ store[request[r].transfer].status # "unknown"
  /\ GoTo(r, "recordSent")
  /\ UNCHANGED <<ledgerVars, transfer, outbox, externalVars>>

\* Mutant: the status of the HTTP response is not looked at.
UnansweredAccepted(r) ==
  /\ request[r].at = "wait"
  /\ GoTo(r, "recordSent")
  /\ UNCHANGED <<ledgerVars, transfer, outbox, externalVars>>

\* No answer in time, or an error: the dashboard may have registered the
\* transfer, or do so later.
Unanswered(r) ==
  /\ request[r].at = "wait"
  /\ GoTo(r, "recordFailure")
  /\ UNCHANGED <<ledgerVars, transfer, outbox, externalVars>>

\* The outcome is written whatever the event has become meanwhile.
RecordOutcome(r) ==
  /\ \/ request[r].at = "recordSent" /\ outbox' = [outbox EXCEPT ![request[r].transfer] = Sent]
     \/ request[r].at = "recordFailure" /\ outbox' = [outbox EXCEPT ![request[r].transfer] = Pending]
  /\ Finish(r)
  /\ UNCHANGED <<ledgerVars, transfer, externalVars>>

Crash(r) ==
  /\ request[r].at # "idle" /\ crashes < MaxCrashes
  /\ crashes' = crashes + 1
  /\ Finish(r)
  /\ UNCHANGED <<ledgerVars, transfer, outbox, network, store, lost>>

-----------------------------------------------------------------------------
(* The network and the CEO dashboard.                                      *)

\* A registration arrives; a copy of it may arrive again.
Register(t) ==
  /\ t \in network
  /\ store' = [store EXCEPT ![t].status = IF @ = "unknown" THEN "registered" ELSE @]
  /\ network' \in {network, network \ {t}}
  /\ UNCHANGED <<ledgerVars, transfer, outbox, request, lost, crashes>>

Lose(t) ==
  /\ t \in network /\ lost < MaxLost
  /\ network' = network \ {t}
  /\ lost' = lost + 1
  /\ UNCHANGED <<ledgerVars, transfer, outbox, request, store, crashes>>

Receive(t, counted) ==
  /\ store[t].status = "registered"
  /\ store' = [store EXCEPT ![t] = [status |-> "received", counted |-> counted]]
  /\ UNCHANGED <<ledgerVars, transfer, outbox, request, network, lost, crashes>>

-----------------------------------------------------------------------------

TransferStep ==
  \E t \in Transfers :
    \/ \E lot \in Lots, q \in 1..MaxQuantity : Create(t, lot, q)
    \/ Confirm(t)
    \/ \E r \in Requests : Dispatch(r, t) \/ StartRetry(r, t)
    \/ Acknowledge(t)

RequestStep(r) ==
  \/ ReadOutbox(r) \/ SavePayload(r) \/ Send(r)
  \/ Answered(r) \/ Unanswered(r) \/ RecordOutcome(r)

DashboardStep ==
  \E t \in Transfers : Register(t) \/ Lose(t) \/ \E q \in 0..MaxQuantity : Receive(t, q)

Next == TransferStep \/ (\E r \in Requests : RequestStep(r) \/ Crash(r)) \/ DashboardStep

\* Fairness: a request that is being served goes on; the network delivers
\* what it does not lose; the dashboard counts what is registered and reports
\* its count; someone retries a transfer whose registration is pending
\* (nothing in the code retries by itself).
Fairness ==
  /\ \A r \in Requests : WF_vars(RequestStep(r))
  /\ \A t \in Transfers :
       /\ WF_vars(Register(t))
       /\ WF_vars(\E q \in 0..MaxQuantity : Receive(t, q))
       /\ WF_vars(Acknowledge(t))
       /\ WF_vars(outbox[t] = Pending /\ \E r \in Requests : StartRetry(r, t))

Spec == Init /\ [][Next]_vars

FairSpec == Spec /\ Fairness

-----------------------------------------------------------------------------
(* Properties.                                                             *)

\* The type invariant.
TypeOK ==
  /\ LedgerTypeOK
  /\ transfer \in [Transfers -> [status : TransferStatus, lot : Lots, quantity : Nat]]
  /\ outbox \in [Transfers -> [eventStatus : {"NONE", "DRAFT", "POSTED"},
                               sync : {"NONE", "PENDING", "SENT"}]]
  /\ request \in [Requests ->
       [at : {"idle", "notify", "retry", "save", "send", "wait", "recordSent", "recordFailure"},
        transfer : Transfers \cup {None}, seen : {"NONE", "PENDING", "SENT"}]]
  /\ network \subseteq Transfers
  /\ store \in [Transfers -> [status : {"unknown", "registered", "received"}, counted : Nat]]
  /\ lost \in 0..MaxLost /\ crashes \in 0..MaxCrashes

\* An event is recorded as sent only if the dashboard has the transfer: no
\* answer of another attempt, timeout or overwritten metadata pretends it.
SentIsRegistered ==
  \A t \in Transfers :
    outbox[t].eventStatus = "POSTED" => store[t].status # "unknown"

Attending(t) ==
  \E r \in Requests : request[r].at # "idle" /\ request[r].transfer = t

\* A transfer in transit the dashboard does not know of is still being sent,
\* or can be retried: whatever steps overtake each other or crash, the guard
\* of retryStoreSync never locks it out.
NeverStranded ==
  \A t \in Transfers :
    transfer[t].status = "IN_TRANSIT" /\ store[t].status = "unknown" /\ ~ Attending(t) =>
      outbox[t] = Pending

\* Every transfer that is dispatched comes to be known to the dashboard.
EventuallyRegistered ==
  \A t \in Transfers : transfer[t].status = "IN_TRANSIT" ~> store[t].status # "unknown"

\* A transfer the store counted in full is closed.
FullReceiptCloses ==
  \A t \in Transfers :
    store[t].status = "received" /\ store[t].counted = transfer[t].quantity
      ~> transfer[t].status = "RECEIVED"

\* Transfers implement Custody.
Chain == INSTANCE Custody WITH
  Consignments     <- Transfers,
  CargoLots        <- Lots,
  WarehouseAtStart <- Opening,
  place     <- [t \in Transfers |->
                  IF transfer[t].status = "RECEIVED" THEN "closed"
                  ELSE IF store[t].status = "received" THEN "store"
                  ELSE IF transfer[t].status = "IN_TRANSIT" THEN "transit" ELSE "warehouse"],
  load      <- [t \in Transfers |-> [lot |-> transfer[t].lot, quantity |-> transfer[t].quantity]],
  count     <- [t \in Transfers |-> store[t].counted],
  warehouse <- [l \in Lots |-> snapshot[l]["AVAILABLE"]],
  transit   <- [l \in Lots |-> snapshot[l]["IN_TRANSIT"]]

CustodyKept == Chain!CustodySpec

-----------------------------------------------------------------------------
(* The inductive invariant of StockTransferProofs: what a request relies on *)
(* between its steps, and the keys by which stock moves once.               *)

Dispatched(t) == transfer[t].status \in {"IN_TRANSIT", "RECEIVED"}

\* A request sends what was dispatched, writes back the only status a pending
\* event can have had, and has an answer only of a dashboard that knows.
Sending(q) ==
  q.at # "idle" =>
    /\ q.transfer \in Transfers /\ Dispatched(q.transfer)
    /\ q.at = "save" => q.seen = "PENDING"
    /\ q.at = "recordSent" => store[q.transfer].status # "unknown"

RequestsSend == \A r \in Requests : Sending(request[r])

\* Before the dispatch there is nothing to send; after it there is an event,
\* either pending or posted.
OutboxFollows ==
  \A t \in Transfers :
    IF Dispatched(t)
    THEN outbox[t] = Pending \/ outbox[t].eventStatus = "POSTED"
    ELSE outbox[t] = NoEvent /\ t \notin network /\ store[t].status = "unknown"

\* Each key is posted with its change of status, the receipt after the count.
KeysFollow ==
  \A t \in Transfers :
    /\ DispatchKey(t) \in posted <=> Dispatched(t)
    /\ ReceiptKey(t) \in posted <=> transfer[t].status = "RECEIVED"
    /\ transfer[t].status = "RECEIVED" => store[t].status = "received"

TransferInv ==
  /\ TypeOK
  /\ SnapshotMatchesMovements
  /\ RequestsSend /\ OutboxFollows /\ KeysFollow /\ SentIsRegistered
=============================================================================
