------------------------- MODULE StockTransferProofs -------------------------
(* Proofs about StockTransfer: what is recorded as sent is registered, a    *)
(* transfer can always be sent again, and the transfers implement Custody.  *)
EXTENDS StockTransfer, InventoryLedgerProofs

\* The movements of a transfer are rows of the ledger.
LEMMA CargoIsRows ==
  ASSUME TypeOK, NEW t \in Transfers
  PROVE  /\ MovementPair("AVAILABLE", "IN_TRANSIT", Cargo(t)) \in Rows
         /\ Movements("IN_TRANSIT", Outbound(Cargo(t))) \in Rows
<1>1. Cargo(t) \in [Lots -> Int] /\ Outbound(Cargo(t)) \in [Lots -> Int]
  BY DEF TypeOK, Cargo, OfLot, Outbound
<1> QED
  BY <1>1, MovementPairType, MovementsType

\* Nothing, negated, is nothing.
LEMMA NothingNegated == \A k \in Int : k = 0 => - k = 0
<1>1. \A k \in Int : - k = 0 - k
  OBVIOUS
<1>2. \A k \in Int : k = 0 => 0 - k = 0
  OBVIOUS
<1> QED
  BY <1>1, <1>2, Zenon

\* The keys of two transfers differ, and so do those of dispatch and receipt.
LEMMA KeysDiffer ==
  /\ \A t, u \in Transfers : t # u => DispatchKey(t) # DispatchKey(u) /\ ReceiptKey(t) # ReceiptKey(u)
  /\ \A t, u \in Transfers : DispatchKey(t) # ReceiptKey(u)
BY DEF DispatchKey, ReceiptKey

\* No transfer and no request is there at first.
LEMMA TransferInit ==
  ASSUME Init
  PROVE  TransferInv
<1>1. TypeOK
  <2>1. LedgerTypeOK
    BY LedgerInitRight DEF Init
  <2> QED
    BY <2>1, TransferAssumption DEF Init, TypeOK, Idle, NoEvent, TransferStatus
<1>2. SnapshotMatchesMovements
  BY LedgerInitRight DEF Init
<1>3. RequestsSend /\ SentIsRegistered
  BY DEF Init, RequestsSend, Sending, Idle, SentIsRegistered, NoEvent
<1>4. OutboxFollows
  BY DEF Init, OutboxFollows, Dispatched
<1>5. KeysFollow
  BY DEF Init, LedgerInit, KeysFollow, Dispatched
<1> QED
  BY <1>1, <1>2, <1>3, <1>4, <1>5 DEF TransferInv

-----------------------------------------------------------------------------
(* Transfers.                                                              *)

\* A transfer that is created or confirmed has moved nothing.
LEMMA DraftingKeeps ==
  ASSUME TransferInv, NEW t \in Transfers,
         Confirm(t) \/ \E lot \in Lots, q \in 1..MaxQuantity : Create(t, lot, q)
  PROVE  TransferInv'
<1> USE DEF TransferInv
<1>1. UNCHANGED <<ledgerVars, outbox, request, externalVars>>
  BY DEF Confirm, Create
<1>2. /\ transfer' \in [Transfers -> [status : TransferStatus, lot : Lots, quantity : Nat]]
      /\ \A u \in Transfers : Dispatched(u)' = Dispatched(u)
      /\ \A u \in Transfers : transfer'[u].status = "RECEIVED" <=> transfer[u].status = "RECEIVED"
  <2>1. CASE Confirm(t)
    BY <2>1 DEF Confirm, TypeOK, TransferStatus, Dispatched
  <2>2. ASSUME NEW lot \in Lots, NEW q \in 1..MaxQuantity, Create(t, lot, q)
        PROVE  <1>2!1 /\ <1>2!2 /\ <1>2!3
    BY <2>2, TransferAssumption DEF Create, TypeOK, TransferStatus, Dispatched
  <2> QED
    BY <2>1, <2>2
<1>3. TypeOK' /\ SnapshotMatchesMovements'
  BY <1>1, <1>2 DEF TypeOK, ledgerVars, LedgerTypeOK, SnapshotMatchesMovements, externalVars
<1>4. RequestsSend' /\ SentIsRegistered'
  BY <1>1, <1>2 DEF RequestsSend, Sending, SentIsRegistered, externalVars
<1>5. OutboxFollows'
  BY <1>1, <1>2 DEF OutboxFollows, externalVars
<1>6. KeysFollow'
  BY <1>1, <1>2 DEF KeysFollow, ledgerVars, externalVars
<1> QED
  BY <1>3, <1>4, <1>5, <1>6

\* dispatch posts the event and enqueues the transfer in one transaction; it is
\* called again for a transfer that has left, and then only sends.
LEMMA DispatchKeeps ==
  ASSUME TransferInv, NEW t \in Transfers, NEW r \in Requests, Dispatch(r, t)
  PROVE  TransferInv'
<1> USE DEF TransferInv
<1>1. UNCHANGED externalVars
  BY DEF Dispatch
<1>2. request' = [request EXCEPT ![r] = [at |-> "notify", transfer |-> t, seen |-> "NONE"]]
  BY DEF Dispatch
<1>3. CASE transfer[t].status = "CONFIRMED"
  <2>1. /\ PostEvent(DispatchKey(t), MovementPair("AVAILABLE", "IN_TRANSIT", Cargo(t)))
        /\ transfer' = [transfer EXCEPT ![t].status = "IN_TRANSIT"]
        /\ outbox' = [outbox EXCEPT ![t] = Pending]
    BY <1>3 DEF Dispatch
  <2>2. /\ LedgerTypeOK' /\ SnapshotMatchesMovements'
        /\ posted' = posted \cup {DispatchKey(t)}
    BY <2>1, CargoIsRows, PostEventRight DEF TypeOK
  <2>3. TypeOK'
    <3>1. transfer' \in [Transfers -> [status : TransferStatus, lot : Lots, quantity : Nat]]
      BY <2>1 DEF TypeOK, TransferStatus
    <3>2. outbox' \in [Transfers -> [eventStatus : {"NONE", "DRAFT", "POSTED"}, sync : {"NONE", "PENDING", "SENT"}]]
      BY <2>1 DEF TypeOK, Pending
    <3>3. request' \in [Requests ->
            [at : {"idle", "notify", "retry", "save", "send", "wait", "recordSent", "recordFailure"},
             transfer : Transfers \cup {None}, seen : {"NONE", "PENDING", "SENT"}]]
      BY <1>2 DEF TypeOK
    <3> QED
      BY <1>1, <2>2, <3>1, <3>2, <3>3 DEF TypeOK, externalVars
  <2>4. /\ Dispatched(t)' /\ transfer'[t].status = "IN_TRANSIT"
        /\ \A u \in Transfers \ {t} : transfer'[u] = transfer[u] /\ outbox'[u] = outbox[u]
    BY <2>1 DEF Dispatched, TypeOK
  <2>5. \A u \in Transfers : Dispatched(u) => Dispatched(u)'
    BY <2>4 DEF Dispatched
  <2>6. RequestsSend'
    BY <1>1, <1>2, <2>4, <2>5 DEF RequestsSend, Sending, TypeOK, externalVars
  <2>7. OutboxFollows'
    BY <1>1, <2>1, <2>4 DEF OutboxFollows, Dispatched, TypeOK, externalVars
  <2>8. KeysFollow'
    BY <1>1, <1>3, <2>2, <2>4, KeysDiffer DEF KeysFollow, Dispatched, externalVars
  <2>9. SentIsRegistered'
    BY <1>1, <2>1 DEF SentIsRegistered, Pending, TypeOK, externalVars
  <2> QED
    BY <2>2, <2>3, <2>6, <2>7, <2>8, <2>9
<1>4. CASE UNCHANGED <<ledgerVars, transfer, outbox>> /\ Dispatched(t)
  <2>1. TypeOK' /\ SnapshotMatchesMovements'
    BY <1>1, <1>2, <1>4 DEF TypeOK, ledgerVars, LedgerTypeOK, SnapshotMatchesMovements, externalVars
  <2>2. RequestsSend'
    BY <1>1, <1>2, <1>4 DEF RequestsSend, Sending, TypeOK, Dispatched, externalVars
  <2>3. OutboxFollows' /\ KeysFollow' /\ SentIsRegistered'
    BY <1>1, <1>4 DEF OutboxFollows, KeysFollow, SentIsRegistered, Dispatched, ledgerVars, externalVars
  <2> QED
    BY <2>1, <2>2, <2>3
<1> QED
  BY <1>3, <1>4 DEF Dispatch, Dispatched

\* An acknowledgement closes a transfer that the store counted in full.
LEMMA AcknowledgeKeeps ==
  ASSUME TransferInv, NEW t \in Transfers, Acknowledge(t)
  PROVE  TransferInv'
<1> USE DEF TransferInv
<1>1. /\ PostEvent(ReceiptKey(t), Movements("IN_TRANSIT", Outbound(Cargo(t))))
      /\ transfer' = [transfer EXCEPT ![t].status = "RECEIVED"]
      /\ UNCHANGED <<outbox, request, externalVars>>
      /\ store[t].status = "received" /\ transfer[t].status = "IN_TRANSIT"
  BY DEF Acknowledge
<1>2. /\ LedgerTypeOK' /\ SnapshotMatchesMovements'
      /\ posted' = posted \cup {ReceiptKey(t)}
  BY <1>1, CargoIsRows, PostEventRight DEF TypeOK
<1>3. TypeOK'
  BY <1>1, <1>2 DEF TypeOK, TransferStatus, externalVars
<1>4. /\ transfer'[t].status = "RECEIVED"
      /\ \A u \in Transfers \ {t} : transfer'[u] = transfer[u]
  BY <1>1 DEF TypeOK
<1>5. \A u \in Transfers : Dispatched(u)' = Dispatched(u)
  BY <1>1, <1>4 DEF Dispatched
<1>6. RequestsSend' /\ OutboxFollows' /\ SentIsRegistered'
  BY <1>1, <1>5 DEF RequestsSend, Sending, OutboxFollows, SentIsRegistered, externalVars
<1>7. KeysFollow'
  BY <1>1, <1>2, <1>4, <1>5, KeysDiffer DEF KeysFollow, externalVars
<1> QED
  BY <1>2, <1>3, <1>6, <1>7

-----------------------------------------------------------------------------
(* Sending.                                                                *)

\* A request that ends, or goes on to a step that relies on nothing new.
LEMMA StepsThatOnlyMove ==
  ASSUME TransferInv, NEW r \in Requests,
         ReadOutbox(r) \/ Answered(r) \/ Unanswered(r) \/ Crash(r) \/ \E t \in Transfers : StartRetry(r, t)
  PROVE  TransferInv'
<1> USE DEF TransferInv
<1>1. UNCHANGED <<ledgerVars, transfer, outbox, network, store>>
  BY DEF ReadOutbox, Answered, Unanswered, Crash, StartRetry, externalVars
<1>2. lost' \in 0..MaxLost /\ crashes' \in 0..MaxCrashes
  BY TransferAssumption DEF ReadOutbox, Answered, Unanswered, Crash, StartRetry, externalVars, TypeOK
<1>3. PICK q : request' = [request EXCEPT ![r] = q]
                /\ q \in [at : {"idle", "notify", "retry", "save", "send", "wait", "recordSent", "recordFailure"},
                          transfer : Transfers \cup {None}, seen : {"NONE", "PENDING", "SENT"}]
                /\ Sending(q)
  <2> DEFINE Kinds == [at : {"idle", "notify", "retry", "save", "send", "wait", "recordSent", "recordFailure"},
                          transfer : Transfers \cup {None}, seen : {"NONE", "PENDING", "SENT"}]
             Moved(q) == request' = [request EXCEPT ![r] = q] /\ q \in Kinds /\ Sending(q)
  <2>1. request[r] \in Kinds /\ Sending(request[r])
    BY DEF TypeOK, RequestsSend
  <2>2. Idle \in Kinds /\ Sending(Idle)
    BY DEF Idle, Sending
  <2>3. ASSUME ReadOutbox(r)
        PROVE  \E q : Moved(q)
    <3>1. CASE Finish(r)
      BY <2>2, <3>1 DEF Finish
    <3>2. CASE /\ request[r].at \in {"notify", "retry"}
               /\ outbox[request[r].transfer].eventStatus \notin {"NONE", "POSTED"}
               /\ request' = [request EXCEPT ![r].at = "save", ![r].seen = outbox[request[r].transfer].sync]
      <4>1. request[r].transfer \in Transfers /\ Dispatched(request[r].transfer)
        BY <2>1, <3>2 DEF Sending
      <4>2. outbox[request[r].transfer].sync = "PENDING"
        BY <3>2, <4>1 DEF OutboxFollows, Pending
      <4>3. [request[r] EXCEPT !.at = "save", !.seen = "PENDING"] \in Kinds
        BY <2>1
      <4>4. Sending([request[r] EXCEPT !.at = "save", !.seen = "PENDING"])
        BY <2>1, <4>1 DEF Sending
      <4>5. request' = [request EXCEPT ![r] = [request[r] EXCEPT !.at = "save", !.seen = "PENDING"]]
        BY <3>2, <4>2 DEF TypeOK
      <4> QED
        BY <4>3, <4>4, <4>5
    <3> QED
      BY <2>3, <3>1, <3>2 DEF ReadOutbox, Pending
  <2>4. ASSUME Answered(r) \/ Unanswered(r)
        PROVE  \E q : Moved(q)
    <3>1. PICK step \in {"recordSent", "recordFailure"} :
            /\ GoTo(r, step) /\ request[r].at = "wait"
            /\ step = "recordSent" => store[request[r].transfer].status # "unknown"
      BY <2>4 DEF Answered, Unanswered
    <3>2. [request[r] EXCEPT !.at = step] \in Kinds /\ Sending([request[r] EXCEPT !.at = step])
      BY <2>1, <3>1 DEF Sending
    <3>3. request' = [request EXCEPT ![r] = [request[r] EXCEPT !.at = step]]
      BY <3>1 DEF GoTo, TypeOK
    <3> QED
      BY <3>2, <3>3
  <2>5. ASSUME NEW t \in Transfers, StartRetry(r, t)
        PROVE  \E q : Moved(q)
    <3> DEFINE q == [at |-> "retry", transfer |-> t, seen |-> "NONE"]
    <3>1. q \in Kinds /\ Sending(q)
      BY <2>5 DEF StartRetry, Sending, Dispatched
    <3> QED
      BY <2>5, <3>1 DEF StartRetry
  <2>6. ASSUME Crash(r)
        PROVE  \E q : Moved(q)
    BY <2>2, <2>6 DEF Crash, Finish
  <2> QED
    BY <2>3, <2>4, <2>5, <2>6
<1>4. TypeOK' /\ SnapshotMatchesMovements'
  BY <1>1, <1>2, <1>3 DEF TypeOK, ledgerVars, LedgerTypeOK, SnapshotMatchesMovements
<1>5. RequestsSend'
  BY <1>1, <1>3 DEF RequestsSend, Sending, Dispatched, TypeOK
<1>6. OutboxFollows' /\ KeysFollow' /\ SentIsRegistered'
  BY <1>1 DEF OutboxFollows, KeysFollow, SentIsRegistered, Dispatched, ledgerVars
<1> QED
  BY <1>4, <1>5, <1>6

\* Writing the payload, and the outcome, leaves an event that is still pending
\* or was sent.
LEMMA WritingKeeps ==
  ASSUME TransferInv, NEW r \in Requests, SavePayload(r) \/ RecordOutcome(r)
  PROVE  TransferInv'
<1> USE DEF TransferInv
<1> DEFINE t == request[r].transfer
<1>1. UNCHANGED <<ledgerVars, transfer, externalVars>>
  BY DEF SavePayload, RecordOutcome
<1>2. t \in Transfers /\ Dispatched(t) /\ request[r].at # "idle"
  BY DEF SavePayload, RecordOutcome, RequestsSend, Sending
<1>3. /\ outbox' \in [Transfers -> [eventStatus : {"NONE", "DRAFT", "POSTED"}, sync : {"NONE", "PENDING", "SENT"}]]
      /\ \A u \in Transfers \ {t} : outbox'[u] = outbox[u]
      /\ outbox'[t] = Pending \/ (outbox'[t].eventStatus = "POSTED" /\ store[t].status # "unknown")
  <2>1. CASE SavePayload(r)
    <3>1. request[r].seen = "PENDING"
      BY <2>1 DEF SavePayload, RequestsSend, Sending
    <3>2. outbox' = [outbox EXCEPT ![t] = [outbox[t] EXCEPT !.sync = "PENDING"]]
      BY <1>2, <2>1, <3>1 DEF SavePayload, TypeOK
    <3>3. outbox[t] = Pending \/ (outbox[t].eventStatus = "POSTED" /\ store[t].status # "unknown")
      BY <1>2 DEF OutboxFollows, SentIsRegistered
    <3>4. outbox[t] \in [eventStatus : {"NONE", "DRAFT", "POSTED"}, sync : {"NONE", "PENDING", "SENT"}]
      BY <1>2 DEF TypeOK
    <3>5. [outbox[t] EXCEPT !.sync = "PENDING"] \in
            [eventStatus : {"NONE", "DRAFT", "POSTED"}, sync : {"NONE", "PENDING", "SENT"}]
      BY <3>4
    <3>6. \/ [outbox[t] EXCEPT !.sync = "PENDING"] = Pending
          \/ [outbox[t] EXCEPT !.sync = "PENDING"].eventStatus = "POSTED" /\ store[t].status # "unknown"
      BY <3>3, <3>4 DEF Pending
    <3> QED
      BY <1>2, <3>2, <3>5, <3>6 DEF TypeOK
  <2>2. CASE RecordOutcome(r)
    <3>1. \/ outbox' = [outbox EXCEPT ![t] = Pending]
          \/ outbox' = [outbox EXCEPT ![t] = Sent] /\ store[t].status # "unknown"
      BY <2>2 DEF RecordOutcome, RequestsSend, Sending
    <3>2. {Pending, Sent} \subseteq [eventStatus : {"NONE", "DRAFT", "POSTED"}, sync : {"NONE", "PENDING", "SENT"}]
      BY DEF Pending, Sent
    <3>3. Sent.eventStatus = "POSTED"
      BY DEF Sent
    <3>4. t \in Transfers
      BY <1>2
    <3>5. outbox \in [Transfers -> [eventStatus : {"NONE", "DRAFT", "POSTED"}, sync : {"NONE", "PENDING", "SENT"}]]
      BY DEF TypeOK
    <3> HIDE DEF t
    <3> QED
      BY <3>1, <3>2, <3>3, <3>4, <3>5
  <2> QED
    BY <2>1, <2>2
<1>4. PICK q : /\ request' = [request EXCEPT ![r] = q]
               /\ q \in [at : {"idle", "notify", "retry", "save", "send", "wait", "recordSent", "recordFailure"},
                         transfer : Transfers \cup {None}, seen : {"NONE", "PENDING", "SENT"}]
               /\ Sending(q)
  <2>1. CASE SavePayload(r)
    <3>1. [request[r] EXCEPT !.at = "send"] \in
            [at : {"idle", "notify", "retry", "save", "send", "wait", "recordSent", "recordFailure"},
             transfer : Transfers \cup {None}, seen : {"NONE", "PENDING", "SENT"}]
      BY DEF TypeOK
    <3>2. Sending([request[r] EXCEPT !.at = "send"])
      BY <1>2 DEF Sending, TypeOK
    <3>3. request' = [request EXCEPT ![r] = [request[r] EXCEPT !.at = "send"]]
      BY <2>1 DEF SavePayload, GoTo, TypeOK
    <3> QED
      BY <3>1, <3>2, <3>3
  <2>2. CASE RecordOutcome(r)
    <3>1. Idle \in [at : {"idle", "notify", "retry", "save", "send", "wait", "recordSent", "recordFailure"},
                    transfer : Transfers \cup {None}, seen : {"NONE", "PENDING", "SENT"}]
      BY DEF Idle
    <3>2. Sending(Idle)
      BY DEF Idle, Sending
    <3>3. request' = [request EXCEPT ![r] = Idle]
      BY <2>2 DEF RecordOutcome, Finish
    <3> QED
      BY <3>1, <3>2, <3>3
  <2> QED
    BY <2>1, <2>2
<1>5. TypeOK' /\ SnapshotMatchesMovements'
  BY <1>1, <1>3, <1>4 DEF TypeOK, ledgerVars, LedgerTypeOK, SnapshotMatchesMovements, externalVars
<1>6. RequestsSend'
  BY <1>1, <1>4 DEF RequestsSend, Sending, Dispatched, TypeOK, externalVars
<1>7. OutboxFollows'
  BY <1>1, <1>2, <1>3 DEF OutboxFollows, Dispatched, externalVars
<1>8. KeysFollow' /\ SentIsRegistered'
  BY <1>1, <1>3 DEF KeysFollow, SentIsRegistered, Dispatched, ledgerVars, externalVars, Pending
<1> QED
  BY <1>5, <1>6, <1>7, <1>8

\* A request sends the transfer to the dashboard.
LEMMA SendKeeps ==
  ASSUME TransferInv, NEW r \in Requests, Send(r)
  PROVE  TransferInv'
<1> USE DEF TransferInv
<1>1. /\ UNCHANGED <<ledgerVars, transfer, outbox, store, lost, crashes>>
      /\ network' = network \cup {request[r].transfer}
      /\ request[r].at = "send"
  BY DEF Send
<1>2. request[r].transfer \in Transfers /\ Dispatched(request[r].transfer)
  BY <1>1 DEF RequestsSend, Sending
<1>3. request' = [request EXCEPT ![r] = [request[r] EXCEPT !.at = "wait"]]
  BY DEF Send, GoTo, TypeOK
<1>4. TypeOK' /\ SnapshotMatchesMovements'
  BY <1>1, <1>2, <1>3 DEF TypeOK, ledgerVars, LedgerTypeOK, SnapshotMatchesMovements
<1>5. Sending([request[r] EXCEPT !.at = "wait"])
  BY <1>2 DEF Sending, TypeOK
<1>6. RequestsSend'
  BY <1>1, <1>3, <1>5 DEF RequestsSend, Sending, Dispatched, TypeOK
<1>7. OutboxFollows'
  BY <1>1, <1>2 DEF OutboxFollows, Dispatched
<1>8. KeysFollow' /\ SentIsRegistered'
  BY <1>1 DEF KeysFollow, SentIsRegistered, Dispatched, ledgerVars
<1> QED
  BY <1>4, <1>6, <1>7, <1>8

-----------------------------------------------------------------------------
(* The network and the dashboard.                                          *)

\* The dashboard registers or misses what it is sent, and counts what arrives.
LEMMA DashboardKeeps ==
  ASSUME TransferInv, NEW t \in Transfers,
         Register(t) \/ Lose(t) \/ \E q \in 0..MaxQuantity : Receive(t, q)
  PROVE  TransferInv'
<1> USE DEF TransferInv
<1>1. /\ UNCHANGED <<ledgerVars, transfer, outbox, request>>
      /\ network' \subseteq network
      /\ lost' \in 0..MaxLost /\ crashes' \in 0..MaxCrashes
  BY TransferAssumption DEF Register, Lose, Receive, TypeOK
<1>2. /\ store' \in [Transfers -> [status : {"unknown", "registered", "received"}, counted : Nat]]
      /\ \A u \in Transfers : /\ store[u].status # "unknown" => store'[u].status # "unknown"
                              /\ store[u].status = "received" => store'[u].status = "received"
                              /\ store'[u] # store[u] => u \in network \/ store[u].status # "unknown"
  <2>1. CASE Register(t)
    <3>1. store' = [store EXCEPT ![t] =
            [store[t] EXCEPT !.status = IF store[t].status = "unknown" THEN "registered" ELSE store[t].status]]
      BY <2>1 DEF Register, TypeOK
    <3>2. t \in network
      BY <2>1 DEF Register
    <3> QED
      BY <3>1, <3>2 DEF TypeOK
  <2>2. CASE Lose(t)
    BY <2>2 DEF Lose, TypeOK
  <2>3. ASSUME NEW q \in 0..MaxQuantity, Receive(t, q)
        PROVE  <1>2!1 /\ <1>2!2
    BY <2>3, TransferAssumption DEF Receive, TypeOK
  <2> QED
    BY <2>1, <2>2, <2>3
<1>3. TypeOK' /\ SnapshotMatchesMovements'
  BY <1>1, <1>2 DEF TypeOK, ledgerVars, LedgerTypeOK, SnapshotMatchesMovements
<1>4. RequestsSend' /\ SentIsRegistered'
  BY <1>1, <1>2 DEF RequestsSend, Sending, SentIsRegistered, Dispatched
<1>5. OutboxFollows'
  BY <1>1, <1>2 DEF OutboxFollows, Dispatched
<1>6. KeysFollow'
  BY <1>1, <1>2 DEF KeysFollow, Dispatched, ledgerVars
<1> QED
  BY <1>3, <1>4, <1>5, <1>6

-----------------------------------------------------------------------------

\* No step disturbs the invariant of the transfers.
LEMMA TransferInvStep == TransferInv /\ [Next]_vars => TransferInv'
<1> SUFFICES ASSUME TransferInv, [Next]_vars
             PROVE  TransferInv'
  OBVIOUS
<1>1. CASE TransferStep
  BY <1>1, DraftingKeeps, DispatchKeeps, AcknowledgeKeeps, StepsThatOnlyMove DEF TransferStep
<1>2. ASSUME NEW r \in Requests, RequestStep(r) \/ Crash(r)
      PROVE  TransferInv'
  BY <1>2, StepsThatOnlyMove, WritingKeeps, SendKeeps DEF RequestStep
<1>3. CASE DashboardStep
  BY <1>3, DashboardKeeps DEF DashboardStep
<1>4. CASE UNCHANGED vars
  <2>1. TypeOK' /\ SnapshotMatchesMovements'
    BY <1>4 DEF TransferInv, vars, TypeOK, LedgerTypeOK, SnapshotMatchesMovements
  <2>2. RequestsSend' /\ OutboxFollows' /\ KeysFollow' /\ SentIsRegistered'
    BY <1>4 DEF TransferInv, vars, RequestsSend, Sending, OutboxFollows, KeysFollow, SentIsRegistered, Dispatched
  <2> QED
    BY <2>1, <2>2 DEF TransferInv
<1> QED
  BY <1>1, <1>2, <1>3, <1>4 DEF Next

\* What a request relies on between its steps holds in every reachable state,
\* for any transfers, requests, lots, losses and crashes (dispatch,
\* notifyStoreSync, retryStoreSync).
THEOREM TransferInvariant == Spec => []TransferInv
<1>1. Init => TransferInv
  BY TransferInit
<1>2. TransferInv /\ [Next]_vars => TransferInv'
  BY TransferInvStep
<1> QED
  BY <1>1, <1>2, PTL DEF Spec

\* What is recorded as sent the dashboard has, whatever answers were late or
\* metadata overwritten (notifyStoreSync).
THEOREM SentHasArrived == Spec => []SentIsRegistered
<1>1. TransferInv => SentIsRegistered
  BY DEF TransferInv
<1> QED
  BY <1>1, TransferInvariant, PTL

\* A transfer in transit that the dashboard does not know of can be sent again
\* (the guard of retryStoreSync).
THEOREM CanBeSentAgain == Spec => []NeverStranded
<1>1. TransferInv => NeverStranded
  BY DEF TransferInv, NeverStranded, OutboxFollows, SentIsRegistered, Dispatched
<1> QED
  BY <1>1, TransferInvariant, PTL

-----------------------------------------------------------------------------
(* Transfers implement Custody.                                            *)

\* Where the refinement mapping places a transfer, and what it loads.
PlaceOf(t) ==
  IF transfer[t].status = "RECEIVED" THEN "closed"
  ELSE IF store[t].status = "received" THEN "store"
  ELSE IF transfer[t].status = "IN_TRANSIT" THEN "transit" ELSE "warehouse"

Places == [t \in Transfers |-> PlaceOf(t)]

Loads == [t \in Transfers |-> [lot |-> transfer[t].lot, quantity |-> transfer[t].quantity]]

Counts == [t \in Transfers |-> store[t].counted]

InState(s) == [l \in Lots |-> snapshot[l][s]]

\* The state of Custody as this module maps it.
LEMMA MappingOfChain ==
  /\ Chain!custodyVars = <<Places, Loads, Counts, InState("AVAILABLE"), InState("IN_TRANSIT")>>
  /\ Chain!custodyVars' = <<Places', Loads', Counts', InState("AVAILABLE")', InState("IN_TRANSIT")'>>
BY DEF Chain!custodyVars, Places, PlaceOf, Loads, Counts, InState

\* The rows after `quantity` of the cargo's lot changed in one state.
LEMMA RowsAfter ==
  ASSUME TransferInv, NEW t \in Transfers, NEW delta \in Rows, ApplyMovements(delta),
         NEW s \in StockStates, NEW n \in Int,
         \A l \in Lots : delta[l][s] = IF l = transfer[t].lot THEN n ELSE 0
  PROVE  /\ InState(s)' = [InState(s) EXCEPT ![transfer[t].lot] = @ + n]
         /\ InState(s)[transfer[t].lot] + n >= 0
<1>1. snapshot \in [Lots -> [StockStates -> Nat]] /\ transfer[t].lot \in Lots
  BY DEF TransferInv, TypeOK, LedgerTypeOK
<1>2. \A l \in Lots : snapshot'[l][s] = snapshot[l][s] + delta[l][s] /\ snapshot[l][s] + delta[l][s] >= 0
  BY <1>1 DEF ApplyMovements, Add
<1>3. \A l \in Lots : snapshot[l][s] + 0 = snapshot[l][s]
  <2> TAKE l \in Lots
  <2>1. PICK m \in Nat : m = snapshot[l][s]
    BY <1>1
  <2>2. m + 0 = m
    BY <2>1
  <2> QED
    BY <2>1, <2>2
<1> QED
  BY <1>1, <1>2, <1>3 DEF InState

\* Steps that Custody does not see.
LEMMA UnseenByCustody ==
  ASSUME UNCHANGED <<snapshot, Loads, Counts>>,
         \A t \in Transfers : PlaceOf(t)' = PlaceOf(t)
  PROVE  UNCHANGED Chain!custodyVars
<1>1. UNCHANGED <<Places, InState("AVAILABLE"), InState("IN_TRANSIT")>>
  BY DEF Places, InState
<1> QED
  BY <1>1, MappingOfChain

\* create packs a transfer, in terms of Custody.
LEMMA CreateIsPacking ==
  ASSUME TransferInv, NEW t \in Transfers, NEW lot \in Lots, NEW q \in 1..MaxQuantity, Create(t, lot, q)
  PROVE  Chain!Pack(t)
<1>1. /\ transfer[t].status = "NONE" /\ UNCHANGED <<snapshot, store>>
      /\ transfer' = [transfer EXCEPT ![t] = [status |-> "DRAFT", lot |-> lot, quantity |-> q]]
  BY DEF Create, ledgerVars, externalVars
<1>2. store[t].status = "unknown"
  BY <1>1 DEF TransferInv, OutboxFollows, Dispatched
<1>3. /\ transfer'[t].status = "DRAFT"
      /\ \A u \in Transfers \ {t} : transfer'[u] = transfer[u]
  BY <1>1 DEF TransferInv, TypeOK
<1>4. \A u \in Transfers : PlaceOf(u)' = PlaceOf(u)
  BY <1>1, <1>2, <1>3 DEF PlaceOf
<1>5. UNCHANGED <<Places, Counts, InState("AVAILABLE"), InState("IN_TRANSIT")>>
  BY <1>1, <1>4 DEF Places, Counts, InState
<1>6. Places[t] = "warehouse" /\ \A u \in Transfers \ {t} : Loads'[u] = Loads[u]
  BY <1>1, <1>2, <1>3 DEF Places, PlaceOf, Loads
<1> QED
  BY <1>5, <1>6 DEF Chain!Pack, Places, PlaceOf, Loads, Counts, InState

\* The first dispatch is its departure.
LEMMA DispatchIsDeparture ==
  ASSUME TransferInv, NEW t \in Transfers, NEW r \in Requests, Dispatch(r, t), transfer[t].status = "CONFIRMED"
  PROVE  Chain!Depart(t)
<1> DEFINE lot == transfer[t].lot
           n == transfer[t].quantity
           delta == MovementPair("AVAILABLE", "IN_TRANSIT", Cargo(t))
<1>1. /\ PostEvent(DispatchKey(t), delta) /\ UNCHANGED store
      /\ transfer' = [transfer EXCEPT ![t].status = "IN_TRANSIT"]
  BY DEF Dispatch, externalVars
<1>2. DispatchKey(t) \notin posted /\ store[t].status = "unknown"
  BY DEF TransferInv, KeysFollow, OutboxFollows, Dispatched
<1>3. ApplyMovements(delta)
  BY <1>1, <1>2 DEF PostEvent
<1>4. delta \in Rows /\ lot \in Lots /\ n \in Nat
  BY CargoIsRows DEF TransferInv, TypeOK
<1>5. \A l \in Lots : /\ delta[l]["AVAILABLE"] = IF l = lot THEN - n ELSE 0
                      /\ delta[l]["IN_TRANSIT"] = IF l = lot THEN n ELSE 0
  <2>1. \A l \in Lots : delta[l]["AVAILABLE"] = - Cargo(t)[l] /\ delta[l]["IN_TRANSIT"] = Cargo(t)[l]
    BY TransferAssumption DEF MovementPair
  <2>2. \A l \in Lots : Cargo(t)[l] = IF l = lot THEN n ELSE 0
    BY DEF Cargo, OfLot
  <2>3. \A l \in Lots : Cargo(t)[l] \in Int
    BY DEF TransferInv, TypeOK, Cargo, OfLot
  <2> HIDE DEF delta, lot, n
  <2> QED
    BY <2>1, <2>2, <2>3, NothingNegated
<1>6. /\ InState("AVAILABLE")' = [InState("AVAILABLE") EXCEPT ![lot] = @ + (- n)]
      /\ InState("AVAILABLE")[lot] + (- n) >= 0
  BY <1>3, <1>4, <1>5, TransferAssumption, RowsAfter
<1>7. InState("IN_TRANSIT")' = [InState("IN_TRANSIT") EXCEPT ![lot] = @ + n]
  BY <1>3, <1>4, <1>5, TransferAssumption, RowsAfter
<1>8. InState("AVAILABLE")[lot] \in Nat
  BY <1>4, TransferAssumption DEF InState, TransferInv, TypeOK, LedgerTypeOK
<1>9. /\ InState("AVAILABLE")' = [InState("AVAILABLE") EXCEPT ![lot] = @ - n]
      /\ InState("AVAILABLE")[lot] >= n
  BY <1>4, <1>6, <1>8
<1>10. /\ transfer'[t] = [transfer[t] EXCEPT !.status = "IN_TRANSIT"]
       /\ \A u \in Transfers \ {t} : transfer'[u] = transfer[u]
       /\ UNCHANGED <<Loads, Counts>>
  BY <1>1 DEF TransferInv, TypeOK, Loads, Counts
<1>11. Places[t] = "warehouse" /\ Places' = [Places EXCEPT ![t] = "transit"]
  <2>1. PlaceOf(t) = "warehouse" /\ PlaceOf(t)' = "transit"
    BY <1>1, <1>2, <1>10 DEF PlaceOf, TransferInv, TypeOK
  <2>2. \A u \in Transfers \ {t} : PlaceOf(u)' = PlaceOf(u)
    BY <1>1, <1>10 DEF PlaceOf
  <2> QED
    BY <2>1, <2>2 DEF Places
<1>12. Loads[t].lot = lot /\ Loads[t].quantity = n
  BY DEF Loads
<1> HIDE DEF lot, n
<1> QED
  BY <1>7, <1>9, <1>10, <1>11, <1>12
  DEF Chain!Depart, Chain!MoveTo, Places, PlaceOf, Loads, Counts, InState

\* An acknowledgement closes it.
LEMMA AcknowledgeIsClosing ==
  ASSUME TransferInv, NEW t \in Transfers, Acknowledge(t)
  PROVE  Chain!Close(t)
<1> DEFINE lot == transfer[t].lot
           n == transfer[t].quantity
           delta == Movements("IN_TRANSIT", Outbound(Cargo(t)))
<1>1. /\ PostEvent(ReceiptKey(t), delta) /\ UNCHANGED store
      /\ transfer' = [transfer EXCEPT ![t].status = "RECEIVED"]
      /\ transfer[t].status = "IN_TRANSIT"
      /\ store[t].status = "received" /\ store[t].counted = n
  BY DEF Acknowledge, externalVars
<1>2. ApplyMovements(delta)
  BY <1>1 DEF TransferInv, KeysFollow, PostEvent
<1>3. delta \in Rows /\ lot \in Lots /\ n \in Nat
  BY CargoIsRows DEF TransferInv, TypeOK
<1>4. \A l \in Lots : /\ delta[l]["IN_TRANSIT"] = IF l = lot THEN - n ELSE 0
                      /\ delta[l]["AVAILABLE"] = 0
  <2>1. \A l \in Lots : delta[l]["IN_TRANSIT"] = - Cargo(t)[l] /\ delta[l]["AVAILABLE"] = 0
    BY TransferAssumption DEF Movements, Outbound
  <2>2. \A l \in Lots : Cargo(t)[l] = IF l = lot THEN n ELSE 0
    BY DEF Cargo, OfLot
  <2>3. \A l \in Lots : Cargo(t)[l] \in Int
    BY DEF TransferInv, TypeOK, Cargo, OfLot
  <2> HIDE DEF delta, lot, n
  <2> QED
    BY <2>1, <2>2, <2>3, NothingNegated
<1>5. InState("IN_TRANSIT")' = [InState("IN_TRANSIT") EXCEPT ![lot] = @ + (- n)]
  BY <1>2, <1>3, <1>4, TransferAssumption, RowsAfter
<1>6. InState("IN_TRANSIT")[lot] \in Nat
  BY <1>3, TransferAssumption DEF InState, TransferInv, TypeOK, LedgerTypeOK
<1>7. InState("IN_TRANSIT")' = [InState("IN_TRANSIT") EXCEPT ![lot] = @ - n]
  BY <1>3, <1>5, <1>6
<1>8. InState("AVAILABLE")' = InState("AVAILABLE")
  BY <1>2, <1>4, TransferAssumption DEF ApplyMovements, Add, InState, TransferInv, TypeOK, LedgerTypeOK
<1>9. /\ transfer'[t] = [transfer[t] EXCEPT !.status = "RECEIVED"]
      /\ \A u \in Transfers \ {t} : transfer'[u] = transfer[u]
      /\ UNCHANGED <<Loads, Counts>>
  BY <1>1 DEF TransferInv, TypeOK, Loads, Counts
<1>10. Places[t] = "store" /\ Places' = [Places EXCEPT ![t] = "closed"]
  <2>1. PlaceOf(t) = "store" /\ PlaceOf(t)' = "closed"
    BY <1>1, <1>9 DEF PlaceOf, TransferInv, TypeOK
  <2>2. \A u \in Transfers \ {t} : PlaceOf(u)' = PlaceOf(u)
    BY <1>1, <1>9 DEF PlaceOf
  <2> QED
    BY <2>1, <2>2 DEF Places
<1>11. Loads[t].lot = lot /\ Loads[t].quantity = n /\ Counts[t] = n
  BY <1>1 DEF Loads, Counts
<1> HIDE DEF lot, n
<1> QED
  BY <1>7, <1>8, <1>9, <1>10, <1>11
  DEF Chain!Close, Chain!MoveTo, Places, PlaceOf, Loads, Counts, InState

\* The store's count is its counting.
LEMMA ReceiveIsCounting ==
  ASSUME TransferInv, NEW t \in Transfers, NEW q \in 0..MaxQuantity, Receive(t, q)
  PROVE  Chain!Count(t)
<1>1. /\ store[t].status = "registered" /\ UNCHANGED <<transfer, snapshot>>
      /\ store' = [store EXCEPT ![t] = [status |-> "received", counted |-> q]]
  BY DEF Receive, ledgerVars
<1>2. transfer[t].status = "IN_TRANSIT"
  BY <1>1 DEF TransferInv, OutboxFollows, KeysFollow, Dispatched
<1>3. store'[t].status = "received" /\ \A u \in Transfers \ {t} : store'[u] = store[u]
  BY <1>1 DEF TransferInv, TypeOK
<1>4. PlaceOf(t) = "transit" /\ PlaceOf(t)' = "store"
  BY <1>1, <1>2, <1>3 DEF PlaceOf
<1>5. \A u \in Transfers \ {t} : PlaceOf(u)' = PlaceOf(u)
  BY <1>1, <1>3 DEF PlaceOf
<1>6. Places[t] = "transit" /\ Places' = [Places EXCEPT ![t] = "store"]
  BY <1>4, <1>5 DEF Places
<1>7. /\ \A u \in Transfers \ {t} : Counts'[u] = Counts[u]
      /\ UNCHANGED <<Loads, InState("AVAILABLE"), InState("IN_TRANSIT")>>
  BY <1>1, <1>3 DEF Counts, Loads, InState
<1> QED
  BY <1>6, <1>7 DEF Chain!Count, Chain!MoveTo, Places, PlaceOf, Loads, Counts, InState

\* Every step is one of Custody or leaves its state alone.
LEMMA StepKeepsCustody ==
  ASSUME TransferInv, [Next]_vars
  PROVE  [Chain!CustodyNext]_(Chain!custodyVars)
<1>1. CASE UNCHANGED <<snapshot, transfer, store>>
  <2>1. UNCHANGED <<snapshot, Loads, Counts>> /\ \A t \in Transfers : PlaceOf(t)' = PlaceOf(t)
    BY <1>1 DEF Loads, Counts, PlaceOf
  <2> QED
    BY <2>1, UnseenByCustody
<1>2. CASE TransferStep
  <2>1. ASSUME NEW t \in Transfers, Confirm(t)
        PROVE  UNCHANGED Chain!custodyVars
    <3>1. /\ UNCHANGED <<snapshot, store>> /\ transfer[t].status = "DRAFT"
          /\ transfer' = [transfer EXCEPT ![t].status = "CONFIRMED"]
      BY <2>1 DEF Confirm, ledgerVars, externalVars
    <3>2. /\ transfer'[t] = [transfer[t] EXCEPT !.status = "CONFIRMED"]
          /\ \A u \in Transfers \ {t} : transfer'[u] = transfer[u]
          /\ UNCHANGED <<Loads, Counts>>
      BY <3>1 DEF TransferInv, TypeOK, Loads, Counts
    <3>3. \A u \in Transfers : PlaceOf(u)' = PlaceOf(u)
      BY <3>1, <3>2 DEF PlaceOf, TransferInv, TypeOK
    <3> QED
      BY <3>1, <3>2, <3>3, UnseenByCustody
  <2>2. ASSUME NEW t \in Transfers, NEW r \in Requests, Dispatch(r, t)
        PROVE  Chain!Depart(t) \/ UNCHANGED <<snapshot, transfer, store>>
    BY <2>2, DispatchIsDeparture DEF Dispatch, ledgerVars, externalVars
  <2>3. ASSUME NEW t \in Transfers, NEW r \in Requests, StartRetry(r, t)
        PROVE  UNCHANGED <<snapshot, transfer, store>>
    BY <2>3 DEF StartRetry, ledgerVars, externalVars
  <2> QED
    BY <1>1, <1>2, <2>1, <2>2, <2>3, CreateIsPacking, AcknowledgeIsClosing DEF TransferStep, Chain!CustodyNext
<1>3. ASSUME NEW r \in Requests, RequestStep(r) \/ Crash(r)
      PROVE  UNCHANGED <<snapshot, transfer, store>>
  BY <1>3 DEF RequestStep, ReadOutbox, SavePayload, Send, Answered, Unanswered, RecordOutcome, Crash,
              ledgerVars, externalVars
<1>4. CASE DashboardStep
  <2>1. ASSUME NEW t \in Transfers, Register(t)
        PROVE  UNCHANGED Chain!custodyVars
    <3>1. /\ UNCHANGED <<snapshot, transfer>>
          /\ store' = [store EXCEPT ![t] =
               [store[t] EXCEPT !.status = IF store[t].status = "unknown" THEN "registered" ELSE store[t].status]]
      BY <2>1 DEF Register, ledgerVars, TransferInv, TypeOK
    <3>2. /\ \A u \in Transfers : store'[u].counted = store[u].counted
          /\ \A u \in Transfers : store'[u].status = "received" <=> store[u].status = "received"
      BY <3>1 DEF TransferInv, TypeOK
    <3>3. UNCHANGED <<Loads, Counts>>
      BY <3>1, <3>2 DEF Loads, Counts
    <3>4. \A u \in Transfers : PlaceOf(u)' = PlaceOf(u)
      BY <3>1, <3>2 DEF PlaceOf
    <3> QED
      BY <3>1, <3>3, <3>4, UnseenByCustody
  <2>2. ASSUME NEW t \in Transfers, Lose(t)
        PROVE  UNCHANGED <<snapshot, transfer, store>>
    BY <2>2 DEF Lose, ledgerVars
  <2> QED
    BY <1>1, <1>4, <2>1, <2>2, ReceiveIsCounting DEF DashboardStep, Chain!CustodyNext
<1> QED
  BY <1>1, <1>2, <1>3, <1>4 DEF Next, vars

\* The initial states are Custody's.
LEMMA InitKeepsCustody ==
  ASSUME Init
  PROVE  Chain!CustodyInit
<1>1. \A t \in Transfers : PlaceOf(t) = "warehouse"
  BY DEF Init, PlaceOf
<1>2. \A l \in Lots : snapshot[l]["AVAILABLE"] = Opening[l] /\ snapshot[l]["IN_TRANSIT"] = 0
  BY TransferAssumption DEF Init, LedgerInit, Movements
<1>3. InState("AVAILABLE") = Opening /\ InState("IN_TRANSIT") = [l \in Lots |-> 0]
  BY <1>2, LedgerAssumption DEF InState
<1>4. Places = [t \in Transfers |-> "warehouse"]
  BY <1>1 DEF Places
<1> QED
  BY <1>3, <1>4 DEF Chain!CustodyInit, Places, PlaceOf, InState

\* Transfers keep custody: every step moves one consignment on, from the
\* warehouse to transit, to the store's count and to the end, and stock with it,
\* or is invisible (dispatch, acknowledgeStoreReceipt).
THEOREM CustodyImplemented == Spec => CustodyKept
<1>1. Init => Chain!CustodyInit
  BY InitKeepsCustody
<1>2. TransferInv /\ [Next]_vars => [Chain!CustodyNext]_(Chain!custodyVars)
  BY StepKeepsCustody
<1> QED
  BY <1>1, <1>2, TransferInvariant, PTL DEF Spec, CustodyKept, Chain!CustodySpec
=============================================================================
