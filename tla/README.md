# Verification of the Pasalo distribution system

`backend/src` is a NestJS server over one PostgreSQL database (Prisma, isolation level READ COMMITTED) with
Redis beside it. It keeps the stock of a distributor, the orders and invoices against it, the transfers to
stores that another system runs, the supply of franchise stores, and what retailers owe. `frontend/src` is the
Next.js client of its staff and of its retailers. This directory holds TLA+ modules of both, the TLC
configurations that check them on small instances, and theorems that TLAPS proves for every instance.

## 1. Inventory of the system

Every handler is an HTTP request. What makes the server hard is how it uses the database:

- some handlers do all their work in one `$transaction` and lock the row that decides it
  (`SELECT ... FOR UPDATE`): order creation, dispatch, cancellation, transfer dispatch and acknowledgement, goods
  receipt, receipt of a supply order. They are atomic;
- some lock one row and read another that somebody else writes without that lock: invoice posting, payment,
  allocation of a payment, the branch of a store;
- others read a row, decide, and write in later, separate calls: `convertToInvoice`, invoice `void` and
  `cancel`, adjustments, damage reports, stock counts, deliveries, cash sessions, credit approvals, the first half of
  every franchise transition, the expiry scan, session refresh. Any other request may run in between, and a crash
  leaves the rest undone;
- stock changes go through an append-only movement log with snapshot rows beside it, and are made
  idempotent by a key per event.

What makes the client hard is that a page keeps the status it once read, that two tabs share one pair of tokens,
and that an answer may never come.

| Component | State | Operations | Interacts with | Must be right |
|---|---|---|---|---|
| Inventory ledger (`inventory-ledger.service.ts`) | events with keys, movements, snapshot rows | `postEvent` | every stock change calls it in its own transaction | rows never negative, rows equal the log, a key is applied once |
| Stock reservation (`stock-reservation.service.ts`) | reservations and their items | allocate, reserve, release, consume for invoice, consume for dispatch | orders and invoices call it; writes snapshot rows itself | reserved stock is released or consumed once, and the RESERVED row is the active reservations |
| Sales orders (`sales-order.service.ts`) | order status, link to the invoice | create, progress, dispatch, cancel, convert to invoice | reservation, invoices, franchise supply | open orders hold their stock, shipped goods were deducted |
| Retailer orders (`retailer-order.service.ts`) | - | place, cancel | sales orders | as above |
| Invoices (`invoice.service.ts`) | invoice status and lines | create, post, void, cancel | reservation, ledger, retailer ledger | stock deducted once, reversed only after that; debit entered once |
| Payments (`payment.service.ts`) | paid amount, payment status, keys | create | invoices, retailer ledger | a key pays once, never more than is due; the balance counts every payment |
| Payment allocation, ledgers (`finance/payment-allocation`, `retailer-ledger`, `financial-ledger`) | invoice paid amounts, running balance | allocate, reverse, entries | payments, invoices | what is shown as paid was paid or given by an allocation that committed |
| Credit limits, cash sessions (`finance/`) | approval and session status | request, approve, reject; open, close | orders | a limit was asked for and decided; sessions of a branch meet only by a race |
| Stock transfers (`stock-transfer.service.ts`) | transfer status, outbox event | create, confirm, dispatch, deliver, retry, acknowledge | ledger; CEO dashboard over HTTP | stock in transit is what the transfers carry; no transfer is lost to the dashboard |
| Adjustments, damage reports, stock counts (`inventory/services/`) | document status, items | create, submit, approve, reject, post, reconcile | ledger | a document changes stock once, and only if approved; two people correct stock |
| Expiry (`expiry.service.ts`) | expiry events, batch status | scan, block, mark | batches, which sales check | expired stock comes off sale |
| Procurement (`procurement.service.ts`) | purchase order status, received quantities, receipts | create, confirm, cancel, receive | ledger | never more received than ordered |
| Franchise supply (`franchise.service.ts`) | supply order status and history, store branch and location | request, approve, pick, pack, dispatch, receive | sales orders, ledger, branches | supply order and sales order agree; every step once; goods received once |
| Deliveries (`delivery.service.ts`) | delivery status | create, dispatch, complete, cancel | - | every delivery can be brought to its end |
| User and portal sessions (`auth.service.ts`, retailer portal) | sessions, cache | log in, refresh, log out, validate | Redis, the browser | a revoked session ends |
| Guards (`permissions.guard.ts`, `scope.guard.ts`, role seed) | - | admit or refuse a request | every controller | a role with a page's buttons can use them, and nobody else |
| Browser session (`lib/api/client.ts`, auth store, login pages) | token pair, refresh queue | attach, refresh, retry, log out | user sessions | calls that wait are answered; a revoked pair is replaced |
| Document pages | the status shown | the buttons for it | ten kinds of document, guards | what is offered is accepted; a document reaches its end |
| Forms | what is filled in | file a document | DTOs, guards against copies | what is sent is read; one press files one document |

Catalog, organisation, identity, routes and sales representatives are master data of which only what others
depend on is modelled. Notifications, dashboards, reports, the audit log, configuration, list pages and demo data are reads, or
inserts nothing depends on, and the order chat (`fmcg-order-app`) is a separate prototype. PROJECT.json lists each.

## 2. Plan

| # | Modules | Abstract specification | Runs | Proved |
|---|---|---|---|---|
| 1 | InventoryLedger, Fefo, FefoAllocation, SalesFulfilment, SalesFulfilmentInvariant | StockBook | `sales_*`, `fefo_allocation` | every property, in SalesFulfilmentProofs |
| 2 | StockTransfer | Custody | `transfer_*` | every property but the two liveness properties, in StockTransferProofs |
| 3 | Procurement, StockCorrection, composed by Warehouse | - | `warehouse_*` | every property, in WarehouseProofs |
| 4 | Receivables | - | `receivables` | every property, in FinanceProofs |
| 5 | FranchiseSupply | - | `supply_*` | every property but the liveness property, in FranchiseSupplyProofs |
| 6 | AuthSessions, BrowserSession | - | `sessions` | both invariants, in FrontEndProofs |
| 7 | Staff, Papers, SalesPapers, StockPapers, Desk; Forms, NewDocument; BatchExpiry; CreditLimits; CashSessions; MCOffice | - | `office` | every property but the two liveness properties, in FrontEndProofs and FinanceProofs |

Runs are kept few and each answers its own question; the small parts of item 7 share one. Two modules of lemmas serve the
proofs: InventoryLedgerProofs (the ledger's operations) and SumTheorems (sums over finite sets). What comes next
is whatever safety the properties do not say yet; none of them is left without a proof.

## 3. The modules and the code

How they compose: SalesFulfilment, StockTransfer and Warehouse each build on InventoryLedger's operations. Warehouse
joins Procurement and StockCorrection over one ledger, BrowserSession drives the calls AuthSessions serves, Desk runs
the papers of SalesPapers and StockPapers with Staff's guards, NewDocument the forms of Forms, and MCOffice holds these two beside
BatchExpiry, CreditLimits and CashSessions. Receivables and FranchiseSupply stand alone: they and SalesFulfilment see
the same invoices and sales orders from two sides, the money and the supply on one, the stock on the other.

### InventoryLedger - the stock of one product at one location

| Module | Code |
|---|---|
| `snapshot[l][s]` | `InventorySnapshot.baseQuantity` of the row of batch `l` (one lot stands for a null `batchId`) and stock state `s` |
| `moved[l][s]` | the sum of `InventoryMovement.baseQuantityDelta` over the movements of that row |
| `posted` | the `idempotencyKey`s of the `InventoryEvent`s that carry one |
| `PostEvent` | `InventoryLedgerService.postEvent`: an event whose key is known changes nothing |
| `ApplyMovements` | the loop of `postEvent`: lock the row, refuse a negative result, write row and movement |
| `ReserveStock`, `ReleaseStock` | `StockReservationService.reserveStock`, `releaseStock`: they write the two rows themselves and then log the pair, in an event without a key |

A row that does not exist and a row holding 0 behave alike in every operation, so rows always exist here.
The operations are parts of actions: they run inside the transaction of the handler that calls them.

### Fefo, FefoAllocation - allocating a line over batches

`Fefo` defines what a first-expired-first-out allocation is: it takes from a batch only after emptying those
that expire earlier. `FefoAllocation` is the loop of `reserveSalesOrderItem` (stock-reservation.service.ts:84-112),
one pass per action, with its early exit and its final check. The run compares the loop with the definition;
`SalesFulfilment` then uses the definition.

### SalesFulfilment - orders, reservations, invoices

| Variable | Code |
|---|---|
| `order[o]` | `SalesOrder.status`, `invoiceId` and the line. `o` is the idempotency key of the creating request |
| `reservation[o]` | the `StockReservation` of the order, its status and its items per lot |
| `invoice[i]` | `Invoice.status`, whether it is paid, its line; `draftedFor` records for which order `convertToInvoice` created it (the code stores the link on the order only) |
| `batch[b]` | `Batch.status` and `expiryDate`: ACTIVE, LAPSED (status ACTIVE, date passed), BLOCKED (status BLOCKED or EXPIRED) |
| `request[r]` | a request between two database calls: which call comes next, and what it has read |
| `manual[l]` | net quantity moved by the two `POST /inventory/reservations` endpoints |

An action is a whole handler when the handler is one transaction under the lock of the row that decides it:
`CreateOrder`, `Progress`, `Dispatch`, `CancelOrder`, `PostInvoice`, `PayInvoice`. The others are one action
per database call, so that any request, or a crash, can come between:

- `convertToInvoice`: `StartConversion` (reads the order) - `DraftConversion` (creates the invoice) -
  `LinkConversion` (writes status and link);
- `void`: `StartVoid` (reads the status) - `ReverseInvoice` (posts the reversal) - `MarkVoided`;
- `cancel` of an invoice: `StartInvoiceCancellation` - `MarkCancelled`.

`Lapse`, `BlockBatch` and `UpdateBatch` change batches at any time. `Crash` ends a request between two of
its calls.

Abstractions. One product, one location, one line per order: the lines of an order are reserved, released and
consumed in one transaction, and rows of different products or locations are different rows. Money is in
Receivables; credit and other checks that refuse a request before it changes anything are left out. Orders of source FRANCHISE are in
FranchiseSupply; the statuses PLACED and DRAFT are written by nothing, so that `confirm()` has nothing to confirm. POSTED stands for POSTED and CREDIT_OPEN. `updateBatch` may change an expiry
date but not the order of the batches.

### StockBook - what the sales side promises

On-hand stock (AVAILABLE plus RESERVED) per lot, and a book of entries, each made once: a sale takes out, a
return puts back and answers a sale made before. `StockIsBooked` is `SalesFulfilment`'s refinement of it, with
the posted idempotency keys as the entries. Reservation, release and allocation do not appear: they must be
stuttering steps.

### StockTransfer, Custody - transfers to stores

| Variable | Code |
|---|---|
| `transfer[t]` | `StockTransfer.status` and its item |
| `outbox[t]` | the store-sync `InventoryEvent` of the transfer: `status` and `metadata.status` |
| `request[r]` | a request in `dispatch`, `retryStoreSync` or `notifyStoreSync`: the next call, the metadata it read |
| `network`, `store` | registrations under way, what the CEO dashboard knows and counted (external: modelled from the calls made and accepted) |

`Create`, `Confirm`, `Dispatch` (stock, status and outbox event in one transaction) and `Acknowledge` are
atomic. `notifyStoreSync` and `retryStoreSync` are one action per call: `StartRetry`, `ReadOutbox`,
`SavePayload`, `Send`, `Answered` / `Unanswered`, `RecordOutcome`. `ReadOutbox` keeps the metadata it read, and
`SavePayload` writes it back, as the code does. The network loses and repeats registrations; a request waits
for an answer that may never come while the registration still arrives.

Abstractions. One item per transfer. A reused idempotency key is refused and changes nothing. Without
`STORE_SYNC_WEBHOOK_URL` a request ends where a crash would end it. `SHIPPED` is written by no code.
`Answered` may be the answer to another attempt (it asks only that the dashboard knows the transfer), which
allows more than the code does. A database failure after a good answer behaves like `Unanswered`: the code's
`catch` records PENDING.

`Custody` is the abstract specification: goods are in the warehouse, in transit, at the store or closed, and the
quantities of warehouse and transit change only as goods move between them; a consignment closes only when the
store counted all of it. `CustodyKept` is the refinement.

### Procurement, StockCorrection, Warehouse - receipts and corrections

| Variable | Code |
|---|---|
| `purchaseOrder[o]` | `PurchaseOrder.status`; per product, ordered and received quantity of its line |
| `receipt[k]` | the `GoodsReceipt` made under idempotency key `k`: order, accepted quantities, base units per lot |
| `document[d]` | an adjustment or a damage report: status, whether `approvedById` is set, its movements, the count it was made for |
| `count[c]` | `StockCount.status`; per lot the system quantity and the variances of its items (two overlapping updates of a lot that was empty at the start leave two items) |
| `request[r]` | a request between two database calls, with what it has read |

The handlers of `Procurement` are atomic: each locks the order's row. In `StockCorrection` only the two
creations are. `Start` is the part the status handlers share, reading the document and checking its status;
`WriteStatus` writes the new status over whatever it has become; in between `PostDocument` calls `postEvent` in a
transaction of its own. `reconcile` is a chain: `StartReconcile` - `DraftCorrection` - three times
`ContinueCorrection` and `WriteStatus` - `CloseCount`. `startStockCount` checks, reads the rows and creates the count in three
calls, `updateCount` reads and writes in two. `Warehouse` composes the two over one ledger: a step of one leaves the
variables of the other alone, and both move the same rows.

Abstractions. An order has at most one line per product; rejected quantities, suppliers and costs decide nothing. A document made by
hand has one item of non-zero quantity. Counts are in base units (the code says "assuming base units for now",
inventory-reconciliation.service.ts:183). Of two concurrent events with one key the second fails on the unique
index: its request ends, as in `Crash`.

### Receivables - what a retailer owes

| Variable | Code |
|---|---|
| `invoice[i]`, `bill[i]` | `Invoice.status` and `postedAt`; `paidAmount`, `dueAmount`, `paymentStatus` |
| `payment[p]` | `Payment.status`, and whether it has a retailer. `p` is its idempotency key |
| `ledger[d]` | the `RetailerLedgerEntry` rows of an invoice (INVOICE_DEBIT) or payment (PAYMENT_CREDIT): how many, and which entries committed before it its `balanceAfter` does not count |
| `receivable[i]`, `sales[i]` | the two `FinancialLedgerEntry` rows a posting makes |
| `allocated[i]` | history: how many allocations wrote the invoice and what their items gave it; the code records it nowhere |
| `request[r]` | where a handler stands: the rows it has locked and what it has read |

`post` and `payment.create` are cut in two: `StartPost` and `StartPayment` take the locks and read the ledger's sum,
`CommitPost` and `CommitPayment` write. `post` locks the invoice only, `create` the invoice and the retailer, so
an invoice can be posted between a payment's read and its entry. `autoAllocate` reads the open invoices first
(`StartAllocation`) and then, per item, `ReadNext` and `WriteNext`; what it has written (`own`) stays locked till
`CommitAllocation` and is seen by itself only. A list drawn up by hand (`AllocateByHand`) is any list whose total is within the
payment: its items may name an invoice twice, be zero or take from an invoice (see §7). `reverseAllocation` is `StartReverse` and `CommitReverse`. `Abort` ends any of them with no
effect but that of no statement. Two invoices are kept apart by their own rows; amounts are small numbers.

### FranchiseSupply - supplying stores

| Variable | Code |
|---|---|
| `supply[o]`, `history[o]` | `FranchiseSupplyOrder.status` and `salesOrderId`; the `toStatus` of its events |
| `sales[o]`, `createdBy[o]`, `reservation[o]` | the sales order of source FRANCHISE that carries it, the actor in the request hash of its key, its reservation |
| `available`, `reserved`; `atStore[s]`, `receipts` | the central warehouse's rows; the store's row and the keys of receipts |
| `store[s]`, `open` | `FranchiseStore.branchId` and the branch of its location; active branches |
| `invoice[i]`, `link[o]`, `sale[i]`, `returned` | invoices made of the sales orders, the one each sales order names, where each took its goods from when it was posted, and the keys of voids |
| `request[r]` | a request between its two transactions |

`approve` is `StartApproval` - `CreateForSupply` (the sales order, in a transaction of its own, under a key derived from the
supply order and compared with the actor) - `LinkSalesOrder` (locks the supply order, writes status, link and event). `pick`, `pack` and
`dispatch` are `StartStep` - `ProgressSales` - `Follow`. `Receive` is one transaction. The branch of a store is looked
up and then written (`StartAssignment` - `AssignStoreBranch`). The sales order also has its own routes: progress, cancellation,
conversion to an invoice (`StartConversion` reads it and drafts, `LinkConversion` writes INVOICED over it), and its invoices theirs:
`PostInvoice` consumes the reservation of the order that names the invoice, and takes the goods of an invoice no order names off the shelf;
a void puts them on the shelf (`ReverseInvoice`, `MarkVoided`). `OrderOf[i]` and `Here` stand for what the body of the conversion names; paying
and cancelling an invoice move no stock and only forbid the others. `Crash` ends a request between its transactions.

### AuthSessions, BrowserSession - sessions and tokens

`AuthSessions` is the server: `session[s]` (a `Session` or, when `portal`, a `RetailerSession` row), `cached` (the Redis keys),
`fresh` (access tokens not yet expired), `ending` (where `logoutAll` stands), and `request[c].at`, where each HTTP call stands in the
handler that serves it: validation is cut between its read of Redis, of the database and its write to Redis, refresh
between match, rotation, removal of the old key, creation and caching. A session stands for the pair of tokens that
names it. `BrowserSession` adds the client: `stored` (localStorage, shared by tabs), `persisted` (the user
the auth store keeps), `screen[t]`, and `refreshing[t]` with its queue, the calls of the tab at `queued`. Each tab has
its own `isRefreshing`, as each loads the module; the flag is put back by a refresh that failed or by loading the page afresh,
and by nothing else (`SessionLost`). `mishaps` counts down what goes wrong: Redis, the server, the
network or a page fails, a refresh token lapses, a user is suspended or logged out everywhere. A portal browser
has one token and never refreshes.

Passwords, one-time codes, attempts and lock-outs decide whether a login begins; a login here is the session it makes.

### Staff, Papers, SalesPapers, StockPapers, Desk - documents and the people who work on them

`Staff` has the seeded roles with their grants and the two guards. A member of staff has any number of roles and of places: the token
unites what the roles grant, and the scope guard looks at all the places, whichever role they came with. `SalesPapers` and `StockPapers` write down,
for ten kinds of document (transfer, purchase order, adjustment, damage report, count, delivery, invoice, and orders
from the portal, for franchise stores and from sales representatives), four things: the routes of the controller with
permission, scope and whether an Idempotency-Key is wanted; the steps of the service, "locked" where it holds the row, "blind"
where it reads the status and writes over it; the calls of the client functions; and the buttons each page
offers for each status. `Desk` has `status` (the document), `view[u]` (what user u's page shows), `call[u]`, and `hands` (who
approved and who posted). A press sends a call for the status shown; the guards admit it or not; the service takes the
step, or reads now and writes later. Where a route has no button on the page (cancelling an invoice or a purchase order, converting a
storefront order), a member of staff calls it by another client (`CallDirectly`). What moves a document from outside (`Elsewhere`): payments, the
store's acknowledgement of a transfer, the customer's own cancellation, the invoice of a central order. A conversion writes INVOICED over whatever
the order has become; over a cancelled one the model calls that REVIVED. Reconciling a count that found a difference approves and posts an
adjustment on behalf of who reconciles (`Corrects`). Goods and credit are the business of other modules: here they suffice. Saving counted
quantities is in StockCorrection. Tokens live for minutes, and roles are edited as master data; here they do not change while a document is worked on.

### Forms, NewDocument - filing something new

`Forms` writes down nineteen forms by the names of their fields: those each sends in any case, those it sends when they are filled in, and the
calls of its buttons; and for each call the fields the DTO must have and may have (with `whitelist` and
`forbidNonWhitelisted`, any other is refused), whether a key is wanted, and what stands against a
second copy. What a field holds is left out: a request with the right fields may still be refused for what is in them (`RefuseCall`; §7 lists
where the pages let such values through). `NewDocument` is one user at one form: `presses` with the call each has come to, `filed`, and the answers
that were `lost` or refused half-way (`undone`).

### BatchExpiry, CreditLimits, CashSessions, MCOffice

`BatchExpiry`: `life[b]` and `batchStatus[b]`, `open[p]` (expiry events of a batch at a location nobody acted upon), and
`scan[s]`, how far a scan has come through the batches it read. `CreditLimits` and `CashSessions` cut their handlers
between the read and the write. `MCOffice` runs the small parts in one instance: an initial state has one of them at work and
puts the others into a state they never leave, so that their states add up instead of multiplying.

## 4. The runs

| Run | Instance | Shows |
|---|---|---|
| `sales_online` | a storefront and a retailer order, 2 units untracked, 2 invoices, 2 requests | `ConsumedExactlyOnce`, `OpenOrdersHoldStock`, `ShippedWasDeducted`, `InvoiceStockEvents`, `SettledIsFinal` and the refinement `StockIsBooked` under every interleaving of two multi-call requests with all atomic handlers and crashes |
| `sales_batches` | a retailer order of up to 2 over two batches of 1 and 2, 1 invoice, 1 request, reservations by hand | `SnapshotMatchesMovements` and `ReservedRowsAddUp`, also when a reservation spans batches and batches expire, are blocked or reactivated |
| `fefo_allocation` | every stock 0..3 of 4 batches, every wanted quantity 0..7 | `AllocatesFefo`: the loop computes the FEFO allocation of the whole line, and refuses only what the stock cannot cover |
| `transfer_safety` | 2 transfers, 2 requests, 1 lost message, 2 crashes | `SentIsRegistered`, `NeverStranded`, and the refinement `CustodyKept`: nothing in transit is booked twice or forgotten |
| `transfer_delivery` | 1 transfer, 2 requests, 1 loss, 1 crash, fairness | `EventuallyRegistered`, `FullReceiptCloses` |
| `warehouse_receipts` | an order of up to 2 pairs in two batches, 2 receipts, an adjustment, a damage report, 2 requests | `ReceiptsWithinOrder`; `PostedWasApproved` and `PostedIsBooked`: what says POSTED was posted, what was posted was approved |
| `warehouse_counts` | one stock count, 2 adjustments, 2 requests, one lot | `StockIsDocumented`: every row is opening stock and posted documents, each once, also when counts overlap with adjustments and with themselves |
| `receivables` | 2 invoices of 2 and 1, 4 payments (two that compete for an invoice, one for the account, one for nobody), 2 requests | `LedgerIsDocumented`, `PaymentsSeePayments`, `PaidByItsPayments`, `PaidWasGiven` when postings, payments, allocations and reversals overlap |
| `supply_orders` | 2 supply orders of one store, 2 invoices of one of them, 2 branches that open and close, 1 actor, 2 requests, 1 unit | `SupplyAddsUp`, `DispatchedWasDeducted`, `HistoryIsThePath`, `SupplyFollowsSales`, `StoreKeepsItsBranch` with the own routes of the sales order and of its invoices running beside and crashes between the transactions |
| `supply_delivery` | 1 supply order, 2 actors, 2 requests, fairness | `RequestedIsReceived` wherever requests stop |
| `sessions` | 2 sessions, 2 calls, 2 tabs, 1 mishap, staff and portal | `QueuedIsAwaited`, `RevokedIsForgotten`, and under fairness `RevokedPairIsReplaced` |
| `office` | 2 users in five teams at ten kinds of document; nineteen forms with 2 presses and 1 lost answer; 2 batches, 2 scanners; 2 credit requests and 2 deciders; 3 cash sessions and 2 clerks | `RefusalsAreStale`, `TwoPersonRule`, `FinishedStaysFinished`, `DocumentsEnd`; `DuplicatesAreExplained`, `FormsAreRead`; `ExpiredComesOffSale`; `LimitWasGranted`; `TogetherOnlyByRace` |

The comment above each definition says what it states. Each module's type invariant serves the proofs and as
documentation; no run is spent on it alone.

Bounds, and why they are enough. In the sales runs two orders of both sources compete for a row that can serve either; two invoices
let one order be converted twice; two requests give every pair of multi-call handlers, on the same or on
different documents, and a third would only repeat one of them. Two batches of different size are the smallest
stock over which an allocation splits and which can be exhausted in part. `MaxQuantity` bounds a line,
`MaxCorrection` an item of a correction and what is counted (2 where a count must be able to find more than there is),
`MaxOrdered` a line of a purchase order (2, so that it can be received in part), `MaxManual` the net quantity by hand,
`MaxLost` and `MaxCrashes` the failures: every step that reacts to a failure is reached with one, and two crashes
strike two attempts at the same transfer. The allocation run has more batches than any split needs. Two adjustments are
what it takes for a count to be corrected twice. Receipts and counts are in two runs, as no handler of one reads what the other
writes except the rows, which the adjustments change in both.

In `receivables`, `MaxItems` = 2 lets one allocation write two invoices, one invoice twice, or two allocations meet; `Slips` has the kinds of list by hand: one that
gives, one that takes, one that names an invoice twice, one that gives more than its payment by taking from another invoice. 
`MaxReversals` = 1 lets
a reversal meet either; the payment to the account covers the older invoice and part of the newer. In `supply_orders` the stock
covers one order, so that the other waits for what a cancellation or a void puts back; two invoices of the first order are two conversions that meet, and
the second order shows a life without; `MayClose` closes
either branch while it is looked up. A second actor, whose request is refused by the other's key, is in the liveness run. There branches stay open and no order is invoiced: both
would end the order by somebody's decision. In `sessions` a second session is what a refresh creates; `Duties` lets one call log in
and load pages, the other load pages and log out, which is every pair of calls; one mishap leaves every
recovery to be reached. In `office` the teams are an administrator's pair, a branch manager with a keeper, an outsider beside a
super administrator, an administrator of two branches beside store staff, and a user with the roles of both managers beside a keeper; more people are more
stale pages of the same kinds. For expiry an initial state has one scan beside a status set by hand (`MaxEdits` = 1, which puts a batch back on sale behind
the scan's back), or two scans and no such hand. With three cash sessions two can be
open together while the third is being opened. Limits 1 to 3 are two raises.

Symmetry permutes requests and invoices (transfers, actors, branches, competing payments) in the safety runs only; runs with
liveness have none.

Deadlock is not checked: when every order, invoice, transfer or document is finished there is nothing left to do.

Fairness:

- `StockTransfer`: a request being served goes on until it ends or crashes; the network delivers what it does not lose; the
  dashboard counts what is registered and reports the count; and someone retries a transfer whose registration is pending. The last is an
  obligation on the operators: nothing in the code retries by itself.
- `FranchiseSupply`: a request goes on; a step that is possible again and again, crashes notwithstanding, is
  completed some time (strong fairness); the staff approve, pick, pack, dispatch and receive what waits for them, and
  give a store without a branch one. Without the staff nothing in the code moves.
- `BrowserSession`: the server and the browser go on with a call they have begun, pages go on being used (`Advance` includes the next call of an
  idle page), and access tokens expire after their time.
- `Desk`: staff open the page again when it is out of date, press its first button, which is the way on, and not every call of theirs is
  lost. Cancelling, rejecting and voiding is never owed to anybody. `DocumentsEnd` asks this only of a team whose roles and
  places let somebody take each step.
- `BatchExpiry`: the scan is pressed again and goes on, and events are marked some day. Time need not pass.

The sales, warehouse and receivables modules have no liveness property: no step follows there unless a person asks.

## 5. What is proved

Every invariant and every action property that a run checks is a theorem too, and so are the two refinements.

`SalesFulfilmentProofs` proves, for any sets of orders, invoices, requests and lots, any
quantities and any opening stock: the type invariant (`TypeCorrect`), `SnapshotMatchesMovements`, `ConsumedExactlyOnce`,
`OpenOrdersHoldStock`, `ShippedWasDeducted`, `InvoiceStockEvents`, `SettledIsFinal`, and that
`SalesFulfilment` implements `StockBook`. The assumptions are those of the modules on the types of the constants
(`LedgerAssumption`, `FulfilmentAssumption`); TLC evaluates them in every run.

The argument. None of the safety properties is inductive, because requests that were interrupted act later on what
they have read: `ReverseInvoice` no longer looks at the invoice, `LinkConversion` no longer looks at the order.
`SalesFulfilmentInvariant` states what they may still rely on:

- `RequestsRemember`: a request about to link holds an invoice drafted for its order; a request about to
  reverse holds an invoice that was deducted;
- `LinkedToItsOwn`: an order is linked only to an invoice drafted for it, so that two orders never share an
  invoice and the consumption key of an invoice settles one reservation;
- `OpenOrdersUnlinked`: an open order has no link, so cancelling it releases stock no invoice can have consumed
  through it;
- `ConsumptionsSettle`: a consumption event leaves its reservation CONSUMED.

`Inv` is the conjunction of these with the properties. `Init => Inv` and `Inv /\ [Next]_vars => Inv'` are proved
with one lemma per handler or group of handlers, and the theorems follow from `InvariantHolds`.
`InventoryLedgerProofs` holds the lemmas on the ledger: each operation keeps rows non-negative, equal to the log, and
the set of keys growing.
`ReservedRowsAddUp` (theorem `ReservedAddsUp`) is proved from `Inv` for any finite set of orders: a step changes the reservation of at most one
order, so that the sum changes by what that one order owed before and owes now, and `Inv` says that a row is moved by exactly that.
The refinement uses `Inv` too: that a return answers an earlier sale is `RequestsRemember`, that a second consumption does not
happen is `ConsumptionsSettle`.

`AllocatesFefo` (theorem `LoopAllocatesFefo`) holds for any number of batches and any stock. `LoopInv` (at the end of `FefoAllocation`) is the
loop's invariant: what is allocated and what remains make the line, batches behind are emptied as long as something remains, and batches ahead are
untouched. That the loop does not run out of batches is the check before it: when every batch is emptied, the
allocations sum to the stock, which is no less than the line, so nothing remains.
`FefoIsUnique` adds that there is no other such allocation: two of them cannot cross (`AllocationsDoNotCross`), and with one sum they are one. So what
`CreateOrder` of `SalesFulfilment` takes for a line, any allocation that meets the definition, is what the loop computes.

`SumTheorems` has what these and the next proofs need of sums over finite sets: the equation of `SumFunctionOnSet`, that any element may be
taken out first (`SumRemove`), and that a sum changes with one value by as much (`SumChanges`). The library's induction theorems take an operator as
a parameter and cannot be used here; an induction over the subsets of a finite set is instead an appeal to a smallest
subset that lacks the property (`SmallestSubset`), of which there is one because strict inclusion is well-founded. The sets that are summed over are assumed finite,
as the rows of a table are: `FinitelyManyOrders`, `FinitelyManyReceipts`, `FinitelyManyDocuments`, `FinitelyManyPayments`.

`WarehouseProofs` proves `PostedWasApproved` and `PostedIsBooked` of `Warehouse`, for any sets of orders, documents,
counts and requests. Here too a request acts on what it has read: when it posts, the document may have been
rejected or approved again, and when it writes its status, another request may have written another. `Inv` (at the
end of `Warehouse`) says what survives that: whoever is about to post holds a document that was approved,
whoever is about to write POSTED has posted it (`RequestsJustified`), and APPROVED is never a status
without an approval (`ApprovalIsRecorded`), because `approvedById` is written with it and never cleared. The lemmas
`StartKeeps`, `ProceedKeeps`, `PostDocumentKeeps` and `WriteStatusKeeps` carry the argument, once for all seven
status handlers; a stock count's steps either leave documents alone (`CountingKeeps`) or are those handlers again, and a
goods receipt posts under keys no document has (`ReceiptKeysDiffer`). Nothing is assumed of the constants but
`LedgerAssumption`, `ProcurementAssumption`, `CorrectionAssumption` and, for the sums, that receipts and documents are finitely many.

On top of `Inv`, `StockInv` (in `WarehouseProofs`) carries `StockIsDocumented` and `ReceiptsWithinOrder`. The rows change only with a new key, and a
key is a document's or a receipt's: a document's movements never change once it is there, so its summand becomes what it moved, once, and a
receipt's goods are recorded in the step that posts them. For the receipts `ReceiptInv` (at the end of `Procurement`) says that the running total of each
line is the sum over the receipts of its order (`ReceivedAddsUp`), that the status was chosen by that total (`StatusFits`), and
that a receipt not made yet has brought nothing (`UnusedReceipts`).

It also proves two facts about `BatchExpiry` that no run has to itself. `EventsMeetByRace`: scans look for an event and create one later, so a place can
be flagged twice, but only by as many scans as race each other; a scan about to flag is counted as its event (`EventsAreScanned`).
`ExpiredIsOver`: a scan works through old rows, but what it remembers as past its date stays so (`ScansRemember`). They hold for any finite
set of scanners (`FinitelyManyScanners`) and have been checked with TLC on two scanners and three places.

`FinanceProofs` proves `LedgerIsDocumented` and `PaymentsSeePayments`, for any invoices, payments, amounts and requests.
A transaction writes entries about documents it read when it took its locks, so the invariant `BooksInv` says what those
locks keep true: `RowsLockedOnce` (no row is locked twice and no key is held twice) and `RequestsAreCurrent` (a request
in `post` holds an invoice that still is a draft; one in `create` holds a key nobody recorded and, when it is of the account, has seen every
payment entered so far, because the retailer's row is its own). `RowsStayLockedOnce` is the lemma on the locks; each handler has
a lemma for its first half and one for its commit.

What is paid is a second invariant on top, `BillsInv`. A payment that has taken its locks has read what its invoice still is, and fits into what is due
(`PaymentsFit`): nobody else writes that bill before it commits, since `RowsLockedOnce`. An allocation reads without a lock, so what it read may be overtaken;
but it was no more than the invoice's funds (payments taken and items given by allocations that committed), and those only grow, so that it writes no more than
the funds and what it gives itself (`AllocationsFunded`). The two properties follow: `PaidWasGiven` always, and `PaidByItsPayments`
as long as no allocation and no reversal touched the invoice. Nothing is assumed of the lists of items but that amounts are integers.

`FranchiseSupplyProofs` proves `SupplyFollowsSales`, `DispatchedWasDeducted`, `HistoryIsThePath` and
`StoreKeepsItsBranch`. Between its two transactions a request relies on something it no longer looks at: that the sales order it moved
is still as far. It is, because whatever else happens to a sales order goes onward (the lemmas named
`...IsOnward`): it is moved on, cancelled or invoiced, and never back. `RequestsAreBacked` in `SupplyInv` states what each
waiting request has reached that way, and `ShippedIsConsumed` that a sales order which left has consumed its reservation.
`HistoryIsThePath` then follows as the second transaction takes its step only from the status before it (`EnteringStep`).
`SupplyAddsUp` and the type invariant are proved for any finite sets of orders and invoices from `StockInv`: each step moves one order or invoice between the
sets that are summed over (reserved, consumed, received; sold off the shelf, put back), and the row it writes by its quantity; goods are received once because a
receipt is in the ledger only for an order that is RECEIVED, and a reservation is sold by one invoice because posting wants it ACTIVE (`InvoicesInv`).

`StockTransferProofs` proves `SentIsRegistered`, `NeverStranded` and that `StockTransfer` implements `Custody`. A request
sends on metadata it read some calls ago, and another may have delivered in the meantime. `TransferInv` (at the end of `StockTransfer`) says
why that is harmless: a request sends only what was dispatched, and the only sync status a pending event can have had is
PENDING, so that writing it back undoes nothing (`RequestsSend`, `OutboxFollows`). `KeysFollow` ties the keys of the ledger to the
statuses, so that goods depart and are closed once. In the refinement a dispatch is a departure, `Receive` a counting,
`Acknowledge` a closing, `Create` a packing, and everything else, the whole of the delivery included, is a stutter
(`UnseenByCustody`).

`FrontEndProofs` proves of `Desk` the properties `TwoPersonRule` and `FinishedStaysFinished`, for any staff with any sets of the seeded roles and of
places. `DeskInv` (at the end of `Desk`) says that whoever approved, posted, reconciled or is between the read and the write of it passed the guard for it
(`HandsAreEntitled`), and that with a row lock nothing is ever in between but the conversion of a storefront order (`LockedAtOnce`). The rest is read
off the tables: who is granted both duties is an administrator or both managers (`TwoDuties`), only counts are reconciled
(`CountsReconcile`), and no locked step leads away from an end (`EndsAreEnds`). The grants are those of the seed: a role edited later grants what it then says.
`RefusalsAreStale` is a comparison of the page's table with the service's, one lemma per kind of document (`...Matches`, put together by `PapersMatch`), and
that a call asks for what its page offered (`SentIsAStep`). `DeskTypeCorrect` says that a document only ever has a status of its kind, the
REVIVED order included (`OrdersConvert`).

Of `NewDocument` it proves `DuplicatesAreExplained` and `FormsAreRead`, for any number of presses. The first is a count: every press that may have filed
something, but the one the page waits for, was given up without an answer or refused half-way, and each of those is counted (`FormInv`).
The second compares the fields each form can send with those its DTO reads, one lemma per form (`...FormReads`).

Of `BrowserSession` it proves `QueuedIsAwaited`, `RevokedIsForgotten` and the type invariant, for any tabs, calls and sessions, and any number of
mishaps. `TabInv` adds to the first that a login is neither refreshed nor sent again and that each handler has the session it works on; the server's
steps are one lemma (`ServerStepServes`: a call stays in its tab and goes on refreshing or not), the client's one lemma each. `CacheInv` says
why Redis forgets: a pair on its way into Redis is known to nobody yet (`IsSecret`), so that nobody can have revoked it; and while nothing has failed a live session with a good access token
is in Redis already, so that validation never fills it from a row that another handler revokes meanwhile (`NothingToFill`).
Looking for this invariant corrected the model: `refreshing` had been put back on every way to the login page, where
the interceptor leaves it set when it finds no refresh token (client.ts:66-135); with three calls the old model left the queue.

`FinanceProofs` also proves `LimitWasGranted` and `TogetherOnlyByRace`. For the first, every limit ever asked for is above the
first limit (`AskedAboveStart`), although each request compared with a limit of its own time, and decisions are about requests
that were made. For the second, whoever is past its look has an account of every session opened since (`OpenedUnseen`).

The assumptions on the constants are those named in the modules (`ReceivablesAssumption`, `SupplyAssumption`,
`CreditAssumption`, `CashAssumption`, `TransferAssumption`, `DeskAssumption`, `FormAssumption`, `SessionsAssumption`, `DutiesAssumption`,
`AllocationAssumption` and those above), which TLC evaluates in the runs.

## 6. What is only model-checked

- Liveness: `EventuallyRegistered`, `FullReceiptCloses`, `RequestedIsReceived`, `RevokedPairIsReplaced`, `DocumentsEnd`,
  `ExpiredComesOffSale`. Fairness and `ENABLED` are out of the prover's reach.

## 7. Known disagreements

What the code does differs from what a document, a message or another part of the code expects. The modules below keep
the code's behaviour, and the properties above hold with it; nothing in the runs excludes it.

Stock and orders:

- An invoice that `convertToInvoice` created but has not linked can be posted; it takes the order's stock from AVAILABLE
  while the reservation keeps holding it (sales-order.service.ts:727, 747). Two concurrent conversions create two invoices (699-727).
  `SupplyAddsUp` counts such sales for themselves.
- Voiding the invoice of a supply order puts the goods on the shelf again (invoice.service.ts:268-286) while its reservation stays CONSUMED, and the
  order can still be dispatched and received: the store has goods the warehouse has too.
- Stock of a batch that expired or was blocked after it was reserved is sold (stock-reservation.service.ts:502, 578), against
  03-inventory-engine.md:1490.
- An order can be dispatched on an invoice whose stock a void has already put back: the reversal commits
  (invoice.service.ts:267) before the status is VOIDED (288). The void of an invoice over several batches returns it
  to the null batch (275; 03-inventory-engine.md:1489).
- A transfer of which the store counted less than was sent stays in transit for ever (stock-transfer.service.ts:414),
  against 03-inventory-engine.md:916.
- Reconciling a count again, after a crash or at the same time, posts its variance again
  (inventory-reconciliation.service.ts:171, 194), against the comment at 151. Two counts of a location can both start (28-49, message at
  36). A variance is taken against the stock at the start of the count, so that sales before the goods are counted are corrected a
  second time (109).
- Releasing by hand takes stock an order holds, whose dispatch then fails (stock-reservation.service.ts:326, inventory.controller.ts:142).
- A report that was posted can end REJECTED, when `reject` read it before (damage-report.service.ts:154-163).
- The expiry scan passes over a batch it has recorded once (expiry.service.ts:57, comments at 17 and 71), and its audit entry
  names a user `system` that does not exist, so that it stops after the first batch it blocks.
- A central order whose invoice is paid or voided before the dispatch can never be dispatched (sales-order.service.ts:594).
- `convertToInvoice` does not look at the source of an order (sales-order.service.ts:699-708) and writes INVOICED over whatever it has become (748): a
  storefront order that was converted has no button left, and one that was cancelled meanwhile, or delivered, becomes INVOICED.
  `FinishedStaysFinished` excepts exactly this write.

Staff:

- Stock is meant to be corrected by two people, but nothing compares them: who holds the roles of both managers approves and posts alone, and a warehouse
  manager who reconciles a count approves and posts its adjustment, with no permission to approve (inventory-reconciliation.service.ts:171-194). `TwoPersonRule`
  says who can.
- The scope guard takes the warehouse that the body of a conversion names without looking up its branch (scope.guard.ts:137-139): staff with a
  branch role only, who may work the order otherwise, cannot convert it.

Money:

- A payment makes a DRAFT invoice PAID, which then can never be posted (payment.service.ts:142; 05-backend-architecture.md:1247). The
  invoice status PARTIALLY_PAID is written by nothing.
- `allocatePayment` looks at the total of a list only (payment-allocation.service.ts:92-96) and its route takes the body as it comes: one
  item may give more than the payment when another takes from an invoice what was paid of it, an item may make a paid amount negative, and
  a payment can be allocated again and again. `PaidWasGiven` therefore counts what items gave, not what payments were of. `reverseAllocation`
  empties invoices that other payments paid (209-221).
- Posting does not lock the retailer: the `balanceAfter` of an entry can miss an invoice posted meanwhile.
- A credit limit falls when the older of two requests is approved last; a request
  can be approved and end REJECTED, its limit in force. `enforceCreditLimit` is called by nothing. Asking and approving need the same permission.
- Two cash sessions of a branch can open. `GET variance-report` is shadowed by `GET :id`.
- Numbers `INV-`, `TRF-`, `DLV-`, `DMG-` from `Date.now()` collide within a millisecond.

Client:

- A refresh that fails removes the tokens but not the stored user: the login page sends that user back to the dashboard,
  whose first call sends them to the login page (client.ts:109, login page 19-23).
- Payments, "Save & Pay" on a new invoice, the payment dialog of an invoice, the portal's new order and its quick
  reorder send no Idempotency-Key and are refused. A new order sends a price and a base quantity per line the DTO does not have. `FormsAreRead` names these.
- Some pages let values through that the server refuses: an emptied quantity of a damage report is sent as 0 (stock/damage/new/page.tsx:186), and so
  are quantity and price of an invoice line (invoices/new/page.tsx:364); the Invoice ID of a delivery and the Unit ID of an
  adjustment are free text (deliveries/new/page.tsx:141, stock/adjustments/new/page.tsx:217); a branch without an e-mail address sends an empty one; a
  new transfer sends the warehouse for both locations; the quick reorder sends the unit `placeholder`.
- Lists that are scoped by branch refuse staff of one branch when the page sends none, and the filters of the expiry list are refused.
  `franchiseApi` unwraps its answers twice, so that the franchise pages show nothing. The cash page asks for a branch `default`.
- `UpdateRetailerDto` has no decorators, so that every change of a retailer is refused. Orders from WhatsApp never succeed.
- Demo mode answers without the server when it is on; the offline queue is called by nothing.

## 8. What is not modelled

- Lock order and deadlock of snapshot rows (Postgres aborts one transaction, which is a request that never began), the unit in a row's key and the
  unique key over a null `batchId`, several locations, and the check of stock before a reservation by hand.
- Prices, taxes and the credit check of an order: numbers that refuse a request before it changes anything.
- The items of a delivery, which nothing else reads.
- Passwords, one-time codes, login attempts and lock-outs; editing forms and import; list pages, dashboards, reports, notifications,
  recommendations, the audit log, demo data, configuration: reads, or single writes nothing depends on. PROJECT.json gives the
  reason for each.
- The order chat, which shares no state with the rest.

Postgres itself is trusted: row locks exclude, transactions are atomic, and unique keys are unique. So is Redis, but that it
may be down.
