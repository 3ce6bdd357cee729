--------------------------------- MODULE Desk ----------------------------------
(***************************************************************************)
(* Staff working on one document.                                          *)
(*                                                                         *)
(* A member of staff opens the document's page, which keeps the status it  *)
(* read, and presses a button the page offers for that status.  The call   *)
(* passes the guards of its route and the service looks at the status the  *)
(* document has by then.  The page reads the document again after a call   *)
(* that succeeded, and whenever it is opened.  Where a route has no button *)
(* on the page, a member calls it by another client, at any time.          *)
(*                                                                         *)
(* Stock and credit are other modules': here the goods a document needs    *)
(* are there.  One call at a time stands for each member: two buttons      *)
(* pressed together are two members.                                       *)
(***************************************************************************)
EXTENDS SalesPapers, StockPapers

CONSTANTS Users, Teams, None

ASSUME DeskAssumption ==
  /\ Teams \subseteq [Users -> Seats]
  /\ None \notin Users

VARIABLES
  kind,    \* what kind of document it is
  team,    \* who works on it: a seat for each user
  status,  \* the document's status
  view,    \* view[u]: the status u's page shows
  call,    \* call[u]: the call of u's page, while it is pending
  hands    \* who approved and who posted the document, or the adjustment of a count

deskVars == <<kind, team, status, view, call, hands>>

Paper(routes, steps, calls, page, first, rest) ==
  [routes |-> routes, steps |-> steps, calls |-> calls, page |-> page, first |-> first, rest |-> rest]

\* "rest": the statuses at which nobody at the desk has to do more.  An order
\* that is INVOICED waits for its invoice, one that is SETTLED cannot leave; one that
\* was converted after it had been cancelled, here REVIVED, has the status
\* INVOICED, no stock and no way on.
Documents ==
  [transfer   |-> Paper(TransferRoutes, TransferSteps, TransferCalls, TransferPage, "DRAFT",
                        {"IN_TRANSIT", "RECEIVED"}),
   purchase   |-> Paper(PurchaseRoutes, PurchaseSteps, PurchaseCalls, PurchasePage, "DRAFT",
                        {"RECEIVED", "CANCELLED"}),
   adjustment |-> Paper(AdjustmentRoutes, CorrectionSteps, AdjustmentCalls, AdjustmentPage, "DRAFT", {"POSTED"}),
   damage     |-> Paper(DamageRoutes, DamageSteps, DamageCalls, DamagePage, "DRAFT", {"POSTED", "REJECTED"}),
   count      |-> Paper(CountRoutes, CountSteps, CountCalls, CountPage, "DRAFT", {"RECONCILED"}),
   delivery   |-> Paper(DeliveryRoutes, DeliverySteps, DeliveryCalls, DeliveryPage, "PENDING",
                        {"DELIVERED", "CANCELLED"}),
   invoice    |-> Paper(InvoiceRoutes, InvoiceSteps, InvoiceCalls, InvoicePage, "DRAFT",
                        {"POSTED", "PAID", "VOIDED", "CANCELLED"}),
   online     |-> Paper(OrderRoutes, OnlineOrderSteps, OrderCalls, OnlineOrderPage, "CONFIRMED",
                        {"DELIVERED", "CANCELLED", "INVOICED", "REVIVED"}),
   central    |-> Paper(OrderRoutes, CentralOrderSteps, OrderCalls, CentralOrderPage, "CONFIRMED",
                        {"DELIVERED", "CANCELLED", "INVOICED", "SETTLED", "REVIVED"}),
   rep        |-> Paper(OrderRoutes, RepOrderSteps, OrderCalls, RepOrderPage, "CONFIRMED",
                        {"INVOICED", "CANCELLED", "REVIVED"})]

Kinds == DOMAIN Documents

paper == Documents[kind]

Offered(shown) == IF shown \in DOMAIN paper.page THEN paper.page[shown] ELSE << >>

\* How a document moves by what is done elsewhere.
Moves(k) ==
  CASE k = "invoice" -> InvoiceElsewhere
    [] k = "transfer" -> TransferElsewhere
    [] k \in {"online", "rep"} -> CancelledOutside
    [] k = "central" -> CentralElsewhere
    [] OTHER -> {}

Statuses(k) ==
  {Documents[k].first} \cup {step.to : step \in Documents[k].steps}
    \cup {move[2] : move \in Moves(k)} \cup Documents[k].rest

\* What only another client calls.
Unoffered ==
  {op \in DOMAIN paper.calls \cap {step.op : step \in paper.steps} :
     \A shown \in DOMAIN paper.page : \A n \in DOMAIN paper.page[shown] : paper.page[shown][n] # op}

Idle == [at |-> "idle"]

DeskTypeOK ==
  /\ kind \in Kinds /\ team \in Teams
  /\ status \in Statuses(kind)
  /\ view \in [Users -> Statuses(kind) \cup {None}]
  /\ \A u \in Users :
       \/ call[u] = Idle
       \/ call[u] \in [at : {"sent"}, op : DOMAIN paper.calls, shown : DOMAIN paper.page]
       \/ call[u] \in [at : {"read"}, step : paper.steps]
  /\ hands \in [approve : Users \cup {None}, post : Users \cup {None}]

DeskInit ==
  /\ kind \in Kinds /\ team \in Teams
  /\ status = Documents[kind].first
  /\ view = [u \in Users |-> None]
  /\ call = [u \in Users |-> Idle]
  /\ hands = [approve |-> None, post |-> None]

\* The page reads the document: when it is opened, and again after a success.
Open(u) ==
  /\ Admits(paper.routes.view, team[u])
  /\ view[u] # status
  /\ view' = [view EXCEPT ![u] = status]
  /\ UNCHANGED <<kind, team, status, call, hands>>

\* The n-th button for the status the page shows; it is disabled while pending.
Press(u, n) ==
  /\ call[u] = Idle
  /\ n \in DOMAIN Offered(view[u])
  /\ call' = [call EXCEPT ![u] = [at |-> "sent", op |-> Offered(view[u])[n], shown |-> view[u]]]
  /\ UNCHANGED <<kind, team, status, view, hands>>

\* The guards and the handler let the call through to the service.
Passes(u, op) ==
  LET sent == paper.calls[op]
      route == paper.routes[sent.route]
  IN Admits(route, team[u]) /\ (route.keyed => sent.key)

\* The steps the service would take from the status the document has.
Answers(op) == {step \in paper.steps : step.op = op /\ step.from = status}

\* The status INVOICED is REVIVED where the order was cancelled.
Lands(step) ==
  IF step.op = "convert" /\ status \in {"CANCELLED", "REVIVED"} THEN "REVIVED" ELSE step.to

Take(u, step) ==
  /\ status' = Lands(step)
  /\ hands' = IF step.op \in DOMAIN hands /\ step.from # step.to THEN [hands EXCEPT ![step.op] = u] ELSE hands

\* Reconciling a count that found a difference approves and posts an adjustment
\* before the count is written.
Corrects(u, step) ==
  hands' \in IF step.op = "reconcile" THEN {hands, [approve |-> u, post |-> u]} ELSE {hands}

\* The service takes the step under the row's lock, or has read the status.
Handle(u, op) ==
  /\ Passes(u, op)
  /\ \E step \in Answers(op) :
       IF step.how = "locked"
       THEN Take(u, step) /\ call' = [call EXCEPT ![u] = Idle]
       ELSE /\ call' = [call EXCEPT ![u] = [at |-> "read", step |-> step]]
            /\ Corrects(u, step) /\ UNCHANGED status
  /\ UNCHANGED <<kind, team, view>>

Serve(u) == call[u].at = "sent" /\ Handle(u, call[u].op)

\* Another client calls a route the page has no button for.  Nothing was shown
\* that could be out of date: the call begins when it is served.
CallDirectly(u, op) == call[u] = Idle /\ op \in Unoffered /\ Handle(u, op)

\* It writes what it decided, over whatever the document has become.
Write(u) ==
  /\ call[u].at = "read"
  /\ Take(u, call[u].step)
  /\ call' = [call EXCEPT ![u] = Idle]
  /\ UNCHANGED <<kind, team, view>>

\* 401, 403, 422: the page shows the message and what it showed before.
Refuse(u) ==
  /\ call[u].at = "sent"
  /\ ~Passes(u, call[u].op) \/ Answers(call[u].op) = {}
  /\ call' = [call EXCEPT ![u] = Idle]
  /\ UNCHANGED <<kind, team, status, view, hands>>

\* The server stops, or the call never reaches it.
Lose(u) ==
  /\ call[u] # Idle
  /\ call' = [call EXCEPT ![u] = Idle]
  /\ UNCHANGED <<kind, team, status, view, hands>>

\* Payments come in, goods are acknowledged, the invoice of a central order goes
\* its own way, and an order is cancelled by who placed it.
Elsewhere ==
  /\ \E move \in Moves(kind) : status = move[1] /\ status' = move[2]
  /\ UNCHANGED <<kind, team, view, call, hands>>

DeskNext ==
  \/ \E u \in Users :
       \/ Open(u)
       \/ \E n \in {1, 2} : Press(u, n)
       \/ \E op \in Unoffered : CallDirectly(u, op)
       \/ Serve(u) \/ Write(u) \/ Refuse(u) \/ Lose(u)
  \/ Elsewhere

\* Staff go on reading the page and pressing its first button, the way on, and
\* not every call of theirs is lost; cancelling, rejecting and voiding is never
\* owed to anybody, nor is what another client asks for.
DeskFairness ==
  \A u \in Users :
    /\ WF_deskVars(Open(u))
    /\ SF_deskVars(Press(u, 1))
    /\ SF_deskVars(Serve(u) \/ Refuse(u))
    /\ SF_deskVars(Write(u))

DeskSpec == DeskInit /\ [][DeskNext]_deskVars /\ DeskFairness

-----------------------------------------------------------------------------
(* Properties.                                                             *)

\* What a page offers the service does: a button that is pressed is refused for
\* the document's status only when the document has moved on since it was shown.
RefusalsAreStale ==
  \A u \in Users :
    call[u].at = "sent" /\ status = call[u].shown => Answers(call[u].op) # {}

\* Transfers, purchase orders and storefront orders move under a row lock: one
\* that is at its end stays there, whatever calls are still under way.  One call
\* is not locked: a storefront order that was read for a conversion before its
\* end still becomes INVOICED, by nothing else.
Locked == kind \in {"transfer", "purchase", "online"}

Ended == status \in {"RECEIVED", "DELIVERED", "CANCELLED", "REVIVED"}

Converting(u) == kind = "online" /\ call[u].at = "read" /\ call[u].step \in ConvertConfirmed

Converted(u) ==
  /\ Converting(u) /\ call'[u] = Idle
  /\ status' = IF status \in {"CANCELLED", "REVIVED"} THEN "REVIVED" ELSE "INVOICED"

FinishedStaysFinished ==
  [][Locked /\ Ended => status' = status \/ \E u \in Users : Converted(u)]_deskVars

\* Stock is corrected by two people.  Who both approves and posts an adjustment
\* or a damage report, however the calls overlap, is an administrator or holds
\* the roles of both managers; a count is corrected by whoever reconciles it,
\* an administrator or a warehouse manager.
Administers(roles) == roles \cap {"SUPER_ADMIN", "ADMIN"} # {}

CorrectsAlone(roles) ==
  \/ Administers(roles)
  \/ "WAREHOUSE_MANAGER" \in roles /\ (kind = "count" \/ "BRANCH_MANAGER" \in roles)

TwoPersonRule ==
  kind \in {"adjustment", "damage", "count"} /\ hands.approve # None /\ hands.approve = hands.post
    => CorrectsAlone(team[hands.post].roles)

\* For every status with work left, somebody may see the page and press on.
Staffed ==
  \A shown \in DOMAIN paper.page \ paper.rest :
    \E u \in Users :
      /\ Admits(paper.routes.view, team[u])
      /\ Admits(paper.routes[paper.calls[paper.page[shown][1]].route], team[u])

\* A team that between them may do every step brings every document to rest,
\* however often their pages are out of date or their calls are lost.
DocumentsEnd == Staffed ~> [](status \in paper.rest)

-----------------------------------------------------------------------------
(* The inductive invariant of FrontEndProofs: what a call has passed, by   *)
(* the time it writes, and what the lock of a row leaves unsaid.           *)

\* What the routes ask of those who approve and post a correction, or reconcile
\* a count.
Duty(op) == IF op = "approve" /\ kind # "count" THEN "inventory.adjust.approve" ELSE "inventory.adjust.post"

Entitled(u, op) == op \in {"approve", "post", "reconcile"} => HasPermission(team[u], Duty(op))

HandsAreEntitled ==
  kind \in {"adjustment", "damage", "count"} =>
    /\ \A op \in {"approve", "post"} : \A u \in Users : hands[op] = u => Entitled(u, op)
    /\ \A u \in Users : call[u].at = "read" => Entitled(u, call[u].step.op)

LockedAtOnce ==
  Locked => \A u \in Users : Converting(u) \/ call[u].at # "read"

DeskInv ==
  /\ kind \in Kinds /\ team \in [Users -> Seats]
  /\ call = [u \in Users |-> call[u]]
  /\ hands \in [approve : Users \cup {None}, post : Users \cup {None}]
  /\ HandsAreEntitled /\ LockedAtOnce

\* A call that is under way asks for a step there is from the status its page
\* showed.
SentIsAStep ==
  \A u \in Users : call[u].at = "sent" =>
    \E step \in paper.steps : step.op = call[u].op /\ step.from = call[u].shown

OfferInv == kind \in Kinds /\ call = [u \in Users |-> call[u]] /\ SentIsAStep
===============================================================================
