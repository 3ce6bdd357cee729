------------------------------ MODULE FrontEndProofs ------------------------------
(***************************************************************************)
(* Proofs about the web front end.  Desk, for any staff and any teams: who *)
(* corrects stock, documents that are at their end, and that each page     *)
(* offers what the service accepts.  NewDocument, for any number of        *)
(* presses: every copy is explained, and what a form sends is read.        *)
(* BrowserSession, for any tabs, calls and tokens: no call waits in vain,  *)
(* and Redis forgets what is revoked.                                      *)
(***************************************************************************)
EXTENDS Desk, NewDocument, BrowserSession, SequenceTheorems, FiniteSetTheorems, TLAPS

Corrections == {"adjustment", "damage", "count"}

-----------------------------------------------------------------------------
(* What the tables say.                                                    *)

\* The routes that approve and post a correction, and the one that reconciles a
\* count, ask for the duty of each.
LEMMA CorrectionDuties ==
  ASSUME kind \in Corrections, NEW step \in paper.steps, step.op \in {"approve", "post", "reconcile"}
  PROVE  paper.routes[paper.calls[step.op].route].permission = Duty(step.op)
<1>1. CASE kind = "adjustment"
  <2>1. step.op \in {"approve", "post"}
    BY <1>1 DEF paper, Documents, Paper, CorrectionSteps, Steps
  <2> QED
    BY <1>1, <2>1 DEF paper, Documents, Paper, AdjustmentRoutes, AdjustmentCalls, Call, Route, Duty
<1>2. CASE kind = "damage"
  <2>1. step.op \in {"approve", "post"}
    BY <1>2 DEF paper, Documents, Paper, DamageSteps, CorrectionSteps, Steps
  <2> QED
    BY <1>2, <2>1 DEF paper, Documents, Paper, DamageRoutes, DamageCalls, Call, Route, Duty
<1>3. CASE kind = "count"
  <2>1. step.op = "reconcile"
    BY <1>3 DEF paper, Documents, Paper, CountSteps, Steps
  <2> QED
    BY <1>3, <2>1 DEF paper, Documents, Paper, CountRoutes, CountCalls, Call, Route, Duty
<1> QED
  BY <1>1, <1>2, <1>3 DEF Corrections

\* Nothing but a count is reconciled.
LEMMA CountsReconcile ==
  ASSUME kind \in Corrections, NEW step \in paper.steps, step.op = "reconcile"
  PROVE  kind = "count"
<1>1. CASE kind = "adjustment"
  BY <1>1 DEF paper, Documents, Paper, CorrectionSteps, Steps
<1>2. CASE kind = "damage"
  BY <1>2 DEF paper, Documents, Paper, DamageSteps, CorrectionSteps, Steps
<1> QED
  BY <1>1, <1>2 DEF Corrections

\* Every step of a transfer, a purchase order or a storefront order is taken
\* under the lock of its row, but the conversion of a storefront order.
LEMMA LockedSteps ==
  ASSUME Locked, NEW step \in paper.steps
  PROVE  step.how = "locked" \/ (kind = "online" /\ step \in ConvertConfirmed)
<1>1. CASE kind = "transfer"
  BY <1>1 DEF paper, Documents, Paper, TransferSteps, Steps
<1>2. CASE kind = "purchase"
  BY <1>2 DEF paper, Documents, Paper, PurchaseSteps, Steps
<1>3. CASE kind = "online"
  <2>1. step \in Progress \cup CancelOrder \cup Steps("DISPATCHED", {"PACKED", "INVOICED"}, "DISPATCHED", "locked")
        \/ step \in ConvertConfirmed
    BY <1>3 DEF paper, Documents, Paper, OnlineOrderSteps
  <2> QED
    BY <1>3, <2>1 DEF Progress, Repeats, CancelOrder, Steps
<1> QED
  BY <1>1, <1>2, <1>3 DEF Locked

\* A conversion takes a confirmed order and writes INVOICED.
LEMMA ConversionSteps ==
  ASSUME NEW step \in ConvertConfirmed
  PROVE  step.op = "convert" /\ step.from = "CONFIRMED" /\ step.to = "INVOICED"
BY DEF ConvertConfirmed, Steps

\* No step of theirs leaves a status at which they end.
LEMMA EndsAreEnds ==
  ASSUME Locked, Ended, NEW step \in paper.steps, step.from = status
  PROVE  Lands(step) = status
<1>1. CASE kind = "transfer"
  BY <1>1 DEF Ended, Lands, paper, Documents, Paper, TransferSteps, Steps
<1>2. CASE kind = "purchase"
  BY <1>2 DEF Ended, Lands, paper, Documents, Paper, PurchaseSteps, Steps
<1>3. CASE kind = "online"
  <2>1. step \in Progress \cup CancelOrder \cup Steps("DISPATCHED", {"PACKED", "INVOICED"}, "DISPATCHED", "locked")
        \/ step \in ConvertConfirmed
    BY <1>3 DEF paper, Documents, Paper, OnlineOrderSteps
  <2>2. step \notin ConvertConfirmed
    BY ConversionSteps DEF Ended
  <2> QED
    BY <1>3, <2>1, <2>2 DEF Ended, Lands, Progress, Repeats, CancelOrder, Steps
<1> QED
  BY <1>1, <1>2, <1>3 DEF Locked

\* Who is granted both is an administrator, or both managers; who may post, an
\* administrator or a warehouse manager.
LEMMA TwoDuties ==
  ASSUME NEW seat \in Seats, HasPermission(seat, "inventory.adjust.post")
  PROVE  /\ Administers(seat.roles) \/ "WAREHOUSE_MANAGER" \in seat.roles
         /\ HasPermission(seat, "inventory.adjust.approve") =>
              Administers(seat.roles) \/ {"BRANCH_MANAGER", "WAREHOUSE_MANAGER"} \subseteq seat.roles
<1>1. seat.roles \subseteq {"SUPER_ADMIN", "ADMIN", "BRANCH_MANAGER", "WAREHOUSE_MANAGER", "ACCOUNTANT",
                            "SALES_REP", "STORE_STAFF"}
  BY DEF Seats, Roles, Grants
<1>2. \A role \in {"BRANCH_MANAGER", "ACCOUNTANT", "SALES_REP", "STORE_STAFF"} :
        "inventory.adjust.post" \notin Grants[role]
  BY DEF Grants, Buying
<1>3. \A role \in {"WAREHOUSE_MANAGER", "ACCOUNTANT", "SALES_REP", "STORE_STAFF"} :
        "inventory.adjust.approve" \notin Grants[role]
  BY DEF Grants, Buying
<1>4. PICK poster \in seat.roles : "inventory.adjust.post" \in Grants[poster]
  BY DEF HasPermission
<1>5. poster \in {"SUPER_ADMIN", "ADMIN", "WAREHOUSE_MANAGER"}
  BY <1>1, <1>2, <1>4
<1>6. ASSUME HasPermission(seat, "inventory.adjust.approve")
      PROVE  \E role \in seat.roles : role \in {"SUPER_ADMIN", "ADMIN", "BRANCH_MANAGER"}
  <2>1. PICK role \in seat.roles : "inventory.adjust.approve" \in Grants[role]
    BY <1>6 DEF HasPermission
  <2> QED
    BY <1>1, <1>3, <2>1
<1> QED
  BY <1>4, <1>5, <1>6 DEF Administers

-----------------------------------------------------------------------------
(* The invariant.                                                          *)

HandsType == [approve : Users \cup {None}, post : Users \cup {None}]

\* Nobody has pressed a button at first.
LEMMA DeskStarts ==
  ASSUME DeskInit
  PROVE  DeskInv
<1>1. team \in [Users -> Seats] /\ kind \in Kinds /\ call = [u \in Users |-> call[u]]
  BY DeskAssumption DEF DeskInit
<1>2. hands \in HandsType
  BY DEF DeskInit, HandsType
<1>3. HandsAreEntitled /\ LockedAtOnce
  BY DeskAssumption DEF DeskInit, HandsAreEntitled, LockedAtOnce, Idle
<1> QED
  BY <1>1, <1>2, <1>3 DEF DeskInv, HandsType

\* A user's call changes to one that is not at "read", or has passed the guards;
\* with it both hands may become those of a user who may approve and post.
LEMMA CallingKeeps ==
  ASSUME DeskInv, NEW u \in Users, NEW q, call' = [call EXCEPT ![u] = q],
         UNCHANGED <<kind, team>>,
         \/ hands' = hands
         \/ /\ hands' = [approve |-> u, post |-> u]
            /\ kind \in Corrections => Entitled(u, "approve") /\ Entitled(u, "post"),
         q.at = "read" => /\ Locked => kind = "online" /\ q.step \in ConvertConfirmed
                          /\ kind \in Corrections => Entitled(u, q.step.op)
  PROVE  DeskInv'
<1>1. call' = [v \in Users |-> call'[v]] /\ call'[u] = q /\ \A v \in Users \ {u} : call'[v] = call[v]
  BY DEF DeskInv
<1>2. \A op \in {"approve", "post"} : hands'[op] = hands[op] \/ hands'[op] = u
  OBVIOUS
<1>3. \A op, v : Entitled(v, op)' <=> Entitled(v, op)
  BY DEF Entitled, Duty
<1>4. HandsAreEntitled'
  <2> SUFFICES ASSUME kind \in Corrections
               PROVE  /\ \A op \in {"approve", "post"} : \A v \in Users : hands'[op] = v => Entitled(v, op)
                      /\ \A v \in Users : call'[v].at = "read" => Entitled(v, call'[v].step.op)
    BY <1>3 DEF HandsAreEntitled, Corrections
  <2>1. /\ \A op \in {"approve", "post"} : \A v \in Users : hands[op] = v => Entitled(v, op)
        /\ \A v \in Users : call[v].at = "read" => Entitled(v, call[v].step.op)
    BY DEF DeskInv, HandsAreEntitled, Corrections
  <2>2. \A op \in {"approve", "post"} : \A v \in Users : hands'[op] = v => Entitled(v, op)
    BY <2>1
  <2>3. \A v \in Users : call'[v].at = "read" => Entitled(v, call'[v].step.op)
    BY <1>1, <2>1
  <2> QED
    BY <2>2, <2>3
<1>5. LockedAtOnce'
  BY <1>1 DEF DeskInv, LockedAtOnce, Locked, Converting, ConvertConfirmed
<1>6. hands' \in HandsType
  BY DEF DeskInv, HandsType
<1> QED
  BY <1>1, <1>4, <1>5, <1>6 DEF DeskInv, HandsType

\* A step is taken by a user who is entitled to it.
LEMMA TakingKeeps ==
  ASSUME DeskInv, NEW u \in Users, NEW step, Take(u, step), call' = [call EXCEPT ![u] = Idle],
         UNCHANGED <<kind, team>>,
         kind \in Corrections => Entitled(u, step.op)
  PROVE  DeskInv'
<1>1. call' = [v \in Users |-> call'[v]] /\ \A v \in Users : call'[v] = Idle \/ call'[v] = call[v]
  BY DEF DeskInv
<1>2. \/ hands' = hands
      \/ /\ step.op \in {"approve", "post"}
         /\ hands' = [hands EXCEPT ![step.op] = u]
  BY DEF Take, DeskInv
<1>3. hands' \in HandsType
  BY <1>2 DEF DeskInv, HandsType
<1>4. \A op \in {"approve", "post"} : hands'[op] = hands[op] \/ (op = step.op /\ hands'[op] = u)
  BY <1>2 DEF DeskInv
<1>5. HandsAreEntitled'
  BY <1>1, <1>4 DEF DeskInv, HandsAreEntitled, Entitled, Duty, Corrections, Idle
<1>6. LockedAtOnce'
  BY <1>1 DEF DeskInv, LockedAtOnce, Locked, Converting, ConvertConfirmed, Idle
<1> QED
  BY <1>1, <1>3, <1>5, <1>6 DEF DeskInv, HandsType

\* The service reads the row, and writes it at once when it is locked.
LEMMA HandleKeeps ==
  ASSUME DeskInv, NEW u \in Users, NEW op, Handle(u, op)
  PROVE  DeskInv'
<1>1. PICK step \in Answers(op) :
        IF step.how = "locked"
        THEN Take(u, step) /\ call' = [call EXCEPT ![u] = Idle]
        ELSE /\ call' = [call EXCEPT ![u] = [at |-> "read", step |-> step]]
             /\ Corrects(u, step) /\ UNCHANGED status
  BY DEF Handle
<1>2. step.op = op /\ step \in paper.steps
  BY DEF Answers
<1>3. kind \in Corrections => Entitled(u, step.op)
  BY <1>2, CorrectionDuties DEF Handle, Passes, Admits, Entitled
<1>4. CASE step.how = "locked"
  BY <1>1, <1>3, <1>4, TakingKeeps DEF Handle
<1>5. CASE step.how # "locked"
  <2>1. Locked => kind = "online" /\ step \in ConvertConfirmed
    BY <1>2, <1>5, LockedSteps
  <2>2. \/ hands' = hands
        \/ /\ hands' = [approve |-> u, post |-> u]
           /\ kind \in Corrections => Entitled(u, "approve") /\ Entitled(u, "post")
    <3>1. hands' = hands \/ (step.op = "reconcile" /\ hands' = [approve |-> u, post |-> u])
      BY <1>1, <1>5 DEF Corrects
    <3>2. kind \in Corrections /\ step.op = "reconcile" => Entitled(u, "approve") /\ Entitled(u, "post")
      BY <1>2, <1>3, CountsReconcile DEF Entitled, Duty
    <3> QED
      BY <3>1, <3>2
  <2> DEFINE q == [at |-> "read", step |-> step]
  <2>3. q.step = step /\ call' = [call EXCEPT ![u] = q]
    BY <1>1, <1>5
  <2> HIDE DEF q
  <2> QED
    BY <1>3, <2>1, <2>2, <2>3, CallingKeeps DEF Handle
<1> QED
  BY <1>4, <1>5

\* No step disturbs the invariant of the desk.
LEMMA DeskStepKeeps == DeskInv /\ [DeskNext]_deskVars => DeskInv'
<1> SUFFICES ASSUME DeskInv, [DeskNext]_deskVars
             PROVE  DeskInv'
  OBVIOUS
<1>1. CASE UNCHANGED <<kind, team, call, hands>>
  BY <1>1 DEF DeskInv, HandsAreEntitled, Entitled, Duty, LockedAtOnce, Locked, Converting, ConvertConfirmed
<1>2. ASSUME NEW u \in Users, NEW n \in {1, 2}, Press(u, n)
      PROVE  DeskInv'
  <2> DEFINE q == [at |-> "sent", op |-> Offered(view[u])[n], shown |-> view[u]]
  <2>1. call' = [call EXCEPT ![u] = q] /\ q.at # "read"
    BY <1>2 DEF Press
  <2> HIDE DEF q
  <2> QED
    BY <1>2, <2>1, CallingKeeps DEF Press
<1>3. ASSUME NEW u \in Users, Write(u)
      PROVE  DeskInv'
  <2>1. kind \in Corrections => Entitled(u, call[u].step.op)
    BY <1>3 DEF Write, DeskInv, HandsAreEntitled, Corrections
  <2> QED
    BY <1>3, <2>1, TakingKeeps DEF Write
<1>4. ASSUME NEW u \in Users, Refuse(u) \/ Lose(u)
      PROVE  DeskInv'
  BY <1>4, CallingKeeps DEF Refuse, Lose, Idle
<1>5. ASSUME NEW u \in Users, Serve(u) \/ \E op \in Unoffered : CallDirectly(u, op)
      PROVE  DeskInv'
  BY <1>5, HandleKeeps DEF Serve, CallDirectly
<1> QED
  BY <1>1, <1>2, <1>3, <1>4, <1>5 DEF DeskNext, Open, Elsewhere, deskVars

\* Who approved, posted or reconciled was entitled to it, and nothing waits to be
\* written over a locked row but the conversion of a storefront order, for any
\* staff with any of the seeded roles.
THEOREM DeskInvariant == DeskSpec => []DeskInv
<1>1. DeskInit => DeskInv
  BY DeskStarts
<1> QED
  BY <1>1, DeskStepKeeps, PTL DEF DeskSpec

\* Who both approves and posts a correction of stock is an administrator or has
\* the roles of both managers, and who corrects a count alone an administrator
\* or a warehouse manager, however the calls of the staff overlap (the seeded
\* roles and the routes of adjustments, damage reports and counts).
THEOREM TwoPeopleCorrect == DeskSpec => []TwoPersonRule
<1>1. DeskInv => TwoPersonRule
  <2> SUFFICES ASSUME DeskInv, kind \in Corrections, hands.approve # None, hands.approve = hands.post
               PROVE  CorrectsAlone(team[hands.post].roles)
    BY DEF TwoPersonRule, Corrections
  <2>1. PICK u \in Users : u = hands.approve /\ u = hands.post
    BY DEF DeskInv
  <2>2. Entitled(u, "approve") /\ Entitled(u, "post")
    BY <2>1 DEF DeskInv, HandsAreEntitled, Corrections
  <2>3. team[u] \in Seats
    BY DEF DeskInv
  <2>4. /\ HasPermission(team[u], "inventory.adjust.post")
        /\ kind # "count" => HasPermission(team[u], "inventory.adjust.approve")
    BY <2>2 DEF Entitled, Duty
  <2> QED
    BY <2>1, <2>3, <2>4, TwoDuties DEF CorrectsAlone
<1> QED
  BY <1>1, DeskInvariant, PTL

\* A transfer, a purchase order or a storefront order at its end stays there (the
\* row locks of their services), but for a conversion that read a storefront
\* order before its end (SalesOrderService.convertToInvoice).
THEOREM EndsAreFinal == DeskSpec => FinishedStaysFinished
<1>1. DeskInv /\ [DeskNext]_deskVars
        => [Locked /\ Ended => status' = status \/ \E u \in Users : Converted(u)]_deskVars
  <2> SUFFICES ASSUME DeskInv, DeskNext, Locked, Ended
               PROVE  status' = status \/ \E u \in Users : Converted(u)
    OBVIOUS
  <2>1. ASSUME NEW u \in Users, NEW op, Handle(u, op)
        PROVE  status' = status
    <3>1. PICK step \in Answers(op) : Take(u, step) \/ UNCHANGED status
      BY <2>1 DEF Handle
    <3>2. Lands(step) = status
      BY EndsAreEnds DEF Answers
    <3> QED
      BY <3>1, <3>2 DEF Take
  <2>2. ASSUME NEW u \in Users, Write(u)
        PROVE  Converted(u)
    <3>1. Converting(u) /\ call'[u] = Idle
      BY <2>2 DEF Write, DeskInv, LockedAtOnce
    <3>2. call[u].step.op = "convert" /\ call[u].step.to = "INVOICED"
      BY <3>1, ConversionSteps DEF Converting
    <3> QED
      BY <2>2, <3>1, <3>2 DEF Write, Take, Lands, Converted
  <2>3. ~Elsewhere
    <3>1. \A move \in Moves(kind) : move[1] \in {"IN_TRANSIT", "CONFIRMED", "PICKING", "PACKED"}
      BY DEF Locked, Moves, TransferElsewhere, CancelledOutside
    <3> QED
      BY <3>1 DEF Elsewhere, Ended
  <2> QED
    BY <2>1, <2>2, <2>3 DEF DeskNext, Open, Press, Serve, CallDirectly, Refuse, Lose
<1> QED
  BY <1>1, DeskInvariant, PTL DEF DeskSpec, FinishedStaysFinished

-----------------------------------------------------------------------------
(* What a page offers, its service does.                                   *)

Accepts(steps, op, from) == \E step \in steps : step.op = op /\ step.from = from

Matches(offers, steps) ==
  \A shown \in DOMAIN offers : \A n \in DOMAIN offers[shown] : Accepts(steps, offers[shown][n], shown)

\* Every step of a table is one its service accepts.
LEMMA StepsAccept ==
  ASSUME NEW op, NEW froms, NEW to, NEW how
  PROVE  \A from \in froms : Accepts(Steps(op, froms, to, how), op, from)
<1> SUFFICES ASSUME NEW from \in froms PROVE Accepts(Steps(op, froms, to, how), op, from)
  OBVIOUS
<1>1. PICK step : step = [op |-> op, from |-> from, to |-> to, how |-> how]
  OBVIOUS
<1>2. step \in Steps(op, froms, to, how)
  BY <1>1 DEF Steps
<1>3. step.op = op /\ step.from = from
  BY <1>1
<1> QED
  BY <1>2, <1>3 DEF Accepts

\* A table of steps made of two.
LEMMA UnionAccepts ==
  ASSUME NEW a, NEW b, NEW op, NEW from
  PROVE  Accepts(a \cup b, op, from) <=> Accepts(a, op, from) \/ Accepts(b, op, from)
BY DEF Accepts

\* The buttons of a row of a page's table.
LEMMA Buttons ==
  ASSUME NEW a, NEW b
  PROVE  /\ \A n \in DOMAIN <<a>> : <<a>>[n] = a
         /\ \A n \in DOMAIN <<a, b>> : <<a, b>>[n] \in {a, b}
OBVIOUS

\* The page of transfers offers what the service accepts.
LEMMA TransferMatches == Matches(TransferPage, TransferSteps)
<1>1. /\ DOMAIN TransferPage = {"DRAFT", "CONFIRMED"}
      /\ TransferPage["DRAFT"] = <<"confirm">>
      /\ TransferPage["CONFIRMED"] = <<"ship">>
  BY DEF TransferPage
<1>2. Accepts(TransferSteps, "confirm", "DRAFT")
  BY StepsAccept, UnionAccepts DEF TransferSteps
<1>3. Accepts(TransferSteps, "ship", "CONFIRMED")
  BY StepsAccept, UnionAccepts DEF TransferSteps
<1> QED
  BY <1>1, <1>2, <1>3, Buttons DEF Matches

\* The page of purchase orders offers what the service accepts.
LEMMA PurchaseMatches == Matches(PurchasePage, PurchaseSteps)
<1>1. /\ DOMAIN PurchasePage = {"DRAFT", "CONFIRMED", "PARTIALLY_RECEIVED"}
      /\ PurchasePage["DRAFT"] = <<"confirm">>
      /\ PurchasePage["CONFIRMED"] = <<"receive">>
      /\ PurchasePage["PARTIALLY_RECEIVED"] = <<"receive">>
  BY DEF PurchasePage
<1>2. Accepts(PurchaseSteps, "confirm", "DRAFT")
  BY StepsAccept, UnionAccepts DEF PurchaseSteps
<1>3. Accepts(PurchaseSteps, "receive", "CONFIRMED")
  BY StepsAccept, UnionAccepts DEF PurchaseSteps
<1>4. Accepts(PurchaseSteps, "receive", "PARTIALLY_RECEIVED")
  BY StepsAccept, UnionAccepts DEF PurchaseSteps
<1> QED
  BY <1>1, <1>2, <1>3, <1>4, Buttons DEF Matches

\* The page of adjustments offers what the service accepts.
LEMMA AdjustmentMatches == Matches(AdjustmentPage, CorrectionSteps)
<1>1. /\ DOMAIN AdjustmentPage = {"DRAFT", "SUBMITTED", "APPROVED"}
      /\ AdjustmentPage["DRAFT"] = <<"submit">>
      /\ AdjustmentPage["SUBMITTED"] = <<"approve">>
      /\ AdjustmentPage["APPROVED"] = <<"post">>
  BY DEF AdjustmentPage
<1>2. Accepts(CorrectionSteps, "submit", "DRAFT")
  BY StepsAccept, UnionAccepts DEF CorrectionSteps
<1>3. Accepts(CorrectionSteps, "approve", "SUBMITTED")
  BY StepsAccept, UnionAccepts DEF CorrectionSteps
<1>4. Accepts(CorrectionSteps, "post", "APPROVED")
  BY StepsAccept, UnionAccepts DEF CorrectionSteps
<1> QED
  BY <1>1, <1>2, <1>3, <1>4, Buttons DEF Matches

\* The page of damage reports offers what the service accepts.
LEMMA DamageMatches == Matches(DamagePage, DamageSteps)
<1>1. /\ DOMAIN DamagePage = {"DRAFT", "SUBMITTED", "APPROVED"}
      /\ DamagePage["DRAFT"] = <<"submit">>
      /\ DamagePage["SUBMITTED"] = <<"approve", "reject">>
      /\ DamagePage["APPROVED"] = <<"post">>
  BY DEF DamagePage
<1>2. Accepts(DamageSteps, "submit", "DRAFT")
  BY StepsAccept, UnionAccepts DEF DamageSteps, CorrectionSteps
<1>3. Accepts(DamageSteps, "approve", "SUBMITTED")
  BY StepsAccept, UnionAccepts DEF DamageSteps, CorrectionSteps
<1>4. Accepts(DamageSteps, "reject", "SUBMITTED")
  BY StepsAccept, UnionAccepts DEF DamageSteps, CorrectionSteps
<1>5. Accepts(DamageSteps, "post", "APPROVED")
  BY StepsAccept, UnionAccepts DEF DamageSteps, CorrectionSteps
<1> QED
  BY <1>1, <1>2, <1>3, <1>4, <1>5, Buttons DEF Matches

\* The page of stock counts offers what the service accepts.
LEMMA CountMatches == Matches(CountPage, CountSteps)
<1>1. /\ DOMAIN CountPage = {"DRAFT", "SUBMITTED"}
      /\ CountPage["DRAFT"] = <<"submit">>
      /\ CountPage["SUBMITTED"] = <<"reconcile">>
  BY DEF CountPage
<1>2. Accepts(CountSteps, "submit", "DRAFT")
  BY StepsAccept, UnionAccepts DEF CountSteps
<1>3. Accepts(CountSteps, "reconcile", "SUBMITTED")
  BY StepsAccept, UnionAccepts DEF CountSteps
<1> QED
  BY <1>1, <1>2, <1>3, Buttons DEF Matches

\* The page of deliveries offers what the service accepts.
LEMMA DeliveryMatches == Matches(DeliveryPage, DeliverySteps)
<1>1. /\ DOMAIN DeliveryPage = {"PENDING", "IN_TRANSIT"}
      /\ DeliveryPage["PENDING"] = <<"dispatch", "cancel">>
      /\ DeliveryPage["IN_TRANSIT"] = <<"complete", "cancel">>
  BY DEF DeliveryPage
<1>2. Accepts(DeliverySteps, "dispatch", "PENDING")
  BY StepsAccept, UnionAccepts DEF DeliverySteps
<1>3. Accepts(DeliverySteps, "cancel", "PENDING")
  BY StepsAccept, UnionAccepts DEF DeliverySteps
<1>4. Accepts(DeliverySteps, "complete", "IN_TRANSIT")
  BY StepsAccept, UnionAccepts DEF DeliverySteps
<1>5. Accepts(DeliverySteps, "cancel", "IN_TRANSIT")
  BY StepsAccept, UnionAccepts DEF DeliverySteps
<1> QED
  BY <1>1, <1>2, <1>3, <1>4, <1>5, Buttons DEF Matches

\* The page of invoices offers what the service accepts.
LEMMA InvoiceMatches == Matches(InvoicePage, InvoiceSteps)
<1>1. /\ DOMAIN InvoicePage = {"DRAFT", "POSTED"}
      /\ InvoicePage["DRAFT"] = <<"post">>
      /\ InvoicePage["POSTED"] = <<"pay", "void">>
  BY DEF InvoicePage
<1>2. Accepts(InvoiceSteps, "post", "DRAFT")
  <2>1. Steps("post", {"DRAFT"}, "POSTED", "locked") \subseteq InvoiceSteps
    BY DEF InvoiceSteps
  <2> QED
    BY <2>1, StepsAccept DEF Accepts
<1>3. Accepts(InvoiceSteps, "pay", "POSTED")
  <2>1. Steps("pay", Payable, "PAID", "locked") \subseteq InvoiceSteps /\ "POSTED" \in Payable
    BY DEF InvoiceSteps, Payable
  <2> QED
    BY <2>1, StepsAccept DEF Accepts
<1>4. Accepts(InvoiceSteps, "void", "POSTED")
  <2>1. Steps("void", {"POSTED"}, "VOIDED", "blind") \subseteq InvoiceSteps
    BY DEF InvoiceSteps
  <2> QED
    BY <2>1, StepsAccept DEF Accepts
<1> QED
  BY <1>1, <1>2, <1>3, <1>4, Buttons DEF Matches

\* What the orders of either kind have in common.
LEMMA OrdersAccept ==
  /\ Accepts(Progress, "PICKING", "CONFIRMED") /\ Accepts(Progress, "PACKED", "PICKING")
  /\ Accepts(Progress, "DELIVERED", "DISPATCHED")
  /\ \A from \in {"CONFIRMED", "PICKING", "PACKED"} : Accepts(CancelOrder, "cancel", from)
<1>1. /\ Accepts(Progress, "PICKING", "CONFIRMED") /\ Accepts(Progress, "PACKED", "PICKING")
      /\ Accepts(Progress, "DELIVERED", "DISPATCHED")
  BY StepsAccept, UnionAccepts DEF Progress
<1>2. \A from \in {"CONFIRMED", "PICKING", "PACKED"} : Accepts(CancelOrder, "cancel", from)
  BY StepsAccept DEF CancelOrder
<1> QED
  BY <1>1, <1>2

\* The page of orders from the portal offers what the service accepts.
LEMMA OnlineOrderMatches == Matches(OnlineOrderPage, OnlineOrderSteps)
<1>1. /\ DOMAIN OnlineOrderPage = {"CONFIRMED", "PICKING", "PACKED", "DISPATCHED"}
      /\ OnlineOrderPage["CONFIRMED"] = <<"PICKING", "cancel">>
      /\ OnlineOrderPage["PICKING"] = <<"PACKED", "cancel">>
      /\ OnlineOrderPage["PACKED"] = <<"DISPATCHED", "cancel">>
      /\ OnlineOrderPage["DISPATCHED"] = <<"DELIVERED">>
  BY DEF OnlineOrderPage
<1>2. Accepts(OnlineOrderSteps, "PICKING", "CONFIRMED")
  BY OrdersAccept, StepsAccept, UnionAccepts DEF OnlineOrderSteps
<1>3. Accepts(OnlineOrderSteps, "cancel", "CONFIRMED")
  BY OrdersAccept, StepsAccept, UnionAccepts DEF OnlineOrderSteps
<1>4. Accepts(OnlineOrderSteps, "PACKED", "PICKING")
  BY OrdersAccept, StepsAccept, UnionAccepts DEF OnlineOrderSteps
<1>5. Accepts(OnlineOrderSteps, "cancel", "PICKING")
  BY OrdersAccept, StepsAccept, UnionAccepts DEF OnlineOrderSteps
<1>6. Accepts(OnlineOrderSteps, "DISPATCHED", "PACKED")
  <2>1. Accepts(Steps("DISPATCHED", {"PACKED", "INVOICED"}, "DISPATCHED", "locked"), "DISPATCHED", "PACKED")
    BY StepsAccept
  <2> QED
    BY <2>1, UnionAccepts DEF OnlineOrderSteps
<1>7. Accepts(OnlineOrderSteps, "cancel", "PACKED")
  BY OrdersAccept, StepsAccept, UnionAccepts DEF OnlineOrderSteps
<1>8. Accepts(OnlineOrderSteps, "DELIVERED", "DISPATCHED")
  BY OrdersAccept, StepsAccept, UnionAccepts DEF OnlineOrderSteps
<1> QED
  BY <1>1, <1>2, <1>3, <1>4, <1>5, <1>6, <1>7, <1>8, Buttons DEF Matches

\* The page of orders of the central warehouse offers what the service accepts.
LEMMA CentralOrderMatches == Matches(CentralOrderPage, CentralOrderSteps)
<1>1. /\ DOMAIN CentralOrderPage = {"CONFIRMED", "PICKING", "PACKED", "POSTED", "DISPATCHED"}
      /\ CentralOrderPage["CONFIRMED"] = <<"PICKING", "cancel">>
      /\ CentralOrderPage["PICKING"] = <<"PACKED", "cancel">>
      /\ CentralOrderPage["PACKED"] = <<"convert", "cancel">>
      /\ CentralOrderPage["POSTED"] = <<"DISPATCHED">>
      /\ CentralOrderPage["DISPATCHED"] = <<"DELIVERED">>
  BY DEF CentralOrderPage
<1>2. Accepts(CentralOrderSteps, "PICKING", "CONFIRMED")
  BY OrdersAccept, StepsAccept, UnionAccepts DEF CentralOrderSteps
<1>3. Accepts(CentralOrderSteps, "cancel", "CONFIRMED")
  BY OrdersAccept, StepsAccept, UnionAccepts DEF CentralOrderSteps
<1>4. Accepts(CentralOrderSteps, "PACKED", "PICKING")
  BY OrdersAccept, StepsAccept, UnionAccepts DEF CentralOrderSteps
<1>5. Accepts(CentralOrderSteps, "cancel", "PICKING")
  BY OrdersAccept, StepsAccept, UnionAccepts DEF CentralOrderSteps
<1>6. Accepts(CentralOrderSteps, "convert", "PACKED")
  BY OrdersAccept, StepsAccept, UnionAccepts DEF CentralOrderSteps
<1>7. Accepts(CentralOrderSteps, "cancel", "PACKED")
  BY OrdersAccept, StepsAccept, UnionAccepts DEF CentralOrderSteps
<1>8. Accepts(CentralOrderSteps, "DISPATCHED", "POSTED")
  BY OrdersAccept, StepsAccept, UnionAccepts DEF CentralOrderSteps
<1>9. Accepts(CentralOrderSteps, "DELIVERED", "DISPATCHED")
  BY OrdersAccept, StepsAccept, UnionAccepts DEF CentralOrderSteps
<1> QED
  BY <1>1, <1>2, <1>3, <1>4, <1>5, <1>6, <1>7, <1>8, <1>9, Buttons DEF Matches

\* The page of orders a representative took offers what the service accepts.
LEMMA RepOrderMatches == Matches(RepOrderPage, RepOrderSteps)
<1>1. /\ DOMAIN RepOrderPage = {"CONFIRMED"}
      /\ RepOrderPage["CONFIRMED"] = <<"convert">>
  BY DEF RepOrderPage
<1>2. Accepts(RepOrderSteps, "convert", "CONFIRMED")
  BY StepsAccept, UnionAccepts DEF RepOrderSteps, ConvertConfirmed
<1> QED
  BY <1>1, <1>2, Buttons DEF Matches

\* Each page offers, in each status it shows, only what the service accepts of
\* a document of that status.
LEMMA PapersMatch ==
  ASSUME kind \in Kinds
  PROVE  Matches(paper.page, paper.steps)
<1>1. kind \in {"transfer", "purchase", "adjustment", "damage", "count", "delivery", "invoice", "online",
                "central", "rep"}
  BY DEF Kinds, Documents
<1>2. CASE kind = "transfer"
  BY <1>2, TransferMatches DEF paper, Documents, Paper
<1>3. CASE kind = "purchase"
  BY <1>3, PurchaseMatches DEF paper, Documents, Paper
<1>4. CASE kind = "adjustment"
  BY <1>4, AdjustmentMatches DEF paper, Documents, Paper
<1>5. CASE kind = "damage"
  BY <1>5, DamageMatches DEF paper, Documents, Paper
<1>6. CASE kind = "count"
  BY <1>6, CountMatches DEF paper, Documents, Paper
<1>7. CASE kind = "delivery"
  BY <1>7, DeliveryMatches DEF paper, Documents, Paper
<1>8. CASE kind = "invoice"
  BY <1>8, InvoiceMatches DEF paper, Documents, Paper
<1>9. CASE kind = "online"
  BY <1>9, OnlineOrderMatches DEF paper, Documents, Paper
<1>10. CASE kind = "central"
  BY <1>10, CentralOrderMatches DEF paper, Documents, Paper
<1>11. CASE kind = "rep"
  BY <1>11, RepOrderMatches DEF paper, Documents, Paper
<1> QED
  BY <1>1, <1>2, <1>3, <1>4, <1>5, <1>6, <1>7, <1>8, <1>9, <1>10, <1>11

\* A button that is pressed is one the service has a step for.
LEMMA PressIsAStep ==
  ASSUME kind \in Kinds, NEW u \in Users, NEW n \in {1, 2}, Press(u, n)
  PROVE  Accepts(paper.steps, Offered(view[u])[n], view[u])
<1>1. n \in DOMAIN Offered(view[u])
  BY DEF Press
<1>2. view[u] \in DOMAIN paper.page
  <2>1. CASE view[u] \notin DOMAIN paper.page
    <3>1. DOMAIN Offered(view[u]) = {}
      BY <2>1 DEF Offered
    <3> QED
      BY <1>1, <3>1
  <2> QED
    BY <2>1
<1>3. Offered(view[u]) = paper.page[view[u]]
  BY <1>2 DEF Offered
<1>4. n \in DOMAIN paper.page[view[u]]
  BY <1>1, <1>3
<1>5. Accepts(paper.steps, paper.page[view[u]][n], view[u])
  BY <1>2, <1>4, PapersMatch DEF Matches
<1> QED
  BY <1>3, <1>5

\* No step disturbs that what is asked for is a step from the status the page
\* showed.
LEMMA OfferStepKeeps == OfferInv /\ [DeskNext]_deskVars => OfferInv'
<1> SUFFICES ASSUME OfferInv, [DeskNext]_deskVars
             PROVE  OfferInv'
  OBVIOUS
<1>0. kind' = kind /\ paper' = paper
  <2>1. kind' = kind
    BY DEF DeskNext, Open, Press, CallDirectly, Serve, Handle, Write, Refuse, Lose, Elsewhere, deskVars
  <2> QED
    BY <2>1 DEF paper
<1>1. ASSUME NEW u \in Users, NEW q, call' = [call EXCEPT ![u] = q],
             q.at = "sent" => Accepts(paper.steps, q.op, q.shown)
      PROVE  OfferInv'
  <2>1. call' = [v \in Users |-> call'[v]] /\ call'[u] = q /\ \A v \in Users \ {u} : call'[v] = call[v]
    BY <1>1 DEF OfferInv
  <2>2. SentIsAStep'
    BY <1>0, <1>1, <2>1 DEF OfferInv, SentIsAStep, Accepts
  <2> QED
    BY <1>0, <2>1, <2>2 DEF OfferInv
<1>2. CASE UNCHANGED call
  BY <1>0, <1>2 DEF OfferInv, SentIsAStep
<1>3. ASSUME NEW u \in Users, NEW n \in {1, 2}, Press(u, n)
      PROVE  OfferInv'
  <2>1. PICK q : q = [at |-> "sent", op |-> Offered(view[u])[n], shown |-> view[u]]
    OBVIOUS
  <2>2. call' = [call EXCEPT ![u] = q]
    BY <1>3, <2>1 DEF Press
  <2>3. Accepts(paper.steps, q.op, q.shown)
    <3>1. q.op = Offered(view[u])[n] /\ q.shown = view[u]
      BY <2>1
    <3> QED
      BY <1>3, <3>1, PressIsAStep DEF OfferInv
  <2> QED
    BY <1>1, <2>2, <2>3
<1>4. ASSUME NEW u \in Users, NEW q, q.at # "sent", call' = [call EXCEPT ![u] = q]
      PROVE  OfferInv'
  BY <1>1, <1>4
<1>5. ASSUME NEW u \in Users,
             Serve(u) \/ Write(u) \/ Refuse(u) \/ Lose(u) \/ \E op \in Unoffered : CallDirectly(u, op)
      PROVE  \E q : q.at # "sent" /\ call' = [call EXCEPT ![u] = q]
  <2>1. Idle.at # "sent" /\ \A step : [at |-> "read", step |-> step].at # "sent"
    BY DEF Idle
  <2>2. \/ call' = [call EXCEPT ![u] = Idle]
        \/ \E step : call' = [call EXCEPT ![u] = [at |-> "read", step |-> step]]
    BY <1>5 DEF Serve, CallDirectly, Handle, Write, Refuse, Lose
  <2> QED
    BY <2>1, <2>2
<1>6. \/ UNCHANGED call
      \/ \E u \in Users : \/ \E n \in {1, 2} : Press(u, n)
                          \/ \E op \in Unoffered : CallDirectly(u, op)
                          \/ Serve(u) \/ Write(u) \/ Refuse(u) \/ Lose(u)
  BY DEF DeskNext, Open, Elsewhere, deskVars
<1> QED
  BY <1>2, <1>3, <1>4, <1>5, <1>6

\* What a page offers the service does: a button is refused for the document's
\* status only when the document has moved on since it was shown, for all ten
\* kinds of documents and any number of users (the pages' buttons against the
\* status checks of the services).
THEOREM OffersAreTaken == DeskSpec => []RefusalsAreStale
<1>1. DeskInit => OfferInv
  BY DEF DeskInit, OfferInv, SentIsAStep, Idle
<1>2. OfferInv => RefusalsAreStale
  BY DEF OfferInv, SentIsAStep, RefusalsAreStale, Answers
<1> QED
  BY <1>1, <1>2, OfferStepKeeps, PTL DEF DeskSpec

-----------------------------------------------------------------------------
(* Types of the desk.                                                      *)

\* What a page's buttons call is there to be called.
LEMMA ButtonsHaveCalls ==
  ASSUME kind \in Kinds, NEW shown \in DOMAIN paper.page, NEW n \in DOMAIN paper.page[shown]
  PROVE  paper.page[shown][n] \in DOMAIN paper.calls
<1>1. CASE kind = "transfer"
  BY <1>1, Buttons DEF paper, Documents, Paper, TransferPage, TransferCalls
<1>2. CASE kind = "purchase"
  BY <1>2, Buttons DEF paper, Documents, Paper, PurchasePage, PurchaseCalls
<1>3. CASE kind = "adjustment"
  BY <1>3, Buttons DEF paper, Documents, Paper, AdjustmentPage, AdjustmentCalls
<1>4. CASE kind = "damage"
  BY <1>4, Buttons DEF paper, Documents, Paper, DamagePage, DamageCalls
<1>5. CASE kind = "count"
  BY <1>5, Buttons DEF paper, Documents, Paper, CountPage, CountCalls
<1>6. CASE kind = "delivery"
  BY <1>6, Buttons DEF paper, Documents, Paper, DeliveryPage, DeliveryCalls
<1>7. CASE kind = "invoice"
  BY <1>7, Buttons DEF paper, Documents, Paper, InvoicePage, InvoiceCalls
<1>8. CASE kind = "online"
  BY <1>8, Buttons DEF paper, Documents, Paper, OnlineOrderPage, OrderCalls
<1>9. CASE kind = "central"
  BY <1>9, Buttons DEF paper, Documents, Paper, CentralOrderPage, OrderCalls
<1>10. CASE kind = "rep"
  BY <1>10, Buttons DEF paper, Documents, Paper, RepOrderPage, OrderCalls
<1> QED
  BY <1>1, <1>2, <1>3, <1>4, <1>5, <1>6, <1>7, <1>8, <1>9, <1>10 DEF Kinds, Documents

\* What a user's page may have under way.
DeskCall ==
  {Idle} \cup [at : {"sent"}, op : DOMAIN paper.calls, shown : DOMAIN paper.page]
         \cup [at : {"read"}, step : paper.steps]

\* A step that leaves the kind, the team and the view alone and moves one call
\* keeps the types, when the status and the hands keep theirs.
LEMMA CallMoves ==
  ASSUME DeskInv, DeskTypeOK, NEW u \in Users, NEW q \in DeskCall, call' = [call EXCEPT ![u] = q],
         UNCHANGED <<kind, team, view>>, status' \in Statuses(kind),
         hands' \in [approve : Users \cup {None}, post : Users \cup {None}]
  PROVE  DeskTypeOK'
<1>1. paper' = paper /\ Statuses(kind)' = Statuses(kind)
  BY DEF paper, Documents, Statuses
<1>2. ASSUME NEW v \in Users
      PROVE  call'[v] \in DeskCall
  <2>1. call'[v] = IF v = u THEN q ELSE call[v]
    BY DEF DeskInv
  <2> QED
    BY <2>1 DEF DeskTypeOK, DeskCall
<1>3. \A v \in Users : \/ call'[v] = Idle
                       \/ call'[v] \in [at : {"sent"}, op : DOMAIN paper'.calls, shown : DOMAIN paper'.page]
                       \/ call'[v] \in [at : {"read"}, step : paper'.steps]
  BY <1>1, <1>2 DEF DeskCall
<1> QED
  BY <1>1, <1>3 DEF DeskTypeOK

\* Only an order is converted, and one that was cancelled may then be at rest.
LEMMA OrdersConvert ==
  ASSUME kind \in Kinds, NEW step \in paper.steps, step.op = "convert"
  PROVE  "REVIVED" \in paper.rest
<1>1. CASE kind = "transfer"
  BY <1>1 DEF paper, Documents, Paper, TransferSteps, Steps
<1>2. CASE kind = "purchase"
  BY <1>2 DEF paper, Documents, Paper, PurchaseSteps, Steps
<1>3. CASE kind = "adjustment"
  BY <1>3 DEF paper, Documents, Paper, CorrectionSteps, Steps
<1>4. CASE kind = "damage"
  BY <1>4 DEF paper, Documents, Paper, DamageSteps, CorrectionSteps, Steps
<1>5. CASE kind = "count"
  BY <1>5 DEF paper, Documents, Paper, CountSteps, Steps
<1>6. CASE kind = "delivery"
  BY <1>6 DEF paper, Documents, Paper, DeliverySteps, Steps
<1>7. CASE kind = "invoice"
  <2>1. step.op \in {"post", "pay", "void", "cancel"}
    BY <1>7 DEF paper, Documents, Paper, InvoiceSteps, Steps, Repeats
  <2> QED
    BY <2>1
<1>8. CASE kind \in {"online", "central", "rep"}
  BY <1>8 DEF paper, Documents, Paper
<1> QED
  BY <1>1, <1>2, <1>3, <1>4, <1>5, <1>6, <1>7, <1>8 DEF Kinds, Documents

\* A step that is taken leads to a status of the document, by a user's hand.
LEMMA TakingIsTyped ==
  ASSUME DeskTypeOK, NEW u \in Users, NEW step \in paper.steps, Take(u, step)
  PROVE  /\ status' \in Statuses(kind)
         /\ hands' \in [approve : Users \cup {None}, post : Users \cup {None}]
<1>1. status' \in Statuses(kind)
  <2>1. step.to \in Statuses(kind) /\ paper.rest \subseteq Statuses(kind)
    BY DEF Statuses, paper
  <2>2. step.op = "convert" => "REVIVED" \in Statuses(kind)
    BY <2>1, OrdersConvert DEF DeskTypeOK
  <2> QED
    BY <2>1, <2>2 DEF Take, Lands
<1>2. DOMAIN hands = {"approve", "post"} /\ hands.approve \in Users \cup {None} /\ hands.post \in Users \cup {None}
      /\ hands = [approve |-> hands.approve, post |-> hands.post]
  BY DEF DeskTypeOK
<1>3. hands' = hands \/ (step.op \in {"approve", "post"} /\ hands' = [hands EXCEPT ![step.op] = u])
  BY <1>2 DEF Take
<1> QED
  BY <1>1, <1>2, <1>3

\* No step disturbs the types.
LEMMA DeskStepTyped ==
  ASSUME DeskInv, DeskTypeOK, [DeskNext]_deskVars
  PROVE  DeskTypeOK'
<1>0. status \in Statuses(kind) /\ hands \in [approve : Users \cup {None}, post : Users \cup {None}] /\ Idle \in DeskCall
  BY DEF DeskTypeOK, DeskCall
<1>1. ASSUME NEW u \in Users, Open(u)
      PROVE  DeskTypeOK'
  <2>1. paper' = paper /\ Statuses(kind)' = Statuses(kind) /\ view' = [view EXCEPT ![u] = status]
        /\ UNCHANGED <<kind, team, status, call, hands>>
    BY <1>1 DEF Open, paper, Documents, Statuses
  <2> QED
    BY <2>1 DEF DeskTypeOK
<1>2. ASSUME NEW u \in Users, NEW n \in {1, 2}, Press(u, n)
      PROVE  DeskTypeOK'
  <2>1. kind \in Kinds /\ n \in DOMAIN Offered(view[u])
    BY <1>2 DEF Press, DeskTypeOK
  <2>2. view[u] \in DOMAIN paper.page
    <3>1. CASE view[u] \notin DOMAIN paper.page
      <4>1. DOMAIN Offered(view[u]) = {}
        BY <3>1 DEF Offered
      <4> QED
        BY <2>1, <4>1
    <3> QED
      BY <3>1
  <2>3. Offered(view[u]) = paper.page[view[u]]
    BY <2>2 DEF Offered
  <2>4. Offered(view[u])[n] \in DOMAIN paper.calls
    BY <2>1, <2>2, <2>3, ButtonsHaveCalls
  <2> DEFINE q == [at |-> "sent", op |-> Offered(view[u])[n], shown |-> view[u]]
  <2>5. q \in DeskCall
    BY <2>2, <2>4 DEF DeskCall
  <2>6. call' = [call EXCEPT ![u] = q] /\ UNCHANGED <<kind, team, status, view, hands>>
    BY <1>2 DEF Press
  <2> HIDE DEF q
  <2> QED
    BY <1>0, <2>5, <2>6, CallMoves
<1>3. ASSUME NEW u \in Users, NEW op, Handle(u, op)
      PROVE  DeskTypeOK'
  <2>1. PICK step \in Answers(op) :
          IF step.how = "locked"
          THEN Take(u, step) /\ call' = [call EXCEPT ![u] = Idle]
          ELSE /\ call' = [call EXCEPT ![u] = [at |-> "read", step |-> step]]
               /\ Corrects(u, step) /\ UNCHANGED status
    BY <1>3 DEF Handle
  <2>2. UNCHANGED <<kind, team, view>> /\ step \in paper.steps
    BY <1>3 DEF Handle, Answers
  <2>3. CASE step.how = "locked"
    BY <1>0, <2>1, <2>2, <2>3, TakingIsTyped, CallMoves
  <2>4. CASE step.how # "locked"
    <3>1. [at |-> "read", step |-> step] \in DeskCall
      BY <2>2 DEF DeskCall
    <3>2. hands' \in [approve : Users \cup {None}, post : Users \cup {None}]
      BY <1>0, <2>1, <2>4 DEF Corrects
    <3> QED
      BY <1>0, <2>1, <2>2, <2>4, <3>1, <3>2, CallMoves
  <2> QED
    BY <2>3, <2>4
<1>4. ASSUME NEW u \in Users, Write(u)
      PROVE  DeskTypeOK'
  <2>1. call[u].at = "read" /\ Take(u, call[u].step) /\ call' = [call EXCEPT ![u] = Idle] /\ UNCHANGED <<kind, team, view>>
    BY <1>4 DEF Write
  <2>2. call[u].step \in paper.steps
    BY <2>1 DEF DeskTypeOK, Idle
  <2> QED
    BY <1>0, <2>1, <2>2, TakingIsTyped, CallMoves
<1>5. ASSUME NEW u \in Users, Refuse(u) \/ Lose(u)
      PROVE  DeskTypeOK'
  <2>1. call' = [call EXCEPT ![u] = Idle] /\ UNCHANGED <<kind, team, status, view, hands>>
    BY <1>5 DEF Refuse, Lose
  <2> QED
    BY <1>0, <2>1, CallMoves
<1>6. CASE Elsewhere
  <2>1. PICK move \in Moves(kind) : status' = move[2]
    BY <1>6 DEF Elsewhere
  <2>2. status' \in Statuses(kind)
    BY <2>1 DEF Statuses
  <2>3. paper' = paper /\ Statuses(kind)' = Statuses(kind) /\ UNCHANGED <<kind, team, view, call, hands>>
    BY <1>6 DEF Elsewhere, paper, Documents, Statuses
  <2> QED
    BY <2>2, <2>3 DEF DeskTypeOK
<1>7. CASE UNCHANGED deskVars
  <2>1. paper' = paper /\ Statuses(kind)' = Statuses(kind) /\ UNCHANGED <<kind, team, status, view, call, hands>>
    BY <1>7 DEF deskVars, paper, Documents, Statuses
  <2> QED
    BY <2>1 DEF DeskTypeOK
<1> QED
  BY <1>1, <1>2, <1>3, <1>4, <1>5, <1>6, <1>7 DEF DeskNext, Serve, CallDirectly

\* Every variable of the desk keeps its type; in particular a document only ever
\* has a status that its kind has.
THEOREM DeskTypeCorrect == DeskSpec => []DeskTypeOK
<1>1. DeskInit => DeskTypeOK
  <2> SUFFICES ASSUME DeskInit
               PROVE  DeskTypeOK
    OBVIOUS
  <2>1. status \in Statuses(kind)
    BY DEF DeskInit, Statuses
  <2>2. call = [u \in Users |-> Idle]
    BY DEF DeskInit
  <2> QED
    BY <2>1, <2>2 DEF DeskInit, DeskTypeOK
<1>2. DeskInv /\ DeskTypeOK /\ [DeskNext]_deskVars => DeskTypeOK'
  BY DeskStepTyped
<1> QED
  BY <1>1, <1>2, DeskInvariant, PTL DEF DeskSpec

-----------------------------------------------------------------------------
(* What a form lets through, the server reads.                             *)

\* The request a form makes, with filled filled in, has the shape of the DTO.
Reads(f, filing, filled) ==
  /\ filing.dto.must \subseteq f.asks \cup filled
  /\ f.asks \cup filled \subseteq filing.dto.must \cup filing.dto.may
  /\ ~filing.keyed

\* The form for invoices.
LEMMA InvoiceFormReads ==
  /\ Reads(InvoiceForm, CreateInvoice, {})
  /\ Reads(InvoiceForm, CreateInvoice, InvoiceForm.offers)
BY DEF InvoiceForm, CreateInvoice, InvoiceDto, Item, Form, Filing, Dto, Reads

\* The form for deliveries.
LEMMA DeliveryFormReads ==
  /\ Reads(DeliveryForm, CreateDelivery, {})
  /\ Reads(DeliveryForm, CreateDelivery, DeliveryForm.offers)
BY DEF DeliveryForm, CreateDelivery, DeliveryDto, Form, Filing, Dto, Reads

\* The form for stock transfers.
LEMMA TransferFormReads ==
  /\ Reads(TransferForm, CreateTransfer, {})
  /\ Reads(TransferForm, CreateTransfer, TransferForm.offers)
BY DEF TransferForm, CreateTransfer, TransferDto, TransferEnds, Item, Form, Filing, Dto, Reads

\* The form for adjustments.
LEMMA AdjustmentFormReads ==
  /\ Reads(AdjustmentForm, CreateAdjustment, {})
  /\ Reads(AdjustmentForm, CreateAdjustment, AdjustmentForm.offers)
BY DEF AdjustmentForm, CreateAdjustment, AdjustmentDto, Form, Filing, Dto, Reads

\* The form for damage reports.
LEMMA DamageFormReads ==
  /\ Reads(DamageForm, CreateDamage, {})
  /\ Reads(DamageForm, CreateDamage, DamageForm.offers)
BY DEF DamageForm, CreateDamage, DamageDto, Item, Form, Filing, Dto, Reads

\* The form for stock counts.
LEMMA CountFormReads ==
  /\ Reads(CountForm, StartCount, {})
  /\ Reads(CountForm, StartCount, CountForm.offers)
BY DEF CountForm, StartCount, CountDto, Form, Filing, Dto, Reads

\* The form for purchase orders.
LEMMA PurchaseFormReads ==
  /\ Reads(PurchaseForm, CreatePurchase, {})
  /\ Reads(PurchaseForm, CreatePurchase, PurchaseForm.offers)
BY DEF PurchaseForm, CreatePurchase, PurchaseDto, Form, Filing, Dto, Reads

\* The form for suppliers.
LEMMA SupplierFormReads ==
  /\ Reads(SupplierForm, CreateSupplier, {})
  /\ Reads(SupplierForm, CreateSupplier, SupplierForm.offers)
BY DEF SupplierForm, CreateSupplier, SupplierDto, SupplierContact, Form, Filing, Dto, Reads

\* The form for retailers.
LEMMA RetailerFormReads ==
  /\ Reads(RetailerForm, CreateRetailer, {})
  /\ Reads(RetailerForm, CreateRetailer, RetailerForm.offers)
BY DEF RetailerForm, CreateRetailer, RetailerDto, Form, Filing, Dto, Reads

\* The form for sales representatives.
LEMMA SalesRepFormReads ==
  /\ Reads(SalesRepForm, CreateSalesRep, {})
  /\ Reads(SalesRepForm, CreateSalesRep, SalesRepForm.offers)
BY DEF SalesRepForm, CreateSalesRep, SalesRepDto, Form, Filing, Dto, Reads

\* The form for routes.
LEMMA RouteFormReads ==
  /\ Reads(RouteForm, CreateRoute, {})
  /\ Reads(RouteForm, CreateRoute, RouteForm.offers)
BY DEF RouteForm, CreateRoute, RouteDto, Form, Filing, Dto, Reads

\* The form for branches.
LEMMA BranchFormReads ==
  /\ Reads(BranchForm, CreateBranch, {})
  /\ Reads(BranchForm, CreateBranch, BranchForm.offers)
BY DEF BranchForm, CreateBranch, BranchDto, Form, Filing, Dto, Reads

\* The form for warehouses.
LEMMA WarehouseFormReads ==
  /\ Reads(WarehouseForm, CreateWarehouse, {})
  /\ Reads(WarehouseForm, CreateWarehouse, WarehouseForm.offers)
BY DEF WarehouseForm, CreateWarehouse, WarehouseDto, Form, Filing, Dto, Reads

\* The form for products.
LEMMA ProductFormReads ==
  /\ Reads(ProductForm, CreateProduct, {})
  /\ Reads(ProductForm, CreateProduct, ProductForm.offers)
BY DEF ProductForm, CreateProduct, ProductDto, Form, Filing, Dto, Reads

\* The form for delivery partners.
LEMMA PartnerFormReads ==
  /\ Reads(PartnerForm, CreatePartner, {})
  /\ Reads(PartnerForm, CreatePartner, PartnerForm.offers)
BY DEF PartnerForm, CreatePartner, PartnerDto, Form, Filing, Dto, Reads

FirstCall(f) == IF f = "quickReorder" THEN "portalOrder" ELSE f

\* Each button begins by filing what the form is for; only an invoice's button
\* goes on, to post it and to take a payment.
LEMMA ButtonsBegin ==
  ASSUME NEW f \in DOMAIN Forms, NEW b \in Forms[f].buttons
  PROVE  /\ b[1] = FirstCall(f) /\ 1 \in DOMAIN b
         /\ Len(b) \in {1, 2, 3} /\ DOMAIN b = 1..Len(b)
         /\ f # "invoice" => Len(b) = 1
         /\ 2 \in DOMAIN b => b[2] = "post"
         /\ 3 \in DOMAIN b => b[3] = "payment"
<1>1. f \in {"invoice", "payment", "order", "portalOrder", "quickReorder", "delivery", "transfer", "adjustment", "damage", "count",
            "purchase", "supplier", "retailer", "salesRep", "route", "branch", "warehouse", "product", "partner"}
  BY DEF Forms
<1>2. CASE f = "invoice"
  <2>1. b \in {<<"invoice">>, <<"invoice", "post">>, <<"invoice", "post", "payment">>}
    BY <1>2 DEF Forms, InvoiceForm, Form
  <2>2. CASE b = <<"invoice">>
    BY <1>2, <2>2 DEF FirstCall
  <2>3. CASE b = <<"invoice", "post">>
    BY <1>2, <2>3 DEF FirstCall
  <2>4. CASE b = <<"invoice", "post", "payment">>
    BY <1>2, <2>4 DEF FirstCall
  <2> QED
    BY <2>1, <2>2, <2>3, <2>4
<1>3. CASE f = "payment"
  <2>1. b = <<"payment">>
    BY <1>3 DEF Forms, PaymentForm, Form
  <2> QED
    BY <1>3, <2>1 DEF FirstCall
<1>4. CASE f = "order"
  <2>1. b = <<"order">>
    BY <1>4 DEF Forms, OrderForm, Form
  <2> QED
    BY <1>4, <2>1 DEF FirstCall
<1>5. CASE f = "portalOrder"
  <2>1. b = <<"portalOrder">>
    BY <1>5 DEF Forms, PortalOrderForm, Form
  <2> QED
    BY <1>5, <2>1 DEF FirstCall
<1>6. CASE f = "quickReorder"
  <2>1. b = <<"portalOrder">>
    BY <1>6 DEF Forms, QuickReorderForm, Form
  <2> QED
    BY <1>6, <2>1 DEF FirstCall
<1>7. CASE f = "delivery"
  <2>1. b = <<"delivery">>
    BY <1>7 DEF Forms, DeliveryForm, Form
  <2> QED
    BY <1>7, <2>1 DEF FirstCall
<1>8. CASE f = "transfer"
  <2>1. b = <<"transfer">>
    BY <1>8 DEF Forms, TransferForm, Form
  <2> QED
    BY <1>8, <2>1 DEF FirstCall
<1>9. CASE f = "adjustment"
  <2>1. b = <<"adjustment">>
    BY <1>9 DEF Forms, AdjustmentForm, Form
  <2> QED
    BY <1>9, <2>1 DEF FirstCall
<1>10. CASE f = "damage"
  <2>1. b = <<"damage">>
    BY <1>10 DEF Forms, DamageForm, Form
  <2> QED
    BY <1>10, <2>1 DEF FirstCall
<1>11. CASE f = "count"
  <2>1. b = <<"count">>
    BY <1>11 DEF Forms, CountForm, Form
  <2> QED
    BY <1>11, <2>1 DEF FirstCall
<1>12. CASE f = "purchase"
  <2>1. b = <<"purchase">>
    BY <1>12 DEF Forms, PurchaseForm, Form
  <2> QED
    BY <1>12, <2>1 DEF FirstCall
<1>13. CASE f = "supplier"
  <2>1. b = <<"supplier">>
    BY <1>13 DEF Forms, SupplierForm, Form
  <2> QED
    BY <1>13, <2>1 DEF FirstCall
<1>14. CASE f = "retailer"
  <2>1. b = <<"retailer">>
    BY <1>14 DEF Forms, RetailerForm, Form
  <2> QED
    BY <1>14, <2>1 DEF FirstCall
<1>15. CASE f = "salesRep"
  <2>1. b = <<"salesRep">>
    BY <1>15 DEF Forms, SalesRepForm, Form
  <2> QED
    BY <1>15, <2>1 DEF FirstCall
<1>16. CASE f = "route"
  <2>1. b = <<"route">>
    BY <1>16 DEF Forms, RouteForm, Form
  <2> QED
    BY <1>16, <2>1 DEF FirstCall
<1>17. CASE f = "branch"
  <2>1. b = <<"branch">>
    BY <1>17 DEF Forms, BranchForm, Form
  <2> QED
    BY <1>17, <2>1 DEF FirstCall
<1>18. CASE f = "warehouse"
  <2>1. b = <<"warehouse">>
    BY <1>18 DEF Forms, WarehouseForm, Form
  <2> QED
    BY <1>18, <2>1 DEF FirstCall
<1>19. CASE f = "product"
  <2>1. b = <<"product">>
    BY <1>19 DEF Forms, ProductForm, Form
  <2> QED
    BY <1>19, <2>1 DEF FirstCall
<1>20. CASE f = "partner"
  <2>1. b = <<"partner">>
    BY <1>20 DEF Forms, PartnerForm, Form
  <2> QED
    BY <1>20, <2>1 DEF FirstCall
<1> QED
  BY <1>1, <1>2, <1>3, <1>4, <1>5, <1>6, <1>7, <1>8, <1>9, <1>10, <1>11, <1>12,
     <1>13, <1>14, <1>15, <1>16, <1>17, <1>18, <1>19, <1>20

\* Filled in either way, what these forms send has the shape the server reads.
LEMMA MostFormsRead ==
  ASSUME NEW f \in DOMAIN Forms \ {"order", "payment", "portalOrder", "quickReorder"},
         NEW filled \in {{}, Forms[f].offers}
  PROVE  Reads(Forms[f], Filings[f], filled)
<1>1. f \in {"invoice", "delivery", "adjustment", "damage", "count", "purchase", "supplier", "retailer",
            "salesRep", "route", "branch", "warehouse", "product", "partner", "transfer"}
  BY DEF Forms
<1>2. CASE f = "invoice"
  <2>1. Forms[f] = InvoiceForm /\ Filings[f] = CreateInvoice
    BY <1>2 DEF Forms, Filings
  <2> QED
    BY <1>2, <2>1, InvoiceFormReads
<1>3. CASE f = "delivery"
  <2>1. Forms[f] = DeliveryForm /\ Filings[f] = CreateDelivery
    BY <1>3 DEF Forms, Filings
  <2> QED
    BY <1>3, <2>1, DeliveryFormReads
<1>4. CASE f = "adjustment"
  <2>1. Forms[f] = AdjustmentForm /\ Filings[f] = CreateAdjustment
    BY <1>4 DEF Forms, Filings
  <2> QED
    BY <1>4, <2>1, AdjustmentFormReads
<1>5. CASE f = "damage"
  <2>1. Forms[f] = DamageForm /\ Filings[f] = CreateDamage
    BY <1>5 DEF Forms, Filings
  <2> QED
    BY <1>5, <2>1, DamageFormReads
<1>6. CASE f = "count"
  <2>1. Forms[f] = CountForm /\ Filings[f] = StartCount
    BY <1>6 DEF Forms, Filings
  <2> QED
    BY <1>6, <2>1, CountFormReads
<1>7. CASE f = "purchase"
  <2>1. Forms[f] = PurchaseForm /\ Filings[f] = CreatePurchase
    BY <1>7 DEF Forms, Filings
  <2> QED
    BY <1>7, <2>1, PurchaseFormReads
<1>8. CASE f = "supplier"
  <2>1. Forms[f] = SupplierForm /\ Filings[f] = CreateSupplier
    BY <1>8 DEF Forms, Filings
  <2> QED
    BY <1>8, <2>1, SupplierFormReads
<1>9. CASE f = "retailer"
  <2>1. Forms[f] = RetailerForm /\ Filings[f] = CreateRetailer
    BY <1>9 DEF Forms, Filings
  <2> QED
    BY <1>9, <2>1, RetailerFormReads
<1>10. CASE f = "salesRep"
  <2>1. Forms[f] = SalesRepForm /\ Filings[f] = CreateSalesRep
    BY <1>10 DEF Forms, Filings
  <2> QED
    BY <1>10, <2>1, SalesRepFormReads
<1>11. CASE f = "route"
  <2>1. Forms[f] = RouteForm /\ Filings[f] = CreateRoute
    BY <1>11 DEF Forms, Filings
  <2> QED
    BY <1>11, <2>1, RouteFormReads
<1>12. CASE f = "branch"
  <2>1. Forms[f] = BranchForm /\ Filings[f] = CreateBranch
    BY <1>12 DEF Forms, Filings
  <2> QED
    BY <1>12, <2>1, BranchFormReads
<1>13. CASE f = "warehouse"
  <2>1. Forms[f] = WarehouseForm /\ Filings[f] = CreateWarehouse
    BY <1>13 DEF Forms, Filings
  <2> QED
    BY <1>13, <2>1, WarehouseFormReads
<1>14. CASE f = "product"
  <2>1. Forms[f] = ProductForm /\ Filings[f] = CreateProduct
    BY <1>14 DEF Forms, Filings
  <2> QED
    BY <1>14, <2>1, ProductFormReads
<1>15. CASE f = "partner"
  <2>1. Forms[f] = PartnerForm /\ Filings[f] = CreatePartner
    BY <1>15 DEF Forms, Filings
  <2> QED
    BY <1>15, <2>1, PartnerFormReads
<1>16. CASE f = "transfer"
  <2>1. Forms[f] = TransferForm /\ Filings[f] = CreateTransfer
    BY <1>16 DEF Forms, Filings
  <2> QED
    BY <1>16, <2>1, TransferFormReads
<1> QED
  BY <1>1, <1>2, <1>3, <1>4, <1>5, <1>6, <1>7, <1>8, <1>9, <1>10, <1>11, <1>12, <1>13, <1>14, <1>15, <1>16

\* A call the server cannot read is one of the forms that cannot work.
LEMMA UnreadIsKnown ==
  ASSUME FormInv, NEW p \in DOMAIN presses, ~Takes(p)
  PROVE  form = "order" \/ Called(p) \in {"payment", "portalOrder"}
<1>1. PICK q \in PressOf(form) : q = presses[p]
  BY ElementOfSeq DEF FormInv
<1>2. /\ form \in DOMAIN Forms /\ q.button \in Forms[form].buttons
      /\ q.filled \in {{}, Forms[form].offers}
      /\ q.step \in DOMAIN q.button /\ Called(p) = q.button[q.step]
  BY <1>1 DEF FormInv, PressOf, Called
<1>3. CASE q.step = 1
  <2>1. Called(p) = FirstCall(form)
    BY <1>2, <1>3, ButtonsBegin
  <2>2. ~WellFormed(Filings[Called(p)], Fields(q.filled))
    BY <1>1, <1>3 DEF Takes
  <2>3. CASE form \in {"order", "payment", "portalOrder", "quickReorder"}
    BY <2>1, <2>3 DEF FirstCall
  <2>4. CASE form \notin {"order", "payment", "portalOrder", "quickReorder"}
    <3>1. Called(p) = form
      BY <2>1, <2>4 DEF FirstCall
    <3>2. ~Reads(Forms[form], Filings[form], q.filled)
      BY <2>2, <3>1 DEF Reads, WellFormed, Fields
    <3> QED
      BY <1>1, <1>2, <2>4, <3>2, MostFormsRead
  <2> QED
    BY <2>3, <2>4
<1>4. CASE q.step # 1
  <2>1. Called(p) # "post"
    BY <1>1, <1>4 DEF Takes
  <2>2. q.step \in {2, 3}
    BY <1>2, <1>4, ButtonsBegin
  <2> QED
    BY <1>2, <2>1, <2>2, ButtonsBegin
<1> QED
  BY <1>3, <1>4

-----------------------------------------------------------------------------
(* Copies.                                                                 *)

\* The presses that have filed or may, in numbers.
LEMMA PressSets ==
  ASSUME FormInv
  PROVE  /\ IsFiniteSet(HasFiled) /\ IsFiniteSet(MayFile) /\ IsFiniteSet(MayFile \ Awaited)
         /\ Cardinality(HasFiled) \in Nat /\ Cardinality(MayFile) \in Nat
         /\ Cardinality(MayFile \ Awaited) \in Nat
         /\ HasFiled \subseteq MayFile /\ filed \in Nat
<1>1. IsFiniteSet(DOMAIN presses)
  <2>1. DOMAIN presses = 1..Len(presses) /\ Len(presses) \in Nat
    BY LenProperties DEF FormInv
  <2> QED
    BY <2>1, FS_Interval
<1>2. HasFiled \subseteq MayFile /\ MayFile \subseteq DOMAIN presses
  BY DEF HasFiled, MayFile
<1>3. IsFiniteSet(MayFile) /\ IsFiniteSet(HasFiled) /\ IsFiniteSet(MayFile \ Awaited)
  BY <1>1, <1>2, FS_Subset
<1> QED
  BY <1>2, <1>3, FS_CardinalityType DEF FormInv

\* Of all the presses that may have filed one is awaited at most.
LEMMA AwaitedIsOne ==
  ASSUME FormInv
  PROVE  Cardinality(MayFile) <= 1 + Cardinality(MayFile \ Awaited)
<1>1. CASE page = "editing"
  <2>1. MayFile \ Awaited = MayFile
    BY <1>1 DEF Awaited
  <2> QED
    BY <2>1, PressSets
<1>2. CASE page # "editing"
  <2>1. MayFile \ Awaited = MayFile \ {Len(presses)}
    BY <1>2 DEF Awaited
  <2>2. IsFiniteSet(MayFile) /\ Cardinality(MayFile) \in Nat
    BY PressSets
  <2>3. Cardinality(MayFile \ {Len(presses)}) \in {Cardinality(MayFile), Cardinality(MayFile) - 1}
    BY <2>2, FS_RemoveElement
  <2>4. Cardinality(MayFile \ Awaited) \in {Cardinality(MayFile), Cardinality(MayFile) - 1}
    BY <2>1, <2>3
  <2> QED
    BY <2>2, <2>4
<1> QED
  BY <1>1, <1>2

\* The invariant of the forms implies the property: filed presses other than
\* the awaited one are counted.
LEMMA FormInvExplains ==
  ASSUME FormInv
  PROVE  DuplicatesAreExplained
<1>1. Cardinality(HasFiled) <= Cardinality(MayFile)
  BY PressSets, FS_Subset
<1>2. Cardinality(MayFile \ Awaited) <= lost + undone /\ lost \in Nat /\ undone \in Nat
      /\ filed = Cardinality(HasFiled) /\ (HasCode => filed <= 1)
  BY DEF FormInv
<1> QED
  BY <1>1, <1>2, PressSets, AwaitedIsOne DEF DuplicatesAreExplained

\* One press changes.
LEMMA OnePress ==
  ASSUME FormInv, NEW p \in DOMAIN presses, NEW q \in PressOf(form),
         presses' = [presses EXCEPT ![p] = q]
  PROVE  /\ presses' \in Seq(PressOf(form)) /\ Len(presses') = Len(presses)
         /\ DOMAIN presses' = DOMAIN presses
         /\ presses'[p] = q /\ \A o \in DOMAIN presses \ {p} : presses'[o] = presses[o]
<1>1. presses \in Seq(PressOf(form))
  BY DEF FormInv
<1> QED
  BY <1>1, ExceptSeq

\* A press is one of its form's buttons, at one of its calls.
LEMMA PressTyped ==
  ASSUME FormInv, NEW p \in DOMAIN presses
  PROVE  /\ presses[p] \in PressOf(form) /\ presses[p].step \in DOMAIN presses[p].button
         /\ presses[p].button \in Forms[form].buttons /\ presses[p].step \in Nat \ {0}
         /\ presses[p].filled \in {{}, Forms[form].offers}
<1>1. presses[p] \in PressOf(form)
  BY ElementOfSeq DEF FormInv
<1> QED
  BY <1>1 DEF FormInv, PressOf

\* A call that waits is answered, or the server looks before it is.
LEMMA BecomesKeeps ==
  ASSUME FormInv, NEW p \in DOMAIN presses, presses[p].at \in {"sent", "looked"},
         NEW at \in {"looked", "done", "refused", "malformed"}, Becomes(p, at),
         UNCHANGED <<form, page, lost, undone>>,
         at = "malformed" => ~Takes(p),
         filed' = (IF at = "done" /\ presses[p].step = 1 THEN filed + 1 ELSE filed),
         HasCode /\ at = "done" /\ presses[p].step = 1 => filed = 0
  PROVE  FormInv'
<1>1. PICK q : q = [presses[p] EXCEPT !.at = at]
  OBVIOUS
<1>2. q \in PressOf(form) /\ q.at = at /\ q.step = presses[p].step /\ q.button = presses[p].button
      /\ q.filled = presses[p].filled
  BY <1>1, PressTyped DEF PressOf
<1>3. presses' = [presses EXCEPT ![p] = q]
  BY <1>1 DEF Becomes
<1>4. /\ presses' \in Seq(PressOf(form)) /\ Len(presses') = Len(presses)
      /\ DOMAIN presses' = DOMAIN presses
      /\ presses'[p] = q /\ \A o \in DOMAIN presses \ {p} : presses'[o] = presses[o]
  BY <1>2, <1>3, OnePress
<1>5. MayFile' \subseteq MayFile /\ Awaited' = Awaited
  BY <1>2, <1>4, PressTyped DEF MayFile, Awaited
<1>6. Cardinality((MayFile \ Awaited)') <= lost' + undone'
  <2>1. (MayFile \ Awaited)' \subseteq MayFile \ Awaited
    BY <1>5
  <2>2. Cardinality((MayFile \ Awaited)') <= Cardinality(MayFile \ Awaited)
        /\ Cardinality((MayFile \ Awaited)') \in Nat
    BY <2>1, PressSets, FS_Subset, FS_CardinalityType
  <2> QED
    BY <2>2, PressSets DEF FormInv
<1>7. filed' = Cardinality(HasFiled')
  <2>1. CASE at = "done" /\ presses[p].step = 1
    <3>1. HasFiled' = HasFiled \cup {p} /\ p \notin HasFiled
      BY <1>2, <1>4, <2>1, PressTyped DEF HasFiled
    <3>2. Cardinality(HasFiled \cup {p}) = Cardinality(HasFiled) + 1
      BY <3>1, PressSets, FS_AddElement
    <3> QED
      BY <2>1, <3>1, <3>2 DEF FormInv
  <2>2. CASE ~(at = "done" /\ presses[p].step = 1)
    <3>1. HasFiled' = HasFiled
      BY <1>2, <1>4, <2>2, PressTyped DEF HasFiled
    <3> QED
      BY <2>2, <3>1 DEF FormInv
  <2> QED
    BY <2>1, <2>2
<1>8. HasCode' => filed' <= 1
  BY PressSets DEF HasCode, FormInv
<1>9. FormsAreRead'
  <2> SUFFICES ASSUME NEW o \in DOMAIN presses, presses'[o].at = "malformed"
               PROVE  form = "order" \/ Called(o)' \in {"payment", "portalOrder"}
    BY <1>4 DEF FormsAreRead
  <2>1. Called(o)' = Called(o) /\ presses'[o].filled = presses[o].filled
    BY <1>2, <1>4 DEF Called
  <2>2. CASE o = p
    BY <1>2, <1>4, <2>1, <2>2, UnreadIsKnown
  <2>3. CASE o # p
    BY <1>4, <2>1, <2>3 DEF FormInv, FormsAreRead
  <2> QED
    BY <2>2, <2>3
<1>10. \A o \in DOMAIN presses' : presses'[o].step \in DOMAIN presses'[o].button
  BY <1>2, <1>4 DEF FormInv
<1>11. /\ form' \in DOMAIN Forms /\ page' \in {"editing", "waiting", "left"}
       /\ presses' \in Seq(PressOf(form')) /\ lost' \in Nat /\ undone' \in Nat
  BY <1>4 DEF FormInv
<1> QED
  BY <1>6, <1>7, <1>8, <1>9, <1>10, <1>11 DEF FormInv, PressOf

\* A form is pressed when its page waits for nothing, so a new press only adds
\* the one it waits for.
LEMMA PressButtonKeeps ==
  ASSUME FormInv, PressButton
  PROVE  FormInv'
<1>1. PICK button \in Forms[form].buttons, filled \in {{}, Forms[form].offers} :
        presses' = Append(presses, [button |-> button, filled |-> filled, step |-> 1, at |-> "sent"])
  BY DEF PressButton
<1>2. PICK q : q = [button |-> button, filled |-> filled, step |-> 1, at |-> "sent"]
  OBVIOUS
<1>3. q \in PressOf(form) /\ q.step = 1 /\ q.at = "sent" /\ q.button = button
  BY <1>2 DEF PressOf
<1>4. presses \in Seq(PressOf(form)) /\ presses' = Append(presses, q)
  BY <1>1, <1>2 DEF FormInv
<1>5. PICK n \in Nat : n = Len(presses) /\ DOMAIN presses = 1..n
  BY <1>4, LenProperties
<1>6. /\ presses' \in Seq(PressOf(form)) /\ Len(presses') = n + 1 /\ DOMAIN presses' = 1..(n + 1)
      /\ presses'[n + 1] = q /\ \A p \in 1..n : presses'[p] = presses[p]
  BY <1>3, <1>4, <1>5, AppendProperties
<1>7. page = "editing" /\ page' = "waiting" /\ UNCHANGED <<form, filed, lost, undone>>
  BY DEF PressButton, Ready
<1>8. HasFiled' = HasFiled
  BY <1>3, <1>5, <1>6 DEF HasFiled
<1>9. (MayFile \ Awaited)' = MayFile \ Awaited
  <2>1. MayFile' = MayFile \cup {n + 1} /\ MayFile \subseteq 1..n
    BY <1>3, <1>5, <1>6 DEF MayFile
  <2>2. Awaited = {} /\ Awaited' = {n + 1}
    BY <1>6, <1>7 DEF Awaited
  <2> QED
    BY <2>1, <2>2
<1>10. FormsAreRead'
  <2> SUFFICES ASSUME NEW p \in 1..(n + 1), presses'[p].at = "malformed"
               PROVE  form = "order" \/ Called(p)' \in {"payment", "portalOrder"}
    BY <1>6, <1>7 DEF FormsAreRead
  <2>1. p \in 1..n
    BY <1>3, <1>6
  <2>2. presses'[p] = presses[p] /\ Called(p)' = Called(p)
    BY <1>6, <2>1 DEF Called
  <2> QED
    BY <1>5, <2>1, <2>2 DEF FormInv, FormsAreRead
<1>11. \A p \in DOMAIN presses' : presses'[p].step \in DOMAIN presses'[p].button
  <2>1. 1 \in DOMAIN button
    BY ButtonsBegin DEF FormInv
  <2>2. \A p \in 1..n : presses'[p].step \in DOMAIN presses'[p].button
    BY <1>5, <1>6 DEF FormInv
  <2> QED
    BY <1>3, <1>6, <2>1, <2>2
<1>12. filed' = Cardinality(HasFiled') /\ Cardinality((MayFile \ Awaited)') <= lost' + undone'
  BY <1>7, <1>8, <1>9 DEF FormInv
<1>13. HasCode' => filed' <= 1
  BY <1>7 DEF HasCode, FormInv
<1>14. PressOf(form') = PressOf(form)
  BY <1>7
<1> QED
  BY <1>6, <1>7, <1>10, <1>11, <1>12, <1>13, <1>14 DEF FormInv

\* The page has an answer, or gives up waiting: the press it waited for counts
\* as lost or undone from now on.
LEMMA PageStops ==
  ASSUME FormInv, page = "waiting", page' = "editing", UNCHANGED <<form, presses, filed>>,
         lost' \in Nat, undone' \in Nat,
         \/ lost' + undone' = lost + undone + 1
         \/ lost' + undone' = lost + undone /\ Len(presses) \notin MayFile
  PROVE  FormInv'
<1>1. MayFile' = MayFile /\ HasFiled' = HasFiled /\ Awaited' = {} /\ Awaited = {Len(presses)}
  BY DEF MayFile, HasFiled, Awaited
<1>2. (MayFile \ Awaited)' = MayFile
  BY <1>1
<1>3. Cardinality(MayFile) <= lost' + undone'
  <2>1. CASE lost' + undone' = lost + undone + 1
    <3>1. Cardinality(MayFile) <= 1 + Cardinality(MayFile \ Awaited)
          /\ Cardinality(MayFile \ Awaited) <= lost + undone
      BY AwaitedIsOne DEF FormInv
    <3>2. PICK all \in Nat, others \in Nat, l \in Nat, u \in Nat :
            all = Cardinality(MayFile) /\ others = Cardinality(MayFile \ Awaited) /\ l = lost /\ u = undone
      BY PressSets DEF FormInv
    <3>3. PICK m \in Nat, v \in Nat : m = lost' /\ v = undone'
      OBVIOUS
    <3>4. all <= 1 + others /\ others <= l + u /\ m + v = l + u + 1
      BY <2>1, <3>1, <3>2, <3>3
    <3>5. all <= m + v
      BY <3>4
    <3> QED
      BY <3>2, <3>3, <3>5
  <2>2. CASE lost' + undone' = lost + undone /\ Len(presses) \notin MayFile
    <3>1. MayFile \ Awaited = MayFile
      BY <1>1, <2>2
    <3> QED
      BY <2>2, <3>1 DEF FormInv
  <2> QED
    BY <2>1, <2>2
<1>4. Cardinality((MayFile \ Awaited)') <= lost' + undone'
  BY <1>2, <1>3
<1>5. FormsAreRead'
  BY DEF FormInv, FormsAreRead, Called
<1>6. HasCode' => filed' <= 1
  BY DEF HasCode, FormInv
<1>7. filed' = Cardinality(HasFiled')
  BY <1>1 DEF FormInv
<1> QED
  BY <1>4, <1>5, <1>6, <1>7 DEF FormInv

\* An answer to the press the page waits for: its next call is sent, the page is
\* left, or it is edited again and what was filed counts as undone.
LEMMA AnsweredKeeps ==
  ASSUME FormInv, NEW p \in DOMAIN presses, Answered(p)
  PROVE  FormInv'
<1>1. page = "waiting" /\ p = Len(presses) /\ UNCHANGED <<form, filed, lost>>
  BY DEF Answered
<1>2. CASE /\ presses[p].at = "done" /\ presses[p].step < Len(presses[p].button)
           /\ presses' = [presses EXCEPT ![p].step = @ + 1, ![p].at = "sent"]
           /\ UNCHANGED <<page, undone>>
  <2>1. PICK q : q = [presses[p] EXCEPT !.step = @ + 1, !.at = "sent"]
    OBVIOUS
  <2>2. q \in PressOf(form) /\ q.at = "sent" /\ q.step = presses[p].step + 1 /\ q.button = presses[p].button
    <3>1. PICK o \in PressOf(form) : o = presses[p]
      BY PressTyped
    <3>2. /\ o = [button |-> o.button, filled |-> o.filled, step |-> o.step, at |-> o.at]
          /\ o.button \in Forms[form].buttons /\ o.step \in Nat
          /\ o.filled \in {{}, Forms[form].offers}
      BY <3>1 DEF PressOf
    <3>3. q = [button |-> o.button, filled |-> o.filled, step |-> o.step + 1, at |-> "sent"]
      BY <2>1, <3>1, <3>2
    <3> QED
      BY <3>1, <3>2, <3>3 DEF PressOf
  <2>3. presses' = [presses EXCEPT ![p] = q]
    BY <1>2, <2>1
  <2>4. /\ presses' \in Seq(PressOf(form)) /\ Len(presses') = Len(presses)
        /\ DOMAIN presses' = DOMAIN presses
        /\ presses'[p] = q /\ \A o \in DOMAIN presses \ {p} : presses'[o] = presses[o]
    BY <2>2, <2>3, OnePress
  <2>5. MayFile' = MayFile /\ HasFiled' = HasFiled /\ Awaited' = Awaited
    BY <1>2, <2>2, <2>4, PressTyped DEF MayFile, HasFiled, Awaited
  <2>6. FormsAreRead'
    <3> SUFFICES ASSUME NEW o \in DOMAIN presses, presses'[o].at = "malformed"
                 PROVE  form = "order" \/ Called(o)' \in {"payment", "portalOrder"}
      BY <1>1, <2>4 DEF FormsAreRead
    <3>1. o # p
      BY <2>2, <2>4
    <3>2. presses'[o] = presses[o] /\ Called(o)' = Called(o)
      BY <2>4, <3>1 DEF Called
    <3> QED
      BY <3>2 DEF FormInv, FormsAreRead
  <2>7. \A o \in DOMAIN presses' : presses'[o].step \in DOMAIN presses'[o].button
    <3>1. q.step \in DOMAIN q.button
      <4>1. PICK b : b = presses[p].button
        OBVIOUS
      <4>2. Len(b) \in {1, 2, 3} /\ DOMAIN b = 1..Len(b) /\ presses[p].step \in Nat \ {0}
        BY <4>1, PressTyped, ButtonsBegin DEF FormInv
      <4> QED
        BY <1>2, <2>2, <4>1, <4>2
    <3> QED
      BY <2>4, <3>1 DEF FormInv
  <2>8. HasCode' => filed' <= 1
    BY <1>1 DEF HasCode, FormInv
  <2>9. PressOf(form') = PressOf(form)
    BY <1>1
  <2> QED
    BY <1>1, <1>2, <2>4, <2>5, <2>6, <2>7, <2>8, <2>9 DEF FormInv
<1>3. CASE page' = "left" /\ UNCHANGED <<presses, undone>>
  <2>1. MayFile' = MayFile /\ HasFiled' = HasFiled /\ Awaited' = Awaited
    BY <1>1, <1>3 DEF MayFile, HasFiled, Awaited
  <2>2. FormsAreRead' /\ (HasCode' => filed' <= 1)
    BY <1>1, <1>3 DEF FormInv, FormsAreRead, Called, HasCode
  <2> QED
    BY <1>1, <1>3, <2>1, <2>2 DEF FormInv
<1>4. CASE /\ presses[p].at \in {"refused", "malformed"}
           /\ page' = "editing"
           /\ undone' = IF presses[p].step > 1 THEN undone + 1 ELSE undone
           /\ UNCHANGED presses
  <2>1. presses[p].step > 1 \/ p \notin MayFile
    BY <1>4 DEF MayFile
  <2>2. lost \in Nat /\ undone \in Nat
    BY DEF FormInv
  <2> QED
    BY <1>1, <1>4, <2>1, <2>2, PageStops
<1> QED
  BY <1>2, <1>3, <1>4 DEF Answered

\* No step disturbs the invariant of the forms.
LEMMA FormStepKeeps == FormInv /\ [FormNext]_formVars => FormInv'
<1> SUFFICES ASSUME FormInv, [FormNext]_formVars
             PROVE  FormInv'
  OBVIOUS
<1>1. CASE PressButton
  BY <1>1, PressButtonKeeps
<1>2. ASSUME NEW p \in DOMAIN presses, Malformed(p)
      PROVE  FormInv'
  BY <1>2, BecomesKeeps DEF Malformed
<1>3. ASSUME NEW p \in DOMAIN presses, LookForActive(p)
      PROVE  FormInv'
  <2>1. PICK at \in {"looked", "refused"} : Becomes(p, at)
    BY <1>3 DEF LookForActive
  <2> QED
    BY <1>3, <2>1, BecomesKeeps DEF LookForActive
<1>4. ASSUME NEW p \in DOMAIN presses, Accept(p)
      PROVE  FormInv'
  <2>1. HasCode /\ presses[p].step = 1 => filed = 0
    <3> SUFFICES ASSUME HasCode, presses[p].step = 1
                 PROVE  filed = 0
      OBVIOUS
    <3>1. PICK b \in Forms[form].buttons : Filings[b[1]].guard = "code"
      BY DEF HasCode
    <3>2. b[1] = FirstCall(form) /\ Called(p) = FirstCall(form)
      BY ButtonsBegin, PressTyped DEF FormInv, Called
    <3>3. Guard(p) = "code"
      BY <3>1, <3>2 DEF Guard
    <3> QED
      BY <1>4, <3>3 DEF Accept
  <2>2. /\ presses[p].at \in {"sent", "looked"} /\ Becomes(p, "done")
        /\ filed' = (IF presses[p].step = 1 THEN filed + 1 ELSE filed)
        /\ UNCHANGED <<form, page, lost, undone>>
    BY <1>4 DEF Accept
  <2> QED
    BY <2>1, <2>2, BecomesKeeps
<1>5. ASSUME NEW p \in DOMAIN presses, RefuseCall(p)
      PROVE  FormInv'
  BY <1>5, BecomesKeeps DEF RefuseCall
<1>6. CASE GiveUpWaiting
  BY <1>6, PageStops DEF GiveUpWaiting, FormInv
<1>7. CASE UNCHANGED formVars
  <2>1. MayFile' = MayFile /\ HasFiled' = HasFiled /\ Awaited' = Awaited
    BY <1>7 DEF formVars, MayFile, HasFiled, Awaited
  <2>2. FormsAreRead' /\ (HasCode' => filed' <= 1)
    BY <1>7 DEF formVars, FormInv, FormsAreRead, Called, HasCode
  <2>3. (MayFile \ Awaited)' = MayFile \ Awaited
    BY <2>1
  <2> QED
    BY <1>7, <2>1, <2>2, <2>3 DEF formVars, FormInv
<1> QED
  BY <1>1, <1>2, <1>3, <1>4, <1>5, <1>6, <1>7, AnsweredKeeps DEF FormNext

\* A form is opened empty.
LEMMA FormStarts ==
  ASSUME FormInit
  PROVE  FormInv
<1>1. presses = << >> /\ presses \in Seq(PressOf(form)) /\ DOMAIN presses = {}
  BY DEF FormInit
<1>2. HasFiled = {} /\ MayFile = {} /\ Cardinality({}) = 0
  BY <1>1, FS_EmptySet DEF HasFiled, MayFile
<1>3. MayFile \ Awaited = {}
  BY <1>2
<1>4. filed = 0 /\ lost = 0 /\ undone = 0 /\ page = "editing" /\ form \in DOMAIN Forms
  BY DEF FormInit
<1>5. FormsAreRead
  BY <1>1 DEF FormsAreRead
<1>6. filed = Cardinality(HasFiled) /\ Cardinality(MayFile \ Awaited) <= lost + undone
  BY <1>2, <1>3, <1>4
<1> QED
  BY <1>1, <1>4, <1>5, <1>6 DEF FormInv

\* One press, one document: every further copy is one the page stopped waiting
\* for or one of a press that was refused later on, for any number of presses
\* and of answers that never came (isSubmitting of the pages, the services'
\* unique codes and looks for what is active).
THEOREM CopiesAreExplained == FormInit /\ [][FormNext]_formVars => []DuplicatesAreExplained
<1>1. FormInv => DuplicatesAreExplained
  BY FormInvExplains
<1> QED
  BY <1>1, FormStarts, FormStepKeeps, PTL

\* Every form but the ones named there sends what its DTO takes, with nothing
\* more than it must have and with everything it can take (the pages' requests
\* against the DTOs of the controllers).
THEOREM RequestsAreRead == FormInit /\ [][FormNext]_formVars => []FormsAreRead
<1>1. FormInv => FormsAreRead
  BY DEF FormInv
<1> QED
  BY <1>1, FormStarts, FormStepKeeps, PTL

-----------------------------------------------------------------------------
(* The sessions of a browser: what one call may become.                    *)

PairsOf(q) == {q.token, q.pair, q.login}

Refreshes(q) == q.at \in Refreshing /\ q.kind # "login" /\ ~q.gone

\* What the server makes of a call p it is serving.
Serves(p, q) ==
  /\ q \in CallType /\ q.at # "queued"
  /\ Refreshes(q) <=> Refreshes(p)
  /\ Refreshes(q) => q.tab = p.tab
  /\ q.kind = "login" => q.at \in {"renew", "cache", "renewed", "error"}

\* No call is a record of a call, and idle.
LEMMA NoCallTyped ==
  /\ NoCall \in CallType /\ PairsOf(NoCall) = {Nothing} /\ ~Refreshes(NoCall)
  /\ NoCall.at = "idle" /\ NoCall.kind = "page" /\ ~NoCall.gone
BY DEF NoCall, CallType, CallKinds, PairsOf, Refreshes, Refreshing

\* The calls of a state.
LEMMA CallTyped ==
  ASSUME TypeOK, NEW c \in Calls
  PROVE  /\ request[c] \in CallType /\ PairsOf(request[c]) \subseteq Issued \cup {Nothing}
         /\ DOMAIN request = Calls
BY DEF TypeOK, ServerTypeOK, PairsOf

\* A handler goes on, or ends.
LEMMA AfterServes ==
  ASSUME NEW p \in CallType, NEW at \in AtServer \cup AtClient, at # "queued",
         p.kind # "login" => (at \in Refreshing <=> p.at \in Refreshing),
         p.kind = "login" => at \in {"renew", "cache", "renewed", "error"}
  PROVE  /\ Serves(p, After(p, at))
         /\ After(p, at) = NoCall \/ After(p, at) = [p EXCEPT !.at = at]
         /\ at \in AtServer => After(p, at) = [p EXCEPT !.at = at]
<1>1. CASE Ends(p, at)
  <2>1. After(p, at) = NoCall /\ at \in AtClient /\ at \notin AtServer
    BY <1>1 DEF After, Ends, AtClient, AtServer
  <2>2. ~Refreshes(p)
    BY <1>1 DEF Ends, Refreshes, Refreshing
  <2> QED
    BY <2>1, <2>2, NoCallTyped DEF Serves
<1>2. CASE ~Ends(p, at)
  <2>1. After(p, at) = [p EXCEPT !.at = at]
    BY <1>2 DEF After
  <2>2. [p EXCEPT !.at = at] \in CallType
    BY DEF CallType
  <2>3. [p EXCEPT !.at = at].at = at /\ [p EXCEPT !.at = at].kind = p.kind
        /\ [p EXCEPT !.at = at].tab = p.tab /\ [p EXCEPT !.at = at].gone = p.gone
    BY DEF CallType
  <2> QED
    BY <2>1, <2>2, <2>3 DEF Serves, Refreshes
<1> QED
  BY <1>1, <1>2

HandlerKnows(q) ==
  /\ q.at # "idle" => q.tab \in Tabs
  /\ q.at \in {"fill", "serve", "forget"} => q.token \in Sessions
  /\ q.at \in {"match", "rotate", "forgetOld", "cache"} => q.pair \in Sessions

\* What the step of a handler for call c leaves of the types.
ServesCall(c) ==
  /\ request' = [request EXCEPT ![c] = request'[c]]
  /\ Serves(request[c], request'[c])
  /\ PairsOf(request'[c]) \subseteq Issued' \cup {Nothing}
  /\ HandlerKnows(request'[c])

ServesData ==
  /\ portal' = portal /\ active' = active /\ ending' = ending
  /\ session' \in [Sessions -> SessionStatus] /\ Issued \subseteq Issued'
  /\ fresh' \subseteq Sessions /\ cached' \subseteq Sessions
  /\ mishaps' \in Nat /\ mishaps' <= mishaps

\* A handler that goes on to its next await serves its call.
LEMMA GotoServes ==
  ASSUME TypeOK, HandlersKnow, NEW c \in Calls, request[c].at # "idle",
         NEW at \in AtServer \cup AtClient, Goto(c, at), Issued \subseteq Issued', at # "queued",
         request[c].kind # "login" => (at \in Refreshing <=> request[c].at \in Refreshing),
         request[c].kind = "login" => at \in {"renew", "cache", "renewed", "error"},
         at \in {"fill", "serve", "forget"} => request[c].token \in Sessions,
         at \in {"match", "rotate", "forgetOld", "cache"} => request[c].pair \in Sessions
  PROVE  ServesCall(c)
<1> DEFINE p == request[c]
           q == After(p, at)
<1>1. /\ p \in CallType /\ PairsOf(p) \subseteq Issued \cup {Nothing} /\ DOMAIN request = Calls
      /\ p.tab \in Tabs
  BY CallTyped DEF HandlersKnow
<1>2. request' = [request EXCEPT ![c] = q] /\ request'[c] = q
  BY <1>1 DEF Goto
<1>3. /\ Serves(p, q)
      /\ q = NoCall \/ q = [p EXCEPT !.at = at]
  BY <1>1, AfterServes
<1>4. PairsOf(q) \subseteq Issued' \cup {Nothing} /\ HandlerKnows(q)
  <2>1. CASE q = NoCall
    <3> HIDE DEF q
    <3> QED
      BY <2>1, NoCallTyped DEF HandlerKnows
  <2>2. CASE q = [p EXCEPT !.at = at]
    <3>1. q.token = p.token /\ q.pair = p.pair /\ q.login = p.login /\ q.at = at /\ q.tab = p.tab
      <4> HIDE DEF q, p
      <4> QED
        BY <1>1, <2>2 DEF CallType
    <3> HIDE DEF q
    <3> QED
      BY <1>1, <3>1 DEF PairsOf, HandlerKnows
  <2> QED
    BY <1>3, <2>1, <2>2
<1> HIDE DEF q
<1> QED
  BY <1>2, <1>3, <1>4 DEF ServesCall

\* The strategies, a refresh, a logout: nothing but the call moves on.
LEMMA AuthenticateServes ==
  ASSUME TypeOK, LoginsAreNew, HandlersKnow, NEW c \in Calls, Authenticate(c) \/ AuthenticateRetailer(c)
  PROVE  ServesCall(c) /\ ServesData
<1>1. UNCHANGED server /\ request[c].at = "sent"
  BY DEF Authenticate, AuthenticateRetailer
<1>2. ServesData
  BY <1>1 DEF server, ServesData, TypeOK, ServerTypeOK, Issued
<1>3. Issued' = Issued
  BY <1>1 DEF server, Issued
<1>4. request[c].kind # "login"
  BY <1>1 DEF LoginsAreNew
<1>5. PICK at \in {"unauthorized", "serve", "ok", "fill"} :
        Goto(c, at) /\ (at \in {"fill", "serve"} => request[c].token \in Sessions)
  BY DEF Authenticate, AuthenticateRetailer, Pass, TypeOK, ServerTypeOK
<1>6. /\ at \in AtServer \cup AtClient /\ at # "queued" /\ at \notin Refreshing /\ "sent" \notin Refreshing
      /\ at \notin {"forget", "match", "rotate", "forgetOld", "cache"}
  BY <1>5 DEF AtServer, AtClient, Refreshing
<1> QED
  BY <1>1, <1>2, <1>3, <1>4, <1>5, <1>6, GotoServes

\* validateSession fills Redis.
LEMMA FillServes ==
  ASSUME TypeOK, LoginsAreNew, HandlersKnow, NEW c \in Calls, Fill(c)
  PROVE  ServesCall(c) /\ ServesData
<1>1. request[c].at = "fill" /\ request[c].token \in Sessions
  BY DEF Fill, HandlersKnow
<1>2. ServesData
  BY <1>1 DEF Fill, Remember, Mishap, ServesData, TypeOK, ServerTypeOK, Issued
<1>3. Issued' = Issued
  BY DEF Fill, Issued
<1>4. request[c].kind # "login"
  BY <1>1 DEF LoginsAreNew
<1>5. PICK at \in {"unauthorized", "serve", "ok"} : Goto(c, at)
  BY DEF Fill, Pass
<1>6. /\ at \in AtServer \cup AtClient /\ at # "queued" /\ at \notin Refreshing /\ "fill" \notin Refreshing
      /\ at \notin {"forget", "match", "rotate", "forgetOld", "cache"}
  BY <1>5 DEF AtServer, AtClient, Refreshing
<1> QED
  BY <1>1, <1>2, <1>3, <1>4, <1>5, <1>6, GotoServes

\* Logging out revokes one row and forgets it.
LEMMA RevokeServes ==
  ASSUME TypeOK, LoginsAreNew, HandlersKnow, NEW c \in Calls, RevokeOne(c) \/ RevokeRetailer(c) \/ Forget(c)
  PROVE  ServesCall(c) /\ ServesData
<1>1. request[c].at \in {"serve", "forget"} /\ request[c].token \in Sessions
  BY DEF RevokeOne, RevokeRetailer, Forget, HandlersKnow
<1>2. /\ session' \in [Sessions -> SessionStatus]
      /\ \A s \in Sessions : session[s] # "none" => session'[s] # "none"
  BY DEF RevokeOne, RevokeRetailer, Forget, TypeOK, ServerTypeOK, SessionStatus
<1>3. Issued \subseteq Issued'
  BY <1>2 DEF Issued
<1>4. ServesData
  BY <1>2, <1>3 DEF RevokeOne, RevokeRetailer, Forget, ForgetOne, Mishap, ServesData, TypeOK, ServerTypeOK
<1>5. request[c].kind # "login"
  BY <1>1 DEF LoginsAreNew
<1>6. PICK at \in {"forget", "ok"} : Goto(c, at)
  BY DEF RevokeOne, RevokeRetailer, Forget
<1>7. /\ at \in AtServer \cup AtClient /\ at # "queued" /\ at \notin Refreshing
      /\ "serve" \notin Refreshing /\ "forget" \notin Refreshing
      /\ at \notin {"match", "rotate", "forgetOld", "cache"}
  BY <1>6 DEF AtServer, AtClient, Refreshing
<1> QED
  BY <1>1, <1>3, <1>4, <1>5, <1>6, <1>7, GotoServes

\* A refresh until the new session is to be created.
LEMMA RotateServes ==
  ASSUME TypeOK, LoginsAreNew, HandlersKnow, NEW c \in Calls, Match(c) \/ Rotate(c) \/ ForgetOld(c)
  PROVE  ServesCall(c) /\ ServesData
<1>1. request[c].at \in {"match", "rotate", "forgetOld"} /\ request[c].pair \in Sessions
  BY DEF Match, Rotate, ForgetOld, HandlersKnow
<1>2. /\ session' \in [Sessions -> SessionStatus]
      /\ \A s \in Sessions : session[s] # "none" => session'[s] # "none"
  BY DEF Match, Rotate, ForgetOld, server, TypeOK, ServerTypeOK, SessionStatus
<1>3. Issued \subseteq Issued'
  BY <1>2 DEF Issued
<1>4. ServesData
  BY <1>2, <1>3 DEF Match, Rotate, ForgetOld, ForgetOne, Mishap, server, ServesData, TypeOK, ServerTypeOK
<1>5. request[c].kind # "login"
  BY <1>1 DEF LoginsAreNew
<1>6. PICK at \in {"rotate", "refused", "forgetOld", "renew"} : Goto(c, at)
  BY DEF Match, Rotate, ForgetOld
<1>7. /\ at \in AtServer \cup AtClient /\ at # "queued" /\ at \in Refreshing
      /\ request[c].at \in Refreshing /\ at \notin {"fill", "serve", "forget"}
  BY <1>1, <1>6 DEF AtServer, AtClient, Refreshing
<1> QED
  BY <1>1, <1>3, <1>4, <1>5, <1>6, <1>7, GotoServes

\* createSession puts the new pair into Redis, or fails to.
LEMMA CacheNewServes ==
  ASSUME TypeOK, LoginsAreNew, HandlersKnow, NEW c \in Calls, CacheNew(c) \/ Break(c)
  PROVE  ServesCall(c) /\ ServesData
<1>1. Issued' = Issued
  BY DEF CacheNew, Break, Issued
<1>2. CacheNew(c) => request[c].pair \in Sessions
  BY DEF CacheNew, HandlersKnow
<1>3. ServesData
  BY <1>1, <1>2 DEF CacheNew, Break, Remember, Mishap, ServesData, TypeOK, ServerTypeOK
<1>4. CASE CacheNew(c)
  <2>1. /\ Goto(c, "renewed") /\ request[c].at = "cache"
        /\ "renewed" \in AtServer \cup AtClient /\ "renewed" \in Refreshing /\ "cache" \in Refreshing
    BY <1>4 DEF CacheNew, AtServer, AtClient, Refreshing
  <2> QED
    BY <1>1, <1>3, <2>1, GotoServes
<1>5. CASE Break(c)
  <2>1. PICK at \in {"refused", "error"} :
          Goto(c, at) /\ (at = "refused" <=> request[c].at \in Refreshing /\ request[c].kind # "login")
    BY <1>5 DEF Break
  <2>2. /\ at \in AtServer \cup AtClient /\ (at \in Refreshing <=> at = "refused")
        /\ request[c].at # "idle"
    BY <1>5, <2>1 DEF Break, AtServer, AtClient, Refreshing
  <2> QED
    BY <1>1, <1>3, <2>1, <2>2, GotoServes
<1> QED
  BY <1>4, <1>5

\* The session that is created next has not been heard of.
NewSession == CHOOSE u \in Unused : TRUE

\* createSession, and the retailers' login: a row that was not there.
LEMMA CreatedServes ==
  ASSUME TypeOK, HandlersKnow, NEW c \in Calls, Renew(c) \/ RenewRetailer(c)
  PROVE  /\ ServesCall(c) /\ ServesData
         /\ NewSession \in Sessions \ Issued
         /\ session' = [session EXCEPT ![NewSession] = "live"]
         /\ fresh' = fresh \cup {NewSession}
         /\ UNCHANGED <<portal, cached, active, ending, mishaps>>
         /\ \/ request'[c] = NoCall /\ request[c].gone
            \/ /\ request'[c].at = IF portal THEN "renewed" ELSE "cache"
               /\ request'[c].pair = NewSession
               /\ request'[c].token = request[c].token /\ request'[c].login = request[c].login
<1> DEFINE p == request[c]
           s == NewSession
           given == [p EXCEPT !.pair = s]
<1>1. PICK at \in {"cache", "renewed"} : Created(c, at) /\ at = IF portal THEN "renewed" ELSE "cache"
  BY DEF Renew, RenewRetailer
<1>2. s \in Unused /\ s \in Sessions \ Issued /\ session[s] = "none"
  BY <1>1 DEF Created, NewSession, Unused, Issued
<1>3. /\ session' = [session EXCEPT ![s] = "live"]
      /\ fresh' = fresh \cup {s}
      /\ request' = [request EXCEPT ![c] = After(given, at)]
      /\ UNCHANGED <<portal, cached, active, ending, mishaps>>
      /\ p.at = "renew"
  BY <1>1 DEF Created, NewSession
<1>4. session' \in [Sessions -> SessionStatus] /\ Issued' = Issued \cup {s}
  BY <1>2, <1>3 DEF TypeOK, ServerTypeOK, SessionStatus, Issued
<1>5. ServesData
  BY <1>2, <1>3, <1>4 DEF ServesData, TypeOK, ServerTypeOK
<1>6. p \in CallType /\ PairsOf(p) \subseteq Issued \cup {Nothing} /\ DOMAIN request = Calls
  BY CallTyped
<1>7. /\ given \in CallType /\ given.at = p.at /\ given.kind = p.kind /\ given.gone = p.gone
      /\ given.tab = p.tab /\ given.pair = s /\ given.token = p.token /\ given.login = p.login
  BY <1>2, <1>6 DEF CallType
<1>8. at \in AtServer \cup AtClient /\ at # "queued" /\ at \in Refreshing /\ p.at \in Refreshing
  BY <1>1, <1>3 DEF AtServer, AtClient, Refreshing
<1> HIDE DEF given, s
<1>9. /\ Serves(given, After(given, at))
      /\ After(given, at) = NoCall \/ After(given, at) = [given EXCEPT !.at = at]
      /\ at \in AtServer => After(given, at) = [given EXCEPT !.at = at]
  BY <1>1, <1>7, <1>8, AfterServes
<1>10. request'[c] = After(given, at)
  BY <1>3, <1>6
<1>11. \/ After(given, at) = NoCall /\ p.gone
       \/ /\ After(given, at).at = at
          /\ After(given, at).pair = s /\ After(given, at).tab = p.tab
          /\ After(given, at).token = p.token /\ After(given, at).login = p.login
  <2>1. CASE Ends(given, at)
    <3>1. at \notin {"ok", "error"}
      BY <1>1
    <3> QED
      BY <1>7, <2>1, <3>1 DEF After, Ends
  <2>2. CASE ~Ends(given, at)
    <3>1. After(given, at) = [given EXCEPT !.at = at]
      BY <2>2 DEF After
    <3> QED
      BY <1>7, <3>1 DEF CallType
  <2> QED
    BY <2>1, <2>2
<1>12. PairsOf(After(given, at)) \subseteq Issued' \cup {Nothing} /\ HandlerKnows(After(given, at))
  <2>1. CASE After(given, at) = NoCall
    BY <2>1, NoCallTyped DEF HandlerKnows
  <2>2. CASE After(given, at) # NoCall
    <3>1. p.tab \in Tabs
      BY <1>3 DEF HandlersKnow
    <3> QED
      BY <1>1, <1>2, <1>4, <1>6, <1>11, <2>2, <3>1 DEF PairsOf, HandlerKnows
  <2> QED
    BY <2>1, <2>2
<1>13. Serves(p, After(given, at))
  <2>1. Refreshes(given) <=> Refreshes(p)
    BY <1>7 DEF Refreshes
  <2> QED
    BY <1>7, <1>9, <2>1 DEF Serves
<1>14. ServesCall(c)
  BY <1>3, <1>10, <1>12, <1>13 DEF ServesCall
<1> QED
  BY <1>1, <1>2, <1>3, <1>5, <1>10, <1>11, <1>14 DEF s

\* Every step of a handler.
LEMMA ServerStepServes ==
  ASSUME TypeOK, LoginsAreNew, HandlersKnow, NEW c \in Calls, ServerStep(c)
  PROVE  ServesCall(c) /\ ServesData
BY AuthenticateServes, FillServes, RevokeServes, RotateServes, CacheNewServes, CreatedServes DEF ServerStep

\* What one call becomes leaves the others, and the tabs, as they were.
LEMMA OneCallKeepsTabs ==
  ASSUME request \in [Calls -> CallType], LoginsAreNew, QueuedIsAwaited, refreshing' = refreshing,
         NEW c \in Calls, request' = [request EXCEPT ![c] = request'[c]],
         Serves(request[c], request'[c])
  PROVE  request' \in [Calls -> CallType] /\ LoginsAreNew' /\ QueuedIsAwaited'
<1>1. request' \in [Calls -> CallType]
  BY DEF Serves
<1>2. LoginsAreNew'
  BY DEF Serves, LoginsAreNew
<1>3. ASSUME NEW t \in Tabs
      PROVE  RefreshersOf(t)' = RefreshersOf(t)
  BY DEF RefreshersOf, InTab, Serves, Refreshes
<1>4. ASSUME NEW t \in Tabs, NEW d \in InTab(t)', request'[d].at = "queued"
      PROVE  d \in InTab(t) /\ request[d].at = "queued"
  BY <1>4 DEF InTab, Serves
<1>5. QueuedIsAwaited'
  BY <1>3, <1>4 DEF QueuedIsAwaited
<1> QED
  BY <1>1, <1>2, <1>5

\* A handler's step keeps what the tabs rely on.
LEMMA ServerStepKeepsTabs ==
  ASSUME TabInv, NEW c \in Calls, ServerStep(c), UNCHANGED browser
  PROVE  TabInv'
<1>1. TypeOK /\ HandlersKnow /\ LoginsAreNew /\ QueuedIsAwaited /\ request \in [Calls -> CallType]
  BY DEF TabInv, TypeOK, ServerTypeOK
<1>2. ServesCall(c) /\ ServesData
  BY <1>1, ServerStepServes
<1>3. request' \in [Calls -> CallType] /\ LoginsAreNew' /\ QueuedIsAwaited'
  BY <1>1, <1>2, OneCallKeepsTabs DEF ServesCall, browser
<1>4. \A d \in Calls : d # c => request'[d] = request[d]
  BY <1>1, <1>2 DEF ServesCall
<1>5. \A d \in Calls : {request'[d].token, request'[d].pair, request'[d].login} \subseteq Issued' \cup {Nothing}
  <2> TAKE d \in Calls
  <2>1. CASE d = c
    BY <1>2, <2>1 DEF ServesCall, PairsOf
  <2>2. CASE d # c
    BY <1>1, <1>2, <1>4, <2>2, CallTyped DEF PairsOf, ServesData
  <2> QED
    BY <2>1, <2>2
<1>6. HandlersKnow'
  BY <1>1, <1>2, <1>4 DEF ServesCall, HandlerKnows, HandlersKnow
<1>7. TypeOK'
  BY <1>1, <1>2, <1>3, <1>5 DEF TypeOK, ServerTypeOK, ServesData, browser
<1> QED
  BY <1>3, <1>6, <1>7 DEF TabInv

\* Time, and what happens to all sessions, leaves the calls alone.
LEMMA ElsewhereKeepsTabs ==
  ASSUME TabInv, UNCHANGED browser,
         \/ ListAll \/ RevokeAll \/ ForgetListed \/ Suspend
         \/ \E s \in Sessions : AccessExpires(s) \/ RefreshLapses(s) \/ CacheExpires(s)
  PROVE  TabInv'
<1>1. request' = request /\ portal' = portal
  BY DEF ListAll, RevokeAll, ForgetListed, Suspend, AccessExpires, RefreshLapses, CacheExpires
<1>2. /\ session' \in [Sessions -> SessionStatus]
      /\ \A s \in Sessions : session[s] # "none" => session'[s] # "none"
  BY DEF ListAll, RevokeAll, ForgetListed, Suspend, AccessExpires, RefreshLapses, CacheExpires,
         TabInv, TypeOK, ServerTypeOK, SessionStatus
<1>3. Issued \subseteq Issued'
  BY <1>2 DEF Issued
<1>4. /\ fresh' \subseteq Sessions /\ cached' \subseteq Sessions /\ active' \in BOOLEAN
      /\ mishaps' \in Nat
  <2>1. fresh \subseteq Sessions /\ cached \subseteq Sessions /\ active \in BOOLEAN /\ mishaps \in Nat
    BY DEF TabInv, TypeOK, ServerTypeOK
  <2>2. fresh' \subseteq fresh /\ cached' \subseteq cached /\ active' \in {active, FALSE}
    BY DEF ListAll, RevokeAll, ForgetListed, Suspend, AccessExpires, RefreshLapses, CacheExpires
  <2>3. mishaps' = mishaps \/ Mishap
    BY DEF ListAll, RevokeAll, ForgetListed, Suspend, AccessExpires, RefreshLapses, CacheExpires
  <2>4. mishaps' \in Nat
    BY <2>1, <2>3 DEF Mishap
  <2> QED
    BY <2>1, <2>2, <2>4
<1>5. ending' \in [at : {"idle", "listed", "forget"}, left : SUBSET Sessions]
  BY DEF ListAll, RevokeAll, ForgetListed, Suspend, AccessExpires, RefreshLapses, CacheExpires, LiveOnes,
         TabInv, TypeOK, ServerTypeOK
<1>6. TypeOK'
  BY <1>1, <1>2, <1>3, <1>4, <1>5 DEF browser, TabInv, TypeOK, ServerTypeOK
<1>7. HandlersKnow' /\ LoginsAreNew' /\ QueuedIsAwaited'
  BY <1>1 DEF browser, TabInv, HandlersKnow, LoginsAreNew, QueuedIsAwaited, RefreshersOf, InTab
<1> QED
  BY <1>6, <1>7 DEF TabInv

\* What the browser changes of the types.
BrowserData ==
  /\ portal' = portal /\ session' = session /\ fresh' = fresh /\ cached' = cached
  /\ active' = active /\ ending' = ending /\ mishaps' \in Nat
  /\ stored' \in Issued \cup {Nothing} /\ persisted' \in BOOLEAN
  /\ screen' \in [Tabs -> {"form", "app"}] /\ refreshing' \in [Tabs -> BOOLEAN]

\* The types after a step of the browser, call by call.
LEMMA BrowserTypes ==
  ASSUME TypeOK, HandlersKnow, LoginsAreNew, BrowserData,
         request' = [d \in Calls |-> request'[d]],
         \A d \in Calls : /\ request'[d] \in CallType
                          /\ PairsOf(request'[d]) \subseteq Issued \cup {Nothing}
                          /\ HandlerKnows(request'[d])
                          /\ request'[d].kind = "login" =>
                               request'[d].at \in {"renew", "cache", "renewed", "error"}
  PROVE  TypeOK' /\ HandlersKnow' /\ LoginsAreNew'
<1>1. Issued' = Issued
  BY DEF BrowserData, Issued
<1>2. request' \in [Calls -> CallType]
  OBVIOUS
<1>3. TypeOK'
  BY <1>1, <1>2 DEF TypeOK, ServerTypeOK, BrowserData, PairsOf
<1>4. HandlersKnow' /\ LoginsAreNew'
  BY DEF HandlersKnow, HandlerKnows, LoginsAreNew
<1> QED
  BY <1>3, <1>4

\* What the calls are of which the browser changes nothing.
LEMMA CallsAreRight ==
  ASSUME TypeOK, HandlersKnow, LoginsAreNew, NEW d \in Calls
  PROVE  /\ request[d] \in CallType
         /\ PairsOf(request[d]) \subseteq Issued \cup {Nothing}
         /\ HandlerKnows(request[d])
         /\ request[d].kind = "login" => request[d].at \in {"renew", "cache", "renewed", "error"}
BY CallTyped DEF HandlersKnow, HandlerKnows, LoginsAreNew

\* The browser sends a call or ends one, and no refresh begins or ends.
LEMMA BrowserCallKeepsTabs ==
  ASSUME TabInv, BrowserData, refreshing' = refreshing, NEW c \in Calls,
         request' = [request EXCEPT ![c] = request'[c]],
         Serves(request[c], request'[c]),
         PairsOf(request'[c]) \subseteq Issued \cup {Nothing},
         HandlerKnows(request'[c])
  PROVE  TabInv'
<1>1. TypeOK /\ HandlersKnow /\ LoginsAreNew /\ QueuedIsAwaited /\ request \in [Calls -> CallType]
  BY DEF TabInv, TypeOK, ServerTypeOK
<1>2. request' \in [Calls -> CallType] /\ LoginsAreNew' /\ QueuedIsAwaited'
  BY <1>1, OneCallKeepsTabs
<1>3. request' = [d \in Calls |-> request'[d]] /\ \A d \in Calls \ {c} : request'[d] = request[d]
  BY <1>1, <1>2
<1>4. ASSUME NEW d \in Calls
      PROVE  /\ request'[d] \in CallType
             /\ PairsOf(request'[d]) \subseteq Issued \cup {Nothing}
             /\ HandlerKnows(request'[d])
             /\ request'[d].kind = "login" => request'[d].at \in {"renew", "cache", "renewed", "error"}
  <2>1. CASE d = c
    BY <1>2, <2>1 DEF Serves
  <2>2. CASE d # c
    BY <1>1, <1>3, <2>2, CallsAreRight
  <2> QED
    BY <2>1, <2>2
<1>5. TypeOK' /\ HandlersKnow'
  BY <1>1, <1>3, <1>4, BrowserTypes
<1> QED
  BY <1>2, <1>5 DEF TabInv

\* A call as it is sent, first or again.
LEMMA SentTyped ==
  ASSUME NEW q \in CallType, q.tab \in Tabs, NEW token \in Sessions \cup {Nothing}
  PROVE  /\ Sent(q, token) \in CallType
         /\ Sent(q, token).at = "sent" /\ Sent(q, token).token = token /\ Sent(q, token).pair = Nothing
         /\ Sent(q, token).login = q.login /\ Sent(q, token).kind = q.kind
         /\ Sent(q, token).tab = q.tab /\ Sent(q, token).gone = q.gone
         /\ ~Refreshes(Sent(q, token)) /\ HandlerKnows(Sent(q, token))
BY DEF Sent, CallType, AtServer, Refreshes, Refreshing, HandlerKnows

\* A call of a tab.
LEMMA StartingTyped ==
  ASSUME NEW t \in Tabs, NEW k \in CallKinds
  PROVE  /\ Starting(t, k) \in CallType /\ Starting(t, k).kind = k /\ Starting(t, k).at = "idle"
         /\ PairsOf(Starting(t, k)) = {Nothing} /\ ~Starting(t, k).gone
         /\ Starting(t, k).tab = t /\ ~Refreshes(Starting(t, k))
BY DEF Starting, NoCall, CallType, PairsOf, Refreshes, Refreshing

\* A page loads its data, or the user presses Logout.
LEMMA SendKeepsTabs ==
  ASSUME TabInv, NEW c \in Calls, NEW t \in Tabs, NEW k \in {"page", "logout"}, Send(c, t, k)
  PROVE  TabInv'
<1> DEFINE q == Sent(Starting(t, k), stored)
<1>1. TypeOK /\ request \in [Calls -> CallType] /\ stored \in Issued \cup {Nothing} /\ Issued \subseteq Sessions
  BY DEF TabInv, TypeOK, ServerTypeOK, Issued
<1>2. k \in CallKinds /\ k # "login"
  BY DEF CallKinds
<1>3. /\ q \in CallType /\ q.at = "sent" /\ ~Refreshes(q) /\ HandlerKnows(q) /\ q.kind = k
      /\ PairsOf(q) \subseteq {stored, Nothing}
  <2>1. PICK p \in CallType : p = Starting(t, k) /\ p.kind = k /\ p.tab = t /\ PairsOf(p) = {Nothing}
    BY <1>2, StartingTyped
  <2>2. stored \in Sessions \cup {Nothing} /\ p.login = Nothing
    BY <1>1, <2>1 DEF PairsOf
  <2>3. q = Sent(p, stored)
    BY <2>1
  <2> HIDE DEF q
  <2> QED
    BY <2>1, <2>2, <2>3, SentTyped DEF PairsOf
<1>4. /\ request' = [request EXCEPT ![c] = q] /\ request[c].at = "idle"
      /\ UNCHANGED server /\ UNCHANGED browser
  BY DEF Send
<1>5. BrowserData /\ refreshing' = refreshing
  BY <1>1, <1>4 DEF BrowserData, server, browser, TypeOK, ServerTypeOK
<1>6. request'[c] = q /\ ~Refreshes(request[c])
  BY <1>1, <1>4 DEF Refreshes, Refreshing
<1> HIDE DEF q
<1>7. Serves(request[c], q)
  BY <1>2, <1>3, <1>6 DEF Serves
<1> QED
  BY <1>1, <1>3, <1>4, <1>5, <1>6, <1>7, BrowserCallKeepsTabs

\* The login form.
LEMMA SignInKeepsTabs ==
  ASSUME TabInv, NEW c \in Calls, NEW t \in Tabs, SignIn(c, t)
  PROVE  TabInv'
<1> DEFINE q == [Starting(t, "login") EXCEPT !.at = "renew"]
<1>1. TypeOK /\ request \in [Calls -> CallType]
  BY DEF TabInv, TypeOK, ServerTypeOK
<1>2. "login" \in CallKinds
  BY DEF CallKinds
<1>3. /\ q \in CallType /\ q.at = "renew" /\ q.kind = "login" /\ q.tab = t /\ PairsOf(q) = {Nothing}
  BY <1>2, StartingTyped DEF CallType, PairsOf, AtServer
<1>4. /\ request' = [request EXCEPT ![c] = q] /\ request[c].at = "idle"
      /\ UNCHANGED server /\ UNCHANGED browser
  BY DEF SignIn
<1>5. BrowserData /\ refreshing' = refreshing
  BY <1>1, <1>4 DEF BrowserData, server, browser, TypeOK, ServerTypeOK
<1>6. request'[c] = q /\ ~Refreshes(request[c])
  BY <1>1, <1>4 DEF Refreshes, Refreshing
<1> HIDE DEF q
<1>7. Serves(request[c], q) /\ HandlerKnows(q)
  BY <1>3, <1>6 DEF Serves, Refreshes, HandlerKnows
<1> QED
  BY <1>1, <1>3, <1>4, <1>5, <1>6, <1>7, BrowserCallKeepsTabs

\* The end of a call: an answer, the profile, the retailers' login.
LEMMA EndKeepsTabs ==
  ASSUME TabInv, NEW c \in Calls, request' = [request EXCEPT ![c] = NoCall], BrowserData,
         refreshing' = refreshing, ~Refreshes(request[c])
  PROVE  TabInv'
<1>1. request \in [Calls -> CallType]
  BY DEF TabInv, TypeOK, ServerTypeOK
<1>2. request'[c] = NoCall
  BY <1>1
<1>3. Serves(request[c], NoCall) /\ HandlerKnows(NoCall) /\ PairsOf(NoCall) \subseteq Issued \cup {Nothing}
  BY NoCallTyped DEF Serves, HandlerKnows
<1> QED
  BY <1>2, <1>3, BrowserCallKeepsTabs

\* An error that is shown, an answer, the end of a logout.
LEMMA SettleKeepsTabs ==
  ASSUME TabInv, NEW c \in Calls, Settle(c), request[c].at \in {"unauthorized", "ok", "error"}
  PROVE  TabInv'
<1>1. request' = [request EXCEPT ![c] = NoCall]
  BY DEF Settle
<1>2. BrowserData /\ refreshing' = refreshing
  BY DEF Settle, BrowserData, server, browser, TabInv, TypeOK, ServerTypeOK
<1>3. ~Refreshes(request[c])
  BY DEF Refreshes, Refreshing
<1> QED
  BY <1>1, <1>2, <1>3, EndKeepsTabs

\* The two logins and the profile that follows the first.
LEMMA SignedInKeepsTabs ==
  ASSUME TabInv, NEW c \in Calls, OnSignedIn(c) \/ OnRetailerSignedIn(c) \/ OnProfile(c)
  PROVE  TabInv'
<1>1. /\ TypeOK /\ request \in [Calls -> CallType] /\ request[c] \in CallType
      /\ PairsOf(request[c]) \subseteq Issued \cup {Nothing} /\ Issued \subseteq Sessions
  BY CallTyped DEF TabInv, TypeOK, ServerTypeOK, Issued
<1>2. BrowserData /\ refreshing' = refreshing
  <2>1. stored' \in Issued \cup {Nothing}
    BY <1>1 DEF OnSignedIn, OnRetailerSignedIn, OnProfile, PairsOf
  <2>2. /\ portal' = portal /\ session' = session /\ fresh' = fresh /\ cached' = cached
        /\ active' = active /\ ending' = ending /\ mishaps' = mishaps /\ refreshing' = refreshing
        /\ persisted' \in {persisted, TRUE}
        /\ screen' = screen \/ screen' = [screen EXCEPT ![request[c].tab] = "app"]
    BY DEF OnSignedIn, OnRetailerSignedIn, OnProfile, server
  <2>3. /\ mishaps \in Nat /\ persisted \in BOOLEAN /\ refreshing \in [Tabs -> BOOLEAN]
        /\ screen \in [Tabs -> {"form", "app"}]
    BY <1>1 DEF TypeOK, ServerTypeOK
  <2>4. screen' \in [Tabs -> {"form", "app"}]
    BY <2>2, <2>3
  <2> QED
    BY <2>1, <2>2, <2>3, <2>4 DEF BrowserData
<1>3. ~Refreshes(request[c])
  BY DEF OnSignedIn, OnRetailerSignedIn, OnProfile, Expects, Refreshes, Refreshing
<1>4. CASE OnRetailerSignedIn(c) \/ OnProfile(c)
  BY <1>2, <1>3, <1>4, EndKeepsTabs DEF OnRetailerSignedIn, OnProfile
<1>5. CASE OnSignedIn(c)
  <2> DEFINE s == request[c].pair
             t == request[c].tab
             q == [Sent(Starting(t, "profile"), s) EXCEPT !.login = s]
  <2>1. s \in Issued \cup {Nothing} /\ "profile" \in CallKinds /\ t \in Tabs
    BY <1>1, <1>5 DEF PairsOf, CallKinds, OnSignedIn, Expects, HandlersKnow, TabInv
  <2>2. /\ q \in CallType /\ q.at = "sent" /\ q.kind = "profile" /\ q.tab = t
        /\ q.token = s /\ q.pair = Nothing /\ q.login = s
    BY <1>1, <2>1 DEF Sent, Starting, NoCall, CallType, AtServer
  <2>3. request' = [request EXCEPT ![c] = q] /\ request'[c] = q
    BY <1>1, <1>5 DEF OnSignedIn
  <2> HIDE DEF q, s, t
  <2>4. Serves(request[c], q) /\ HandlerKnows(q) /\ PairsOf(q) \subseteq Issued \cup {Nothing}
    BY <1>3, <2>1, <2>2 DEF Serves, HandlerKnows, PairsOf, Refreshes, Refreshing
  <2> QED
    BY <1>2, <2>3, <2>4, BrowserCallKeepsTabs
<1> QED
  BY <1>4, <1>5

\* A call that waits for the refresh of its tab.
LEMMA WaitKeepsTabs ==
  ASSUME TabInv, NEW c \in Calls, Wait(c)
  PROVE  TabInv'
<1> DEFINE p == request[c]
           q == [p EXCEPT !.at = "queued", !.retried = TRUE, !.token = Nothing]
<1>1. /\ TypeOK /\ HandlersKnow /\ LoginsAreNew /\ QueuedIsAwaited
      /\ request \in [Calls -> CallType] /\ p \in CallType /\ PairsOf(p) \subseteq Issued \cup {Nothing}
  BY CallTyped DEF TabInv, TypeOK, ServerTypeOK
<1>2. /\ p.at = "unauthorized" /\ refreshing[p.tab]
      /\ UNCHANGED server /\ UNCHANGED browser
      /\ request' = [request EXCEPT ![c].at = "queued", ![c].retried = TRUE, ![c].token = Nothing]
  BY DEF Wait, Expects
<1>3. request' = [request EXCEPT ![c] = q] /\ request'[c] = q
  BY <1>1, <1>2
<1>4. /\ q \in CallType /\ q.at = "queued" /\ q.kind = p.kind /\ q.tab = p.tab
      /\ q.token = Nothing /\ q.pair = p.pair /\ q.login = p.login
  BY <1>1 DEF CallType, AtClient
<1> HIDE DEF q
<1>5. p.kind # "login"
  BY <1>1, <1>2 DEF LoginsAreNew
<1>6. HandlerKnows(q) /\ PairsOf(q) \subseteq Issued \cup {Nothing} /\ ~Refreshes(q) /\ ~Refreshes(p)
  BY <1>1, <1>2, <1>4 DEF HandlersKnow, HandlerKnows, PairsOf, Refreshes, Refreshing
<1>7. BrowserData /\ refreshing' = refreshing
  BY <1>1, <1>2 DEF BrowserData, server, browser, TypeOK, ServerTypeOK
<1>8. request' = [d \in Calls |-> request'[d]] /\ \A d \in Calls \ {c} : request'[d] = request[d]
  BY <1>1, <1>3
<1>9. TypeOK' /\ HandlersKnow' /\ LoginsAreNew'
  <2>1. ASSUME NEW d \in Calls
        PROVE  /\ request'[d] \in CallType
               /\ PairsOf(request'[d]) \subseteq Issued \cup {Nothing}
               /\ HandlerKnows(request'[d])
               /\ request'[d].kind = "login" => request'[d].at \in {"renew", "cache", "renewed", "error"}
    <3>1. CASE d = c
      BY <1>3, <1>4, <1>5, <1>6, <3>1
    <3>2. CASE d # c
      BY <1>1, <1>8, <3>2, CallsAreRight
    <3> QED
      BY <3>1, <3>2
  <2> QED
    BY <1>1, <1>7, <1>8, <2>1, BrowserTypes
<1>10. ASSUME NEW t \in Tabs
       PROVE  RefreshersOf(t)' = RefreshersOf(t)
  BY <1>3, <1>6, <1>8 DEF RefreshersOf, InTab, Refreshes
<1>11. ASSUME NEW t \in Tabs, NEW d \in InTab(t)', request'[d].at = "queued"
       PROVE  refreshing'[t]
  <2>1. CASE d = c
    BY <1>2, <1>3, <1>4, <1>7, <1>11, <2>1 DEF InTab
  <2>2. CASE d # c
    BY <1>1, <1>7, <1>8, <1>11, <2>2 DEF InTab, QueuedIsAwaited
  <2> QED
    BY <2>1, <2>2
<1>12. QueuedIsAwaited'
  BY <1>1, <1>7, <1>10, <1>11 DEF QueuedIsAwaited
<1> QED
  BY <1>9, <1>12 DEF TabInv

\* The first call of a tab to be refused begins a refresh.
LEMMA StartRefreshKeepsTabs ==
  ASSUME TabInv, NEW c \in Calls, StartRefresh(c)
  PROVE  TabInv'
<1> DEFINE p == request[c]
           q == [p EXCEPT !.at = "match", !.retried = TRUE, !.token = Nothing, !.pair = stored]
<1>1. /\ TypeOK /\ HandlersKnow /\ LoginsAreNew /\ QueuedIsAwaited
      /\ request \in [Calls -> CallType] /\ p \in CallType /\ PairsOf(p) \subseteq Issued \cup {Nothing}
      /\ stored \in Issued \cup {Nothing} /\ Issued \subseteq Sessions /\ refreshing \in [Tabs -> BOOLEAN]
  BY CallTyped DEF TabInv, TypeOK, ServerTypeOK, Issued
<1>2. /\ p.at = "unauthorized" /\ ~p.gone /\ ~refreshing[p.tab] /\ stored # Nothing
      /\ UNCHANGED server /\ UNCHANGED <<stored, persisted, screen>>
      /\ refreshing' = [refreshing EXCEPT ![p.tab] = TRUE]
      /\ request' = [request EXCEPT ![c].at = "match", ![c].retried = TRUE,
                                    ![c].token = Nothing, ![c].pair = stored]
  BY DEF StartRefresh, Expects
<1>3. request' = [request EXCEPT ![c] = q] /\ request'[c] = q
  BY <1>1, <1>2
<1>4. /\ q \in CallType /\ q.at = "match" /\ q.kind = p.kind /\ q.tab = p.tab /\ q.gone = p.gone
      /\ q.token = Nothing /\ q.pair = stored /\ q.login = p.login
  BY <1>1 DEF CallType, AtServer
<1> HIDE DEF q
<1>5. p.kind # "login"
  BY <1>1, <1>2 DEF LoginsAreNew
<1>6. HandlerKnows(q) /\ PairsOf(q) \subseteq Issued \cup {Nothing} /\ Refreshes(q) /\ ~Refreshes(p)
  BY <1>1, <1>2, <1>4, <1>5 DEF HandlersKnow, HandlerKnows, PairsOf, Refreshes, Refreshing
<1>7. BrowserData
  BY <1>1, <1>2 DEF BrowserData, server, TypeOK, ServerTypeOK
<1>8. request' = [d \in Calls |-> request'[d]] /\ \A d \in Calls \ {c} : request'[d] = request[d]
  BY <1>1, <1>3
<1>9. TypeOK' /\ HandlersKnow' /\ LoginsAreNew'
  <2>1. ASSUME NEW d \in Calls
        PROVE  /\ request'[d] \in CallType
               /\ PairsOf(request'[d]) \subseteq Issued \cup {Nothing}
               /\ HandlerKnows(request'[d])
               /\ request'[d].kind = "login" => request'[d].at \in {"renew", "cache", "renewed", "error"}
    <3>1. CASE d = c
      BY <1>3, <1>4, <1>5, <1>6, <3>1
    <3>2. CASE d # c
      BY <1>1, <1>8, <3>2, CallsAreRight
    <3> QED
      BY <3>1, <3>2
  <2> QED
    BY <1>1, <1>7, <1>8, <2>1, BrowserTypes
<1>10. ASSUME NEW t \in Tabs, t # p.tab
       PROVE  /\ RefreshersOf(t)' = RefreshersOf(t) /\ refreshing'[t] = refreshing[t]
              /\ \A d \in InTab(t)' : request'[d] = request[d] /\ d \in InTab(t)
  BY <1>1, <1>2, <1>3, <1>4, <1>8, <1>10 DEF RefreshersOf, InTab
<1>11. ASSUME NEW t \in Tabs, t = p.tab
       PROVE  RefreshersOf(t)' = {c} /\ refreshing'[t]
  <2>1. refreshing'[t] /\ RefreshersOf(t) = {}
    BY <1>1, <1>2, <1>11 DEF QueuedIsAwaited
  <2>2. c \in RefreshersOf(t)'
    BY <1>3, <1>4, <1>6, <1>11 DEF RefreshersOf, InTab, Refreshes
  <2>3. ASSUME NEW d \in RefreshersOf(t)', d # c
        PROVE  FALSE
    BY <1>8, <2>1, <2>3 DEF RefreshersOf, InTab
  <2> QED
    BY <2>1, <2>2, <2>3
<1>12. QueuedIsAwaited'
  <2> SUFFICES ASSUME NEW t \in Tabs
      PROVE  /\ \A x, y \in RefreshersOf(t)' : x = y
             /\ refreshing'[t] <=> RefreshersOf(t)' # {}
             /\ \A x \in InTab(t)' : request'[x].at = "queued" => refreshing'[t]
    BY DEF QueuedIsAwaited
  <2>1. CASE t = p.tab
    BY <1>11, <2>1
  <2>2. CASE t # p.tab
    BY <1>1, <1>10, <2>2 DEF QueuedIsAwaited
  <2> QED
    BY <2>1, <2>2
<1> QED
  BY <1>9, <1>12 DEF TabInv

\* A refresh is over: nothing in its tab refreshes or waits any more.
LEMMA TabClears ==
  ASSUME QueuedIsAwaited, NEW t,
         refreshing \in [Tabs -> BOOLEAN], refreshing' = [refreshing EXCEPT ![t] = FALSE],
         \A d \in InTab(t) : ~Refreshes(request'[d]) /\ request'[d].at # "queued",
         \A d \in Calls \ InTab(t) : request'[d] = request[d]
  PROVE  QueuedIsAwaited'
<1> SUFFICES ASSUME NEW u \in Tabs
    PROVE  /\ \A x, y \in RefreshersOf(u)' : x = y
           /\ refreshing'[u] <=> RefreshersOf(u)' # {}
           /\ \A x \in InTab(u)' : request'[x].at = "queued" => refreshing'[u]
  BY DEF QueuedIsAwaited
<1>1. CASE u = t
  BY <1>1 DEF RefreshersOf, InTab, Refreshes
<1>2. CASE u # t
  <2>1. refreshing'[u] = refreshing[u]
    BY <1>2
  <2>2. RefreshersOf(u)' = RefreshersOf(u)
    BY <1>2 DEF RefreshersOf, InTab, Refreshes
  <2>3. \A x \in InTab(u)' : request'[x].at = "queued" => x \in InTab(u) /\ request[x].at = "queued"
    BY DEF InTab
  <2> QED
    BY <2>1, <2>2, <2>3 DEF QueuedIsAwaited
<1> QED
  BY <1>1, <1>2

\* A call of a page that is left.
LEMMA AbandonedTyped ==
  ASSUME NEW q \in CallType
  PROVE  /\ Abandoned(q) \in CallType
         /\ Abandoned(q).at # "queued" /\ ~Refreshes(Abandoned(q))
         /\ \/ Abandoned(q) = NoCall /\ q.at \notin AtServer \ {"sent"}
            \/ /\ q.at \in AtServer \ {"sent"}
               /\ Abandoned(q).at = q.at /\ Abandoned(q).kind = q.kind /\ Abandoned(q).tab = q.tab /\ Abandoned(q).token = q.token
               /\ Abandoned(q).pair = q.pair /\ Abandoned(q).login = q.login
<1>1. CASE q.at \in AtServer \ {"sent"}
  BY <1>1 DEF Abandoned, CallType, Refreshes, AtServer
<1>2. CASE q.at \notin AtServer \ {"sent"}
  BY <1>2, NoCallTyped DEF Abandoned
<1> QED
  BY <1>1, <1>2

\* What a call that is abandoned or ended still is.
LEMMA AbandonedIsRight ==
  ASSUME TypeOK, HandlersKnow, LoginsAreNew, NEW d \in Calls,
         NEW q \in {NoCall, Abandoned(request[d]), request[d]}
  PROVE  /\ q \in CallType /\ PairsOf(q) \subseteq Issued \cup {Nothing} /\ HandlerKnows(q)
         /\ q.kind = "login" => q.at \in {"renew", "cache", "renewed", "error"}
<1>1. CASE q = NoCall
  BY <1>1, NoCallTyped DEF HandlerKnows
<1>2. CASE q = request[d]
  BY <1>2, CallsAreRight
<1>3. CASE q = Abandoned(request[d]) /\ q # NoCall
  <2>1. /\ request[d] \in CallType
        /\ PairsOf(request[d]) \subseteq Issued \cup {Nothing}
        /\ HandlerKnows(request[d])
        /\ request[d].kind = "login" => request[d].at \in {"renew", "cache", "renewed", "error"}
    BY CallsAreRight
  <2>2. q \in CallType /\ q.at = request[d].at /\ q.kind = request[d].kind /\ q.tab = request[d].tab
        /\ q.token = request[d].token /\ q.pair = request[d].pair /\ q.login = request[d].login
    BY <1>3, <2>1, AbandonedTyped
  <2> QED
    BY <2>1, <2>2 DEF PairsOf, HandlerKnows
<1> QED
  BY <1>1, <1>2, <1>3

\* Loading a page.
LEMMA VisitKeepsTabs ==
  ASSUME TabInv, NEW t \in Tabs, Visit(t)
  PROVE  TabInv'
<1>1. /\ TypeOK /\ HandlersKnow /\ LoginsAreNew /\ QueuedIsAwaited
      /\ request \in [Calls -> CallType] /\ refreshing \in [Tabs -> BOOLEAN] /\ mishaps \in Nat
  BY DEF TabInv, TypeOK, ServerTypeOK
<1>2. /\ refreshing' = [refreshing EXCEPT ![t] = FALSE]
      /\ request' = [c \in Calls |-> IF c \in InTab(t) THEN Abandoned(request[c]) ELSE request[c]]
      /\ UNCHANGED <<portal, session, fresh, cached, active, ending, stored, persisted>>
      /\ screen' = [screen EXCEPT ![t] = IF persisted THEN "app" ELSE "form"]
      /\ mishaps' = mishaps \/ Mishap
  BY DEF Visit
<1>3. BrowserData
  BY <1>1, <1>2 DEF BrowserData, Mishap, TypeOK, ServerTypeOK
<1>4. \A d \in Calls : request'[d] \in {NoCall, Abandoned(request[d]), request[d]}
  BY <1>2
<1>5. request' = [d \in Calls |-> request'[d]]
  BY <1>2
<1>6. TypeOK' /\ HandlersKnow' /\ LoginsAreNew'
  BY <1>1, <1>3, <1>4, <1>5, AbandonedIsRight, BrowserTypes
<1>7. \A d \in InTab(t) : ~Refreshes(request'[d]) /\ request'[d].at # "queued"
  BY <1>1, <1>2, AbandonedTyped DEF InTab
<1>8. \A d \in Calls \ InTab(t) : request'[d] = request[d]
  BY <1>2
<1>9. QueuedIsAwaited'
  BY <1>1, <1>2, <1>7, <1>8, TabClears
<1> QED
  BY <1>6, <1>9 DEF TabInv

\* Of the calls of a tab that refreshes, one does and some wait.
LEMMA OneRefresher ==
  ASSUME TabInv, NEW c \in Calls, request[c].tab \in Tabs, Refreshes(request[c])
  PROVE  \A d \in InTab(request[c].tab) \ SentAgain(c) :
           ~Refreshes(request[d]) /\ request[d].at # "queued"
<1>1. c \in RefreshersOf(request[c].tab) /\ QueuedIsAwaited
  BY DEF RefreshersOf, InTab, Refreshes, TabInv
<1> QED
  BY <1>1 DEF QueuedIsAwaited, RefreshersOf, InTab, Refreshes, SentAgain, Queue

\* The calls that failed, and those of a page that is left, are over.
LEMMA SessionLostKeepsTabs ==
  ASSUME TabInv, NEW c \in Calls,
         \/ GiveUp(c) /\ ~request[c].retried
         \/ GiveUpPortal(c)
         \/ OnRefused(c)
  PROVE  TabInv'
<1> DEFINE t == request[c].tab
           reload == screen[t] = "app"
<1>1. /\ TypeOK /\ HandlersKnow /\ LoginsAreNew /\ QueuedIsAwaited
      /\ request \in [Calls -> CallType] /\ refreshing \in [Tabs -> BOOLEAN] /\ mishaps \in Nat
  BY DEF TabInv, TypeOK, ServerTypeOK
<1>2. PICK failed : /\ SessionLost(t, failed)
                    /\ \/ failed = {c} /\ request[c].at = "unauthorized"
                       \/ failed = SentAgain(c) /\ request[c].at = "refused" /\ ~request[c].gone
  BY DEF GiveUp, GiveUpPortal, OnRefused, Expects
<1> DEFINE over == reload \/ \E d \in failed : request[d].at = "refused"
<1>3. /\ stored' = Nothing /\ persisted' \in BOOLEAN
      /\ UNCHANGED server
      /\ refreshing' = [refreshing EXCEPT ![t] = @ /\ ~over]
      /\ request' = [d \in Calls |-> IF d \in failed THEN NoCall
                                     ELSE IF reload /\ d \in InTab(t) THEN Abandoned(request[d]) ELSE request[d]]
      /\ screen' = screen \/ screen' = [screen EXCEPT ![t] = "form"]
  <2>1. /\ stored' = Nothing /\ persisted' = (persisted /\ ~portal /\ ~Cleared(failed)) /\ UNCHANGED server
        /\ refreshing' = [refreshing EXCEPT ![t] = @ /\ ~over]
        /\ request' = [d \in Calls |-> IF d \in failed THEN NoCall
                                       ELSE IF reload /\ d \in InTab(t) THEN Abandoned(request[d]) ELSE request[d]]
    BY <1>2 DEF SessionLost
  <2>2. screen' = screen \/ screen' = [screen EXCEPT ![t] = "form"]
    <3>1. screen' = [screen EXCEPT ![t] = IF reload /\ ~(persisted /\ ~portal /\ ~Cleared(failed)) THEN "form" ELSE @]
      BY <1>2 DEF SessionLost
    <3>2. screen \in [Tabs -> {"form", "app"}]
      BY <1>1 DEF TypeOK
    <3>3. CASE reload /\ ~(persisted /\ ~portal /\ ~Cleared(failed))
      BY <3>1, <3>3
    <3>4. CASE ~(reload /\ ~(persisted /\ ~portal /\ ~Cleared(failed)))
      <4>1. screen' = [screen EXCEPT ![t] = screen[t]]
        BY <3>1, <3>4
      <4> QED
        BY <3>2, <4>1
    <3> QED
      BY <3>3, <3>4
  <2> QED
    BY <2>1, <2>2
<1> HIDE DEF over, reload
<1>4. BrowserData
  BY <1>1, <1>3 DEF BrowserData, server, TypeOK, ServerTypeOK
<1>5. /\ request' = [d \in Calls |-> request'[d]]
      /\ \A d \in Calls : request'[d] \in {NoCall, Abandoned(request[d]), request[d]}
  BY <1>3
<1>6. TypeOK' /\ HandlersKnow' /\ LoginsAreNew'
  BY <1>1, <1>4, <1>5, AbandonedIsRight, BrowserTypes
<1>7. t \in Tabs /\ c \in InTab(t)
  BY <1>2 DEF TabInv, HandlersKnow, InTab
<1>8. \A d \in failed : d \in InTab(t)
  BY <1>2, <1>7 DEF SentAgain, Queue
<1>9. \A d \in Calls \ InTab(t) : request'[d] = request[d]
  BY <1>3, <1>8 DEF InTab
<1>10. CASE reload
  <2>1. refreshing' = [refreshing EXCEPT ![t] = FALSE]
    BY <1>3, <1>10 DEF over
  <2>2. ASSUME NEW d \in InTab(t)
        PROVE  ~Refreshes(request'[d]) /\ request'[d].at # "queued"
    <3>1. d \in Calls /\ request[d] \in CallType
      BY <1>1 DEF InTab
    <3>2. request'[d] = NoCall \/ request'[d] = Abandoned(request[d])
      BY <1>3, <1>10, <3>1
    <3> QED
      BY <3>1, <3>2, NoCallTyped, AbandonedTyped
  <2>3. QueuedIsAwaited'
    BY <1>1, <1>9, <2>1, <2>2, TabClears
  <2> QED
    BY <1>6, <2>3 DEF TabInv
<1>11. CASE ~reload /\ request[c].at = "refused"
  <2>1. failed = SentAgain(c) /\ c \in failed /\ ~request[c].gone
    BY <1>2, <1>11 DEF SentAgain
  <2>2. refreshing' = [refreshing EXCEPT ![t] = FALSE]
    BY <1>3, <1>11, <2>1 DEF over
  <2>3. Refreshes(request[c])
    BY <1>1, <1>11, <2>1 DEF Refreshes, Refreshing, LoginsAreNew
  <2>4. ASSUME NEW d \in InTab(t)
        PROVE  ~Refreshes(request'[d]) /\ request'[d].at # "queued"
    <3>1. CASE d \in failed
      <4>1. request'[d] = NoCall
        BY <1>3, <3>1 DEF InTab
      <4> QED
        BY <4>1, NoCallTyped
    <3>2. CASE d \notin failed
      <4>1. request'[d] = request[d]
        BY <1>3, <1>11, <3>2 DEF InTab
      <4>2. ~Refreshes(request[d]) /\ request[d].at # "queued"
        BY <1>7, <2>1, <2>3, <3>2, OneRefresher
      <4> QED
        BY <4>1, <4>2
    <3> QED
      BY <3>1, <3>2
  <2>5. QueuedIsAwaited'
    BY <1>1, <1>9, <2>2, <2>4, TabClears
  <2> QED
    BY <1>6, <2>5 DEF TabInv
<1>12. CASE ~reload /\ request[c].at = "unauthorized"
  <2>1. failed = {c}
    BY <1>2, <1>12
  <2>2. ~over
    BY <1>12, <2>1 DEF over
  <2>3. refreshing' = refreshing
    BY <1>1, <1>3, <1>7, <2>2
  <2>4. request' = [request EXCEPT ![c] = NoCall]
    BY <1>1, <1>3, <1>12, <2>1
  <2>5. ~Refreshes(request[c])
    BY <1>12 DEF Refreshes, Refreshing
  <2> QED
    BY <1>4, <2>3, <2>4, <2>5, EndKeepsTabs
<1> QED
  BY <1>2, <1>10, <1>11, <1>12

\* The calls that waited are sent again.
LEMMA OnRefreshedKeepsTabs ==
  ASSUME TabInv, NEW c \in Calls, OnRefreshed(c)
  PROVE  TabInv'
<1> DEFINE t == request[c].tab
           s == request[c].pair
<1>1. /\ TypeOK /\ HandlersKnow /\ LoginsAreNew /\ QueuedIsAwaited
      /\ request \in [Calls -> CallType] /\ refreshing \in [Tabs -> BOOLEAN]
      /\ s \in Issued \cup {Nothing} /\ Issued \subseteq Sessions
  BY CallTyped DEF TabInv, TypeOK, ServerTypeOK, PairsOf, Issued
<1>2. /\ request[c].at = "renewed" /\ request[c].kind # "login" /\ ~request[c].gone
      /\ stored' = s /\ UNCHANGED server /\ UNCHANGED <<persisted, screen>>
      /\ refreshing' = [refreshing EXCEPT ![t] = FALSE]
      /\ request' = [d \in Calls |-> IF d \in SentAgain(c) THEN Sent(request[d], s) ELSE request[d]]
  BY DEF OnRefreshed, Expects
<1> HIDE DEF s
<1>3. BrowserData
  BY <1>1, <1>2 DEF BrowserData, server, TypeOK, ServerTypeOK
<1>4. t \in Tabs /\ Refreshes(request[c])
  BY <1>2 DEF TabInv, HandlersKnow, Refreshes, Refreshing
<1>5. ASSUME NEW d \in SentAgain(c)
      PROVE  /\ d \in Calls /\ d \in InTab(t) /\ request'[d] = Sent(request[d], s)
             /\ request'[d] \in CallType /\ PairsOf(request'[d]) \subseteq Issued \cup {Nothing}
             /\ HandlerKnows(request'[d]) /\ request'[d].kind # "login"
             /\ request'[d].at = "sent" /\ ~Refreshes(request'[d])
  <2>1. d \in Calls /\ d \in InTab(t) /\ request[d].at \in {"renewed", "queued"}
    BY <1>2 DEF SentAgain, Queue, InTab
  <2>2. request'[d] = Sent(request[d], s)
    BY <1>2, <2>1
  <2>3. request[d].kind # "login"
    BY <1>1, <1>2, <2>1 DEF SentAgain, Queue, LoginsAreNew
  <2>4. request[d].tab \in Tabs /\ request[d] \in CallType /\ request[d].login \in Issued \cup {Nothing} /\ s \in Sessions \cup {Nothing}
    BY <1>1, <2>1, CallTyped DEF PairsOf, HandlersKnow
  <2> QED
    BY <1>1, <2>1, <2>2, <2>3, <2>4, SentTyped DEF PairsOf
<1>6. \A d \in Calls \ SentAgain(c) : request'[d] = request[d]
  BY <1>2
<1>7. request' = [d \in Calls |-> request'[d]]
  BY <1>2
<1>8. TypeOK' /\ HandlersKnow' /\ LoginsAreNew'
  <2>1. ASSUME NEW d \in Calls
        PROVE  /\ request'[d] \in CallType
               /\ PairsOf(request'[d]) \subseteq Issued \cup {Nothing}
               /\ HandlerKnows(request'[d])
               /\ request'[d].kind = "login" => request'[d].at \in {"renew", "cache", "renewed", "error"}
    <3>1. CASE d \in SentAgain(c)
      BY <1>5, <3>1
    <3>2. CASE d \notin SentAgain(c)
      BY <1>1, <1>6, <3>2, CallsAreRight
    <3> QED
      BY <3>1, <3>2
  <2> QED
    BY <1>1, <1>3, <1>7, <2>1, BrowserTypes
<1>9. \A d \in InTab(t) : ~Refreshes(request'[d]) /\ request'[d].at # "queued"
  BY <1>4, <1>5, <1>6, OneRefresher DEF InTab
<1>10. \A d \in Calls \ InTab(t) : request'[d] = request[d]
  BY <1>5, <1>6
<1>11. QueuedIsAwaited'
  BY <1>1, <1>2, <1>9, <1>10, TabClears
<1> QED
  BY <1>8, <1>11 DEF TabInv

\* The browser starts with no call under way.
LEMMA TabInvInitially ==
  ASSUME Init
  PROVE  TabInv
<1>1. request = [c \in Calls |-> NoCall] /\ \A c \in Calls : request[c] = NoCall
  BY DEF Init, ServerInit
<1>2. request \in [Calls -> CallType]
  BY <1>1, NoCallTyped
<1>3. TypeOK
  BY <1>1, <1>2, NoCallTyped, SessionsAssumption DEF Init, ServerInit, TypeOK, ServerTypeOK, SessionStatus, PairsOf
<1>4. HandlersKnow /\ LoginsAreNew
  BY <1>1, NoCallTyped DEF HandlersKnow, LoginsAreNew
<1>5. QueuedIsAwaited
  <2>1. \A t \in Tabs : RefreshersOf(t) = {}
    BY <1>1, NoCallTyped DEF RefreshersOf, InTab, Refreshes, Refreshing
  <2> QED
    BY <1>1, <2>1, NoCallTyped DEF Init, QueuedIsAwaited, InTab
<1> QED
  BY <1>3, <1>4, <1>5 DEF TabInv

\* What a tab does with the answers to its calls.
LEMMA ClientStepKeepsTabs ==
  ASSUME TabInv, NEW c \in Calls, ClientStep(c)
  PROVE  TabInv'
<1>1. CASE Wait(c)
  BY <1>1, WaitKeepsTabs
<1>2. CASE StartRefresh(c)
  BY <1>2, StartRefreshKeepsTabs
<1>3. CASE GiveUp(c) /\ request[c].retried
  BY <1>3, SettleKeepsTabs DEF GiveUp, Expects
<1>4. CASE (GiveUp(c) /\ ~request[c].retried) \/ GiveUpPortal(c) \/ OnRefused(c)
  BY <1>4, SessionLostKeepsTabs
<1>5. CASE OnRefreshed(c)
  BY <1>5, OnRefreshedKeepsTabs
<1>6. CASE OnSignedIn(c) \/ OnRetailerSignedIn(c) \/ OnProfile(c)
  BY <1>6, SignedInKeepsTabs
<1>7. CASE OnAnswer(c)
  BY <1>7, SettleKeepsTabs DEF OnAnswer, Expects
<1> QED
  BY <1>1, <1>2, <1>3, <1>4, <1>5, <1>6, <1>7 DEF ClientStep

\* Every step keeps it.
LEMMA TabInvKept ==
  ASSUME TabInv, [Next]_vars
  PROVE  TabInv'
<1>1. CASE ServerNext /\ UNCHANGED browser
  BY <1>1, ServerStepKeepsTabs, ElsewhereKeepsTabs DEF ServerNext
<1>2. ASSUME NEW c \in Calls, ClientStep(c)
      PROVE  TabInv'
  BY <1>2, ClientStepKeepsTabs
<1>3. ASSUME NEW t \in Tabs, NEW c \in Calls, Send(c, t, "page") \/ Send(c, t, "logout") \/ SignIn(c, t)
      PROVE  TabInv'
  BY <1>3, SendKeepsTabs, SignInKeepsTabs
<1>4. ASSUME NEW t \in Tabs, Visit(t)
      PROVE  TabInv'
  BY <1>4, VisitKeepsTabs
<1>5. CASE UNCHANGED vars
  BY <1>5 DEF vars, server, browser, TabInv, TypeOK, ServerTypeOK, Issued, HandlersKnow, LoginsAreNew,
              QueuedIsAwaited, RefreshersOf, InTab
<1> QED
  BY <1>1, <1>2, <1>3, <1>4, <1>5 DEF Next

\* For any number of tabs and calls: a tab refreshes its tokens once at a time
\* and no call of it is left waiting for a refresh that is over (client.ts).
THEOREM CallsAreAwaited == Spec => []QueuedIsAwaited
<1>1. Spec => []TabInv
  BY TabInvInitially, TabInvKept, PTL DEF Spec
<1>2. TabInv => QueuedIsAwaited
  BY DEF TabInv
<1> QED
  BY <1>1, <1>2, PTL

-----------------------------------------------------------------------------
(* Redis.                                                                  *)

\* What the browser may send: what it has, or what a call carries whose pair
\* is not on its way into Redis.
Loose ==
  {Nothing, stored} \cup UNION {PairsOf(request[e]) : e \in {x \in Calls : request[x].at # "cache"}}

Handling == {"cache", "forget", "forgetOld"}

\* A step that leaves those alone who write to Redis.
Undisturbed(d) ==
  IF request[d].at \in Handling
  THEN /\ request'[d].at = request[d].at /\ request'[d].token = request[d].token
       /\ request'[d].pair = request[d].pair /\ request'[d].login = request[d].login
  ELSE /\ request'[d].at \notin Handling
       /\ PairsOf(request'[d]) \subseteq Loose
       /\ request'[d].at = "fill" => request[d].at = "fill" \/ (~portal /\ mishaps # Mishaps)

\* What is secret nobody sends.
LEMMA SecretsAreNotLoose ==
  ASSUME TabInv, CacheInv, NEW c \in Calls, request[c].at = "cache"
  PROVE  request[c].pair \notin Loose
<1>1. IsSecret(c) /\ request[c].pair \in Sessions
  BY DEF CacheInv, TabInv, HandlersKnow
<1>2. request[c].pair # Nothing
  BY <1>1, SessionsAssumption
<1>3. \A e \in Calls : request[e].at # "cache" => request[c].pair \notin PairsOf(request[e])
  BY <1>1 DEF IsSecret, PairsOf
<1> QED
  BY <1>1, <1>2, <1>3 DEF Loose, IsSecret

\* Such a step keeps the invariant.
LEMMA UndisturbedKeepsCache ==
  ASSUME TabInv, CacheInv, \A d \in Calls : Undisturbed(d), stored' \in Loose,
         UNCHANGED <<portal, session, fresh, cached, ending>>, mishaps' = mishaps \/ Mishap
  PROVE  CacheInv'
<1>1. /\ mishaps \in Nat /\ Mishaps \in Nat /\ mishaps <= Mishaps
      /\ mishaps' <= Mishaps /\ (mishaps' = Mishaps => mishaps = Mishaps)
  BY SessionsAssumption DEF TabInv, TypeOK, ServerTypeOK, CacheInv, Mishap
<1>2. \A d \in Calls : request'[d].at \in Handling <=> request[d].at \in Handling
  BY DEF Undisturbed
<1>3. \A d \in Calls : request[d].at \in Handling =>
        /\ request'[d].at = request[d].at /\ request'[d].token = request[d].token
        /\ request'[d].pair = request[d].pair /\ request'[d].login = request[d].login
  BY DEF Undisturbed
<1>4. ASSUME NEW c \in Calls, request'[c].at = "cache"
      PROVE  IsSecret(c)'
  <2>1. request[c].at = "cache" /\ request[c].at \in Handling
    BY <1>2, <1>3, <1>4 DEF Handling
  <2>2. IsSecret(c) /\ request[c].pair \notin Loose
    BY <2>1, SecretsAreNotLoose DEF CacheInv
  <2>3. /\ request'[c].token = request[c].token
        /\ request'[c].pair = request[c].pair /\ request'[c].login = request[c].login
    BY <1>3, <2>1
  <2>4. ASSUME NEW d \in Calls \ {c}
        PROVE  request[c].pair \notin PairsOf(request'[d])
    <3>1. CASE request[d].at \in Handling
      BY <1>3, <2>2, <3>1 DEF IsSecret, PairsOf
    <3>2. CASE request[d].at \notin Handling
      BY <2>2, <3>2 DEF Undisturbed
    <3> QED
      BY <3>1, <3>2
  <2>5. stored' # request[c].pair
    BY <2>2
  <2> QED
    BY <2>2, <2>3, <2>4, <2>5 DEF IsSecret, PairsOf
<1>5. ForgetsRevoked'
  BY <1>2, <1>3 DEF CacheInv, ForgetsRevoked, Revoked, Handling
<1>6. PortalHasNoCache'
  <2> SUFFICES ASSUME portal'
      PROVE  cached' = {} /\ \A c \in Calls : request'[c].at \notin {"fill", "cache"}
    BY DEF PortalHasNoCache
  <2>1. portal /\ cached = {} /\ \A c \in Calls : request[c].at \notin {"fill", "cache"}
    BY DEF CacheInv, PortalHasNoCache
  <2> QED
    BY <1>2, <1>3, <2>1 DEF Undisturbed, Handling
<1>7. ASSUME mishaps' = Mishaps
      PROVE  NothingToFill' /\ \A s \in cached' : Revoked(s)' => BeingForgotten(s)'
  <2>1. mishaps = Mishaps /\ NothingToFill /\ \A s \in cached : Revoked(s) => BeingForgotten(s)
    BY <1>1, <1>7 DEF CacheInv, RevokedIsForgotten
  <2>2. \A s : BeingForgotten(s) => BeingForgotten(s)'
    BY <1>3 DEF BeingForgotten, Handling
  <2>3. \A s : BeingCached(s) => BeingCached(s)'
    BY <1>3 DEF BeingCached, Handling
  <2>4. \A c \in Calls : request'[c].at # "fill"
    <3> TAKE c \in Calls
    <3>1. request[c].at # "fill"
      BY <2>1 DEF NothingToFill
    <3> QED
      BY <1>3, <2>1, <3>1 DEF Undisturbed
  <2>5. \A c \in Calls : request'[c].at = "cache" => session'[request'[c].pair] = "live"
    BY <1>2, <1>3, <2>1 DEF NothingToFill, Readable, Handling
  <2>6. NothingToFill'
    BY <2>1, <2>3, <2>4, <2>5 DEF NothingToFill, Readable
  <2> QED
    BY <2>1, <2>2, <2>6 DEF Revoked
<1> QED
  BY <1>1, <1>4, <1>5, <1>6, <1>7 DEF CacheInv, RevokedIsForgotten

\* Once something has failed, less is promised.
LEMMA LateKeepsCache ==
  ASSUME mishaps' < Mishaps, mishaps' \in Nat, \A c \in Calls : request'[c].at = "cache" => IsSecret(c)',
         ForgetsRevoked', PortalHasNoCache'
  PROVE  CacheInv'
BY SessionsAssumption DEF CacheInv, RevokedIsForgotten

\* A handler that goes on carries nothing new.
LEMMA GotoCarries ==
  ASSUME TypeOK, NEW c \in Calls, NEW at \in AtServer \cup AtClient, Goto(c, at)
  PROVE  /\ request' = [request EXCEPT ![c] = request'[c]] /\ \A d \in Calls \ {c} : request'[d] = request[d]
         /\ PairsOf(request'[c]) \subseteq PairsOf(request[c]) \cup {Nothing}
         /\ request'[c].at \in {at, "idle"}
         /\ at \in AtServer => /\ request'[c].at = at /\ request'[c].token = request[c].token
                               /\ request'[c].pair = request[c].pair
<1> DEFINE p == request[c]
           q == After(p, at)
<1>1. p \in CallType /\ DOMAIN request = Calls
  BY CallTyped
<1>2. request' = [request EXCEPT ![c] = q] /\ request'[c] = q
  BY <1>1 DEF Goto
<1>3. CASE Ends(p, at)
  <2>1. q = NoCall /\ at \notin AtServer
    BY <1>3 DEF After, Ends, AtClient, AtServer
  <2> HIDE DEF q
  <2> QED
    BY <1>1, <1>2, <2>1, NoCallTyped
<1>4. CASE ~Ends(p, at)
  <2>1. q = [p EXCEPT !.at = at]
    BY <1>4 DEF After
  <2>2. q.at = at /\ q.token = p.token /\ q.pair = p.pair /\ q.login = p.login
    <3> HIDE DEF q, p
    <3> QED
      BY <1>1, <2>1 DEF CallType
  <2> HIDE DEF q
  <2> QED
    BY <1>1, <1>2, <2>2 DEF PairsOf
<1> QED
  BY <1>3, <1>4

\* Nor does it give away what is secret.
LEMMA SecretsStay ==
  ASSUME TabInv, CacheInv, NEW c \in Calls, stored' = stored,
         \A d \in Calls \ {c} : request'[d] = request[d],
         PairsOf(request'[c]) \subseteq PairsOf(request[c]) \cup {Nothing}, request'[c].at # "cache"
  PROVE  \A d \in Calls : request'[d].at = "cache" => IsSecret(d)'
<1> SUFFICES ASSUME NEW d \in Calls, request'[d].at = "cache"
    PROVE  IsSecret(d)'
  OBVIOUS
<1>1. d # c /\ request'[d] = request[d] /\ IsSecret(d) /\ request[d].pair \in Sessions
  BY DEF CacheInv, TabInv, HandlersKnow
<1>2. request[d].pair \notin PairsOf(request'[c])
  BY <1>1, SessionsAssumption DEF IsSecret, PairsOf
<1>3. \A e \in Calls \ {d} : request[d].pair \notin PairsOf(request'[e])
  BY <1>1, <1>2 DEF IsSecret, PairsOf
<1> QED
  BY <1>1, <1>3 DEF IsSecret, PairsOf

\* A call that does not write to Redis, before a step and after it.
LEMMA QuietKeepsCache ==
  ASSUME TabInv, CacheInv, UNCHANGED browser, UNCHANGED <<portal, session, fresh, cached, ending>>,
         mishaps' = mishaps \/ Mishap, NEW c \in Calls,
         \A d \in Calls \ {c} : request'[d] = request[d],
         PairsOf(request'[c]) \subseteq PairsOf(request[c]) \cup {Nothing},
         request[c].at \notin Handling, request'[c].at \notin Handling,
         request'[c].at = "fill" => ~portal /\ mishaps # Mishaps
  PROVE  CacheInv'
<1>1. ASSUME NEW d \in Calls
      PROVE  Undisturbed(d)
  <2>1. CASE d = c
    BY <2>1 DEF Undisturbed, Loose, Handling
  <2>2. CASE d # c
    BY <2>2 DEF Undisturbed, Loose, Handling
  <2> QED
    BY <2>1, <2>2
<1>2. stored' \in Loose
  BY DEF browser, Loose
<1> QED
  BY <1>1, <1>2, UndisturbedKeepsCache

\* While nothing fails Redis knows a session whose token is good: no strategy
\* has to ask the database.
LEMMA NothingIsMissed ==
  ASSUME TabInv, CacheInv, NEW c \in Calls, ~portal, mishaps = Mishaps, request[c].token \in fresh,
         request[c].token \notin cached, request[c].at # "cache"
  PROVE  ~Readable(request[c].token)
<1>1. SUFFICES ASSUME Readable(request[c].token)
      PROVE  FALSE
  OBVIOUS
<1>2. BeingCached(request[c].token)
  BY <1>1 DEF CacheInv, NothingToFill
<1>3. PICK d \in Calls : request[d].at = "cache" /\ request[d].pair = request[c].token
  BY <1>2 DEF BeingCached
<1> QED
  BY <1>3 DEF CacheInv, IsSecret

\* The strategies, and finding the session to refresh.
LEMMA AuthenticateKeepsCache ==
  ASSUME TabInv, CacheInv, UNCHANGED browser, NEW c \in Calls,
         Authenticate(c) \/ AuthenticateRetailer(c) \/ Match(c)
  PROVE  CacheInv'
<1>1. TypeOK /\ UNCHANGED server /\ request[c].at \in {"sent", "match"}
  BY DEF TabInv, Authenticate, AuthenticateRetailer, Match
<1>2. PICK at \in {"unauthorized", "serve", "ok", "fill", "rotate", "refused"} :
        /\ Goto(c, at)
        /\ at = "fill" => /\ ~portal /\ request[c].token \in fresh
                          /\ request[c].token \notin cached /\ Readable(request[c].token)
  BY DEF Authenticate, AuthenticateRetailer, Match, Pass
<1>3. at \in AtServer \cup AtClient
  BY <1>2 DEF AtServer, AtClient
<1>4. at = "fill" => mishaps # Mishaps
  BY <1>1, <1>2, NothingIsMissed
<1>5. /\ \A d \in Calls \ {c} : request'[d] = request[d]
      /\ PairsOf(request'[c]) \subseteq PairsOf(request[c]) \cup {Nothing}
      /\ request'[c].at \in {at, "idle"}
  BY <1>1, <1>2, <1>3, GotoCarries
<1>6. request[c].at \notin Handling /\ request'[c].at \notin Handling
  BY <1>1, <1>2, <1>5 DEF Handling
<1> QED
  BY <1>1, <1>2, <1>4, <1>5, <1>6, QuietKeepsCache DEF server

\* Filling happens only after something failed.
LEMMA FillKeepsCache ==
  ASSUME TabInv, CacheInv, UNCHANGED browser, NEW c \in Calls, Fill(c)
  PROVE  CacheInv'
<1>1. /\ TypeOK /\ request[c].at = "fill" /\ ~portal /\ mishaps \in Nat /\ Mishaps \in Nat
      /\ mishaps <= Mishaps /\ mishaps # Mishaps
  BY SessionsAssumption DEF Fill, TabInv, TypeOK, ServerTypeOK, CacheInv, PortalHasNoCache, NothingToFill
<1>2. mishaps' \in Nat /\ mishaps' < Mishaps
  BY <1>1 DEF Fill, Remember, Mishap
<1>3. PICK at \in {"unauthorized", "serve", "ok"} : Goto(c, at)
  BY DEF Fill, Pass
<1>4. at \in AtServer \cup AtClient
  BY <1>3 DEF AtServer, AtClient
<1>5. /\ \A d \in Calls \ {c} : request'[d] = request[d]
      /\ PairsOf(request'[c]) \subseteq PairsOf(request[c]) \cup {Nothing}
      /\ request'[c].at \in {at, "idle"}
  BY <1>1, <1>3, <1>4, GotoCarries
<1>6. request'[c].at \notin {"cache", "forget", "forgetOld"}
  BY <1>3, <1>5
<1>7. \A d \in Calls : request'[d].at = "cache" => IsSecret(d)'
  BY <1>5, <1>6, SecretsStay DEF browser
<1>8. ForgetsRevoked'
  BY <1>5, <1>6 DEF CacheInv, ForgetsRevoked, Fill, Revoked
<1>9. PortalHasNoCache'
  BY <1>1 DEF Fill, PortalHasNoCache
<1> QED
  BY <1>2, <1>7, <1>8, <1>9, LateKeepsCache

\* Revoking a session: the handler that does forgets it next.
LEMMA RevokeKeepsCache ==
  ASSUME TabInv, CacheInv, UNCHANGED browser, NEW c \in Calls,
         RevokeOne(c) \/ RevokeRetailer(c) \/ Rotate(c)
  PROVE  CacheInv'
<1>1. /\ TypeOK /\ request[c].at \in {"serve", "rotate"} /\ session \in [Sessions -> SessionStatus]
      /\ UNCHANGED <<portal, fresh, cached, ending, mishaps>>
  BY DEF TabInv, TypeOK, ServerTypeOK, RevokeOne, RevokeRetailer, Rotate
<1>2. PICK x \in PairsOf(request[c]) : \E at \in {"forget", "ok", "forgetOld"}, why \in {"ended", "rotated"} :
        /\ x \in Sessions /\ session' = [session EXCEPT ![x] = why] /\ Goto(c, at)
        /\ at = "forget" => x = request[c].token
        /\ at = "forgetOld" => x = request[c].pair
        /\ at = "ok" => portal
  BY DEF RevokeOne, RevokeRetailer, Rotate, PairsOf, TabInv, HandlersKnow
<1>3. PICK at \in {"forget", "ok", "forgetOld"}, why \in {"ended", "rotated"} :
        /\ x \in Sessions /\ session' = [session EXCEPT ![x] = why] /\ Goto(c, at)
        /\ at = "forget" => x = request[c].token
        /\ at = "forgetOld" => x = request[c].pair
        /\ at = "ok" => portal
  BY <1>2
<1>4. at \in AtServer \cup AtClient /\ (at # "ok" => at \in AtServer)
  BY <1>3 DEF AtServer, AtClient
<1>5. /\ \A d \in Calls \ {c} : request'[d] = request[d]
      /\ PairsOf(request'[c]) \subseteq PairsOf(request[c]) \cup {Nothing}
      /\ request'[c].at \in {at, "idle"}
      /\ at # "ok" => /\ request'[c].at = at /\ request'[c].token = request[c].token
                      /\ request'[c].pair = request[c].pair
  BY <1>1, <1>3, <1>4, GotoCarries
<1>6. request'[c].at \notin {"cache", "fill"}
  BY <1>3, <1>5
<1>7. \A d \in Calls : request'[d].at = "cache" => IsSecret(d)'
  BY <1>5, <1>6, SecretsStay DEF browser
<1>8. /\ session'[x] = why /\ \A s : s # x => session'[s] = session[s] \/ s \notin Sessions
      /\ \A s \in Sessions : Revoked(s) => session'[s] \in {"rotated", "ended"}
  BY <1>1, <1>3 DEF Revoked
<1>9. ForgetsRevoked'
  <2> SUFFICES ASSUME NEW d \in Calls
      PROVE  /\ request'[d].at = "forget" => session'[request'[d].token] \in {"rotated", "ended"}
             /\ request'[d].at = "forgetOld" => session'[request'[d].pair] \in {"rotated", "ended"}
    BY DEF ForgetsRevoked, Revoked
  <2>1. CASE d = c
    BY <1>3, <1>5, <1>8, <2>1
  <2>2. CASE d # c
    BY <1>5, <1>8, <2>2 DEF CacheInv, ForgetsRevoked, TabInv, HandlersKnow
  <2> QED
    BY <2>1, <2>2
<1>10. PortalHasNoCache'
  BY <1>1, <1>5, <1>6 DEF CacheInv, PortalHasNoCache
<1>11. ASSUME mishaps = Mishaps
       PROVE  NothingToFill'
  <2>1. NothingToFill
    BY <1>11 DEF CacheInv
  <2>2. ASSUME NEW d \in Calls, request'[d].at = "cache"
        PROVE  session'[request'[d].pair] = "live"
    <3>1. d # c /\ request'[d] = request[d]
      BY <1>5, <1>6, <2>2
    <3>2. request[d].pair # x /\ request[d].pair \in Sessions /\ session[request[d].pair] = "live"
      BY <1>2, <2>1, <2>2, <3>1 DEF CacheInv, IsSecret, PairsOf, NothingToFill, Readable, TabInv, HandlersKnow
    <3> QED
      BY <1>8, <3>1, <3>2
  <2>3. ASSUME ~portal, NEW s \in fresh, session'[s] = "live"
        PROVE  s \in cached \/ \E d \in Calls : request'[d].at = "cache" /\ request'[d].pair = s
    <3>1. s \in Sessions /\ session[s] = "live"
      BY <1>1, <1>3, <1>8, <2>3 DEF TypeOK, ServerTypeOK
    <3>2. s \in cached \/ BeingCached(s)
      BY <2>1, <2>3, <3>1 DEF NothingToFill, Readable
    <3> QED
      BY <1>1, <1>5, <3>2 DEF BeingCached
  <2> QED
    BY <1>1, <1>5, <1>6, <2>1, <2>2, <2>3 DEF NothingToFill, Readable, BeingCached
<1>12. ASSUME mishaps = Mishaps, NEW s \in cached, session'[s] \in {"rotated", "ended"}
       PROVE  \E d \in Calls : \/ request'[d].at = "forget" /\ request'[d].token = s
                               \/ request'[d].at = "forgetOld" /\ request'[d].pair = s
  <2>1. CASE s = x
    <3>1. at # "ok"
      BY <1>3 DEF CacheInv, PortalHasNoCache
    <3> QED
      BY <1>3, <1>5, <2>1, <3>1
  <2>2. CASE s # x
    <3>1. s \in Sessions
      BY <1>1 DEF TypeOK, ServerTypeOK
    <3>2. BeingForgotten(s)
      BY <1>8, <1>12, <2>2, <3>1 DEF CacheInv, RevokedIsForgotten, Revoked
    <3> QED
      BY <1>1, <1>5, <3>2 DEF BeingForgotten
  <2> QED
    BY <2>1, <2>2
<1> QED
  BY <1>1, <1>7, <1>9, <1>10, <1>11, <1>12 DEF CacheInv, RevokedIsForgotten, Revoked, BeingForgotten

\* Forgetting a session: it was revoked, so no live one leaves Redis.
LEMMA ForgetKeepsCache ==
  ASSUME TabInv, CacheInv, UNCHANGED browser, NEW c \in Calls, Forget(c) \/ ForgetOld(c)
  PROVE  CacheInv'
<1>1. /\ TypeOK /\ request[c].at \in {"forget", "forgetOld"} /\ mishaps \in Nat /\ Mishaps \in Nat
      /\ mishaps <= Mishaps /\ UNCHANGED <<portal, session, fresh, ending>> /\ cached' \subseteq cached
      /\ mishaps' = mishaps \/ Mishap
  BY SessionsAssumption DEF TabInv, TypeOK, ServerTypeOK, CacheInv, Forget, ForgetOld, ForgetOne
<1>2. PICK at \in {"ok", "renew"} : Goto(c, at)
  BY DEF Forget, ForgetOld
<1>3. at \in AtServer \cup AtClient
  BY <1>2 DEF AtServer, AtClient
<1>4. /\ \A d \in Calls \ {c} : request'[d] = request[d]
      /\ PairsOf(request'[c]) \subseteq PairsOf(request[c]) \cup {Nothing}
      /\ request'[c].at \in {at, "idle"}
  BY <1>1, <1>2, <1>3, GotoCarries
<1>5. request'[c].at \notin {"cache", "forget", "forgetOld", "fill"}
  BY <1>2, <1>4
<1>6. \A d \in Calls : request'[d].at = "cache" => IsSecret(d)'
  BY <1>4, <1>5, SecretsStay DEF browser
<1>7. ForgetsRevoked'
  BY <1>1, <1>4, <1>5 DEF CacheInv, ForgetsRevoked, Revoked
<1>8. PortalHasNoCache'
  BY <1>1, <1>4, <1>5 DEF CacheInv, PortalHasNoCache
<1>9. CASE mishaps' # mishaps
  <2>1. mishaps' \in Nat /\ mishaps' < Mishaps
    BY <1>1, <1>9 DEF Mishap
  <2> QED
    BY <1>6, <1>7, <1>8, <2>1, LateKeepsCache
<1>10. CASE mishaps' = mishaps
  <2> DEFINE x == IF request[c].at = "forget" THEN request[c].token ELSE request[c].pair
  <2>1. cached' = cached \ {x} /\ session[x] \in {"rotated", "ended"}
    <3>1. ~Mishap
      BY <1>1, <1>10 DEF Mishap
    <3> QED
      BY <3>1 DEF Forget, ForgetOld, ForgetOne, CacheInv, ForgetsRevoked, Revoked
  <2>2. \A s : BeingForgotten(s) /\ s # x =>
          \E d \in Calls : \/ request'[d].at = "forget" /\ request'[d].token = s
                           \/ request'[d].at = "forgetOld" /\ request'[d].pair = s
    BY <1>1, <1>4 DEF BeingForgotten
  <2> HIDE DEF x
  <2>3. ASSUME mishaps = Mishaps
        PROVE  NothingToFill'
    <3>1. NothingToFill
      BY <2>3 DEF CacheInv
    <3>2. \A d \in Calls : request'[d].at \in {"cache", "fill"} => request'[d] = request[d]
      BY <1>4, <1>5
    <3>3. \A s : BeingCached(s) => \E d \in Calls : request'[d].at = "cache" /\ request'[d].pair = s
      BY <1>1, <1>4 DEF BeingCached
    <3>4. \A s \in fresh : session[s] = "live" => s # x
      BY <2>1
    <3> QED
      BY <1>1, <2>1, <3>1, <3>2, <3>3, <3>4 DEF NothingToFill, Readable, BeingCached
  <2>4. ASSUME mishaps = Mishaps, NEW s \in cached', session'[s] \in {"rotated", "ended"}
        PROVE  \E d \in Calls : \/ request'[d].at = "forget" /\ request'[d].token = s
                                \/ request'[d].at = "forgetOld" /\ request'[d].pair = s
    <3>1. s \in cached /\ s # x /\ BeingForgotten(s)
      BY <1>1, <2>1, <2>4 DEF CacheInv, RevokedIsForgotten, Revoked
    <3> QED
      BY <2>2, <3>1
  <2> QED
    BY <1>1, <1>6, <1>7, <1>8, <1>10, <2>3, <2>4 DEF CacheInv, RevokedIsForgotten, Revoked, BeingForgotten
<1> QED
  BY <1>9, <1>10

\* A new session: nobody has heard of it, and it is put into Redis next.
LEMMA CreatedKeepsCache ==
  ASSUME TabInv, CacheInv, UNCHANGED browser, NEW c \in Calls, Renew(c) \/ RenewRetailer(c)
  PROVE  CacheInv'
<1> DEFINE s == NewSession
           p == request[c]
           q == request'[c]
<1>1. /\ TypeOK /\ HandlersKnow /\ request[c].at = "renew" /\ session \in [Sessions -> SessionStatus]
      /\ fresh \subseteq Sessions /\ cached \subseteq Sessions /\ stored \in Issued \cup {Nothing}
      /\ PairsOf(p) \subseteq Issued \cup {Nothing} /\ DOMAIN request = Calls
  BY CallTyped DEF TabInv, TypeOK, ServerTypeOK, Renew, RenewRetailer, Created
<1>2. /\ s \in Sessions /\ s \notin Issued /\ s # Nothing /\ session[s] = "none"
      /\ session' = [session EXCEPT ![s] = "live"] /\ fresh' = fresh \cup {s}
      /\ UNCHANGED <<portal, cached, ending, mishaps>>
      /\ request' = [request EXCEPT ![c] = q]
      /\ \/ q = NoCall /\ p.gone
         \/ /\ q.at = IF portal THEN "renewed" ELSE "cache"
            /\ q.pair = s /\ q.token = p.token /\ q.login = p.login
  BY <1>1, CreatedServes, SessionsAssumption DEF ServesCall, Issued
<1>3. ~portal => q.at = "cache" /\ q.pair = s
  <2>1. ASSUME ~portal
        PROVE  q.at = "cache"
    <3>1. Created(c, "cache") /\ "cache" \in AtServer /\ "cache" \notin AtClient
      BY <2>1 DEF Renew, RenewRetailer, AtServer, AtClient
    <3>2. q = After([p EXCEPT !.pair = s], "cache")
      BY <1>1, <3>1 DEF Created, NewSession
    <3>3. q = [[p EXCEPT !.pair = s] EXCEPT !.at = "cache"]
      BY <3>1, <3>2 DEF After, Ends
    <3> QED
      BY <1>1, <3>3, CallTyped DEF CallType
  <2> QED
    BY <1>2, <2>1, NoCallTyped
<1> HIDE DEF s, q, p
<1>4. \A d \in Calls \ {c} : request'[d] = request[d]
  BY <1>1, <1>2
<1>5. request'[c] = q /\ PairsOf(q) \subseteq PairsOf(p) \cup {s, Nothing}
  BY <1>2, NoCallTyped DEF q, PairsOf
<1>6. \A d \in Calls : s \notin PairsOf(request[d])
  BY <1>1, <1>2, CallTyped
<1>7. ASSUME NEW d \in Calls, request'[d].at = "cache"
      PROVE  IsSecret(d)'
  <2>1. CASE d = c
    <3>1. q.pair = s /\ q.token = p.token /\ q.login = p.login /\ stored' = stored
      BY <1>2, <1>5, <1>7, <2>1, NoCallTyped DEF browser
    <3>2. p.token # s /\ p.login # s /\ stored # s
      BY <1>1, <1>2, <1>6 DEF PairsOf, p
    <3>3. \A e \in Calls \ {c} : s \notin PairsOf(request'[e])
      BY <1>4, <1>6
    <3> QED
      BY <1>5, <2>1, <3>1, <3>2, <3>3 DEF IsSecret, PairsOf
  <2>2. CASE d # c
    <3>1. request'[d] = request[d] /\ IsSecret(d) /\ request[d].pair \in Sessions
      BY <1>1, <1>4, <1>7, <2>2 DEF CacheInv, HandlersKnow
    <3>2. request[d].pair # s /\ request[d].pair # Nothing
      BY <1>6, <3>1, SessionsAssumption DEF PairsOf
    <3>3. request[d].pair \notin PairsOf(q)
      BY <1>5, <2>2, <3>1, <3>2 DEF IsSecret, PairsOf, p
    <3>4. \A e \in Calls \ {d} : request[d].pair \notin PairsOf(request'[e])
      BY <1>4, <1>5, <3>1, <3>3 DEF IsSecret, PairsOf
    <3> QED
      BY <3>1, <3>4 DEF IsSecret, PairsOf, browser
  <2> QED
    BY <2>1, <2>2
<1>8. q.at \in {"cache", "renewed", "idle"} /\ (portal => q.at # "cache")
  BY <1>2, NoCallTyped
<1>9. \A r \in Sessions : (Revoked(r) <=> session'[r] \in {"rotated", "ended"}) /\ (r # s => session'[r] = session[r])
  BY <1>1, <1>2 DEF Revoked
<1>10. ForgetsRevoked'
  <2> SUFFICES ASSUME NEW d \in Calls
      PROVE  /\ request'[d].at = "forget" => session'[request'[d].token] \in {"rotated", "ended"}
             /\ request'[d].at = "forgetOld" => session'[request'[d].pair] \in {"rotated", "ended"}
    BY DEF ForgetsRevoked, Revoked
  <2>1. CASE d = c
    BY <1>5, <1>8, <2>1
  <2>2. CASE d # c
    BY <1>1, <1>4, <1>9, <2>2 DEF CacheInv, ForgetsRevoked, HandlersKnow
  <2> QED
    BY <2>1, <2>2
<1>11. PortalHasNoCache'
  BY <1>2, <1>4, <1>5, <1>8 DEF CacheInv, PortalHasNoCache
<1>12. ASSUME mishaps = Mishaps
       PROVE  NothingToFill'
  <2>1. NothingToFill
    BY <1>12 DEF CacheInv
  <2>2. ASSUME NEW d \in Calls, request'[d].at = "cache"
        PROVE  session'[request'[d].pair] = "live"
    <3>1. CASE d = c
      BY <1>1, <1>2, <1>5, <2>2, <3>1, NoCallTyped
    <3>2. CASE d # c
      <4>1. request'[d] = request[d] /\ session[request[d].pair] = "live" /\ request[d].pair # s
        BY <1>4, <1>6, <2>1, <2>2, <3>2 DEF NothingToFill, Readable, PairsOf
      <4> QED
        BY <1>1, <1>9, <2>2, <4>1 DEF HandlersKnow
    <3> QED
      BY <3>1, <3>2
  <2>3. ASSUME ~portal, NEW r \in fresh', session'[r] = "live"
        PROVE  r \in cached \/ \E d \in Calls : request'[d].at = "cache" /\ request'[d].pair = r
    <3>1. CASE r = s
      BY <1>3, <1>5, <2>3, <3>1
    <3>2. CASE r # s
      <4>1. r \in fresh /\ session[r] = "live"
        BY <1>1, <1>2, <1>9, <2>3, <3>2
      <4>2. r \in cached \/ BeingCached(r)
        BY <2>1, <2>3, <4>1 DEF NothingToFill, Readable
      <4> QED
        BY <1>1, <1>4, <4>2 DEF BeingCached
    <3> QED
      BY <3>1, <3>2
  <2>4. \A d \in Calls : request'[d].at # "fill"
    BY <1>4, <1>5, <1>8, <2>1 DEF NothingToFill
  <2> QED
    BY <1>2, <2>1, <2>2, <2>3, <2>4 DEF NothingToFill, Readable, BeingCached
<1>13. ASSUME mishaps = Mishaps, NEW r \in cached, session'[r] \in {"rotated", "ended"}
       PROVE  \E d \in Calls : \/ request'[d].at = "forget" /\ request'[d].token = r
                               \/ request'[d].at = "forgetOld" /\ request'[d].pair = r
  <2>1. BeingForgotten(r)
    BY <1>1, <1>9, <1>13 DEF CacheInv, RevokedIsForgotten
  <2> QED
    BY <1>1, <1>4, <2>1 DEF BeingForgotten
<1> QED
  BY <1>2, <1>7, <1>10, <1>11, <1>12, <1>13 DEF CacheInv, RevokedIsForgotten, Revoked, BeingForgotten

\* The new session is in Redis, while it is live.
LEMMA CacheNewKeepsCache ==
  ASSUME TabInv, CacheInv, UNCHANGED browser, NEW c \in Calls, CacheNew(c)
  PROVE  CacheInv'
<1> DEFINE s == request[c].pair
<1>1. /\ TypeOK /\ request[c].at = "cache" /\ mishaps \in Nat /\ Mishaps \in Nat /\ ~portal
      /\ mishaps <= Mishaps /\ UNCHANGED <<portal, session, fresh, ending>>
      /\ Goto(c, "renewed") /\ "renewed" \in AtServer \cup AtClient /\ s \in Sessions
      /\ \/ cached' = cached \cup {s} /\ UNCHANGED mishaps
         \/ Mishap /\ UNCHANGED cached
  BY SessionsAssumption DEF TabInv, TypeOK, ServerTypeOK, HandlersKnow, CacheInv, PortalHasNoCache,
     CacheNew, Remember, AtClient
<1> HIDE DEF s
<1>2. /\ \A d \in Calls \ {c} : request'[d] = request[d]
      /\ PairsOf(request'[c]) \subseteq PairsOf(request[c]) \cup {Nothing}
      /\ request'[c].at \in {"renewed", "idle"}
  BY <1>1, GotoCarries
<1>3. request'[c].at \notin {"cache", "forget", "forgetOld", "fill"}
  BY <1>2
<1>4. \A d \in Calls : request'[d].at = "cache" => IsSecret(d)'
  BY <1>2, <1>3, SecretsStay DEF browser
<1>5. ForgetsRevoked'
  BY <1>1, <1>2, <1>3 DEF CacheInv, ForgetsRevoked, Revoked
<1>6. PortalHasNoCache'
  BY <1>1 DEF PortalHasNoCache
<1>7. CASE Mishap
  <2>1. mishaps' \in Nat /\ mishaps' < Mishaps
    BY <1>1, <1>7 DEF Mishap
  <2> QED
    BY <1>4, <1>5, <1>6, <2>1, LateKeepsCache
<1>8. CASE ~Mishap
  <2>1. cached' = cached \cup {s} /\ mishaps' = mishaps
    BY <1>1, <1>8
  <2>2. ASSUME mishaps = Mishaps
        PROVE  NothingToFill'
    <3>1. NothingToFill
      BY <2>2 DEF CacheInv
    <3>2. \A d \in Calls : request'[d].at \in {"cache", "fill"} => request'[d] = request[d]
      BY <1>2, <1>3
    <3>3. \A r : BeingCached(r) => r = s \/ \E d \in Calls : request'[d].at = "cache" /\ request'[d].pair = r
      BY <1>2 DEF BeingCached, s
    <3> QED
      BY <1>1, <2>1, <3>1, <3>2, <3>3 DEF NothingToFill, Readable, BeingCached
  <2>3. ASSUME mishaps = Mishaps, NEW r \in cached', session'[r] \in {"rotated", "ended"}
        PROVE  \E d \in Calls : \/ request'[d].at = "forget" /\ request'[d].token = r
                                \/ request'[d].at = "forgetOld" /\ request'[d].pair = r
    <3>1. session[s] = "live"
      BY <1>1, <2>3 DEF CacheInv, NothingToFill, Readable, s
    <3>2. r \in cached /\ BeingForgotten(r)
      BY <1>1, <2>1, <2>3, <3>1 DEF CacheInv, RevokedIsForgotten, Revoked
    <3> QED
      BY <1>1, <1>2, <3>2 DEF BeingForgotten
  <2> QED
    BY <1>1, <1>4, <1>5, <1>6, <2>1, <2>2, <2>3 DEF CacheInv, RevokedIsForgotten, Revoked, BeingForgotten
<1> QED
  BY <1>7, <1>8

\* A call that ends without an answer.
LEMMA BreakKeepsCache ==
  ASSUME TabInv, CacheInv, UNCHANGED browser, NEW c \in Calls, Break(c)
  PROVE  CacheInv'
<1>1. /\ TypeOK /\ mishaps \in Nat /\ Mishaps \in Nat /\ mishaps <= Mishaps
      /\ UNCHANGED <<portal, session, fresh, cached, ending>>
      /\ Mishap \/ (request[c].at = "renew" /\ UNCHANGED mishaps)
  BY SessionsAssumption DEF TabInv, TypeOK, ServerTypeOK, CacheInv, Break
<1>2. PICK at \in {"refused", "error"} : Goto(c, at)
  BY DEF Break
<1>3. at \in AtServer \cup AtClient
  BY <1>2 DEF AtServer, AtClient
<1>4. /\ \A d \in Calls \ {c} : request'[d] = request[d]
      /\ PairsOf(request'[c]) \subseteq PairsOf(request[c]) \cup {Nothing}
      /\ request'[c].at \in {at, "idle"}
  BY <1>1, <1>2, <1>3, GotoCarries
<1>5. request'[c].at \notin {"cache", "forget", "forgetOld", "fill"}
  BY <1>2, <1>4
<1>6. CASE Mishap
  <2>1. mishaps' \in Nat /\ mishaps' < Mishaps
    BY <1>1, <1>6 DEF Mishap
  <2>2. \A d \in Calls : request'[d].at = "cache" => IsSecret(d)'
    BY <1>4, <1>5, SecretsStay DEF browser
  <2>3. ForgetsRevoked'
    BY <1>1, <1>4, <1>5 DEF CacheInv, ForgetsRevoked, Revoked
  <2>4. PortalHasNoCache'
    BY <1>1, <1>4, <1>5 DEF CacheInv, PortalHasNoCache
  <2> QED
    BY <2>1, <2>2, <2>3, <2>4, LateKeepsCache
<1>7. CASE request[c].at = "renew" /\ UNCHANGED mishaps
  BY <1>1, <1>4, <1>5, <1>7, QuietKeepsCache DEF Handling
<1> QED
  BY <1>1, <1>6, <1>7

\* Time, a suspended user, a logout of all devices.
LEMMA ElsewhereKeepsCache ==
  ASSUME TabInv, CacheInv, UNCHANGED browser,
         \/ ListAll \/ RevokeAll \/ ForgetListed \/ Suspend
         \/ \E s \in Sessions : AccessExpires(s) \/ RefreshLapses(s) \/ CacheExpires(s)
  PROVE  CacheInv'
<1>1. /\ TypeOK /\ mishaps \in Nat /\ Mishaps \in Nat /\ mishaps <= Mishaps
      /\ session \in [Sessions -> SessionStatus]
  BY SessionsAssumption DEF TabInv, TypeOK, ServerTypeOK, CacheInv
<1>2. request' = request /\ portal' = portal /\ cached' \subseteq cached /\ stored' = stored
  BY DEF browser, ListAll, RevokeAll, ForgetListed, Suspend, AccessExpires, RefreshLapses, CacheExpires
<1>3. \A c \in Calls : request'[c].at = "cache" => IsSecret(c)'
  BY <1>2 DEF CacheInv, IsSecret
<1>4. \A s \in Sessions : Revoked(s) => session'[s] = session[s]
  BY <1>1 DEF Revoked, ListAll, RevokeAll, ForgetListed, Suspend, AccessExpires, RefreshLapses, CacheExpires, LiveOnes
<1>5. ForgetsRevoked'
  BY <1>2, <1>4 DEF CacheInv, ForgetsRevoked, TabInv, HandlersKnow, Revoked
<1>6. PortalHasNoCache'
  BY <1>2 DEF CacheInv, PortalHasNoCache
<1>7. CASE mishaps' # Mishaps
  <2>1. mishaps' \in Nat /\ mishaps' < Mishaps
    <3>1. mishaps' = mishaps \/ Mishap
      BY DEF ListAll, RevokeAll, ForgetListed, Suspend, AccessExpires, RefreshLapses, CacheExpires
    <3> QED
      BY <1>1, <1>7, <3>1 DEF Mishap
  <2> QED
    BY <1>3, <1>5, <1>6, <2>1, LateKeepsCache
<1>8. CASE mishaps' = Mishaps
  <2>1. ~Mishap
    BY <1>1, <1>8 DEF Mishap
  <2>2. /\ mishaps = Mishaps /\ session' = session /\ ending' = ending /\ fresh' \subseteq fresh
        /\ \A s \in cached \ cached' : s \notin fresh
    <3>1. CASE \E s \in Sessions : AccessExpires(s) \/ CacheExpires(s)
      BY <1>8, <3>1 DEF AccessExpires, CacheExpires
    <3>2. CASE RevokeAll \/ ForgetListed
      <4>1. mishaps = Mishaps /\ ending.at # "idle"
        BY <1>8, <2>1, <3>2 DEF RevokeAll, ForgetListed
      <4> QED
        BY <4>1 DEF CacheInv, NothingToFill
    <3>3. CASE ListAll \/ Suspend \/ \E s \in Sessions : RefreshLapses(s)
      BY <2>1, <3>3 DEF ListAll, Suspend, RefreshLapses
    <3> QED
      BY <3>1, <3>2, <3>3
  <2>3. NothingToFill'
    <3>1. NothingToFill
      BY <2>2 DEF CacheInv
    <3> QED
      BY <1>2, <2>2, <3>1 DEF NothingToFill, Readable, BeingCached
  <2>4. RevokedIsForgotten'
    BY <1>2, <2>2 DEF CacheInv, RevokedIsForgotten, Revoked, BeingForgotten
  <2> QED
    BY <1>1, <1>3, <1>5, <1>6, <1>8, <2>3, <2>4 DEF CacheInv
<1> QED
  BY <1>7, <1>8

\* What a call carries that is not at a handler may be sent.
LEMMA CarriedIsLoose ==
  ASSUME NEW c \in Calls, request[c].at # "cache"
  PROVE  PairsOf(request[c]) \subseteq Loose
BY DEF Loose

\* A call that is left as it was, ended, or abandoned.
LEMMA LeftUndisturbed ==
  ASSUME TypeOK, NEW d \in Calls,
         \/ request'[d] \in {request[d], Abandoned(request[d])}
         \/ request'[d] = NoCall /\ request[d].at \notin Handling
  PROVE  Undisturbed(d)
<1>1. request[d] \in CallType /\ "idle" \notin Handling /\ "sent" \notin Handling /\ Handling \subseteq AtServer
  BY CallTyped DEF Handling, AtServer
<1>2. request[d].at \notin Handling => PairsOf(request[d]) \subseteq Loose
  BY CarriedIsLoose DEF Handling
<1>3. CASE request'[d] = request[d]
  BY <1>2, <1>3 DEF Undisturbed
<1>4. CASE request'[d] = NoCall /\ request[d].at \notin Handling
  BY <1>1, <1>4, NoCallTyped DEF Undisturbed, Loose
<1>5. CASE request'[d] = Abandoned(request[d]) /\ request'[d] # NoCall
  <2>1. /\ request'[d].at = request[d].at /\ request'[d].token = request[d].token
        /\ request'[d].pair = request[d].pair /\ request'[d].login = request[d].login
    BY <1>1, <1>5, AbandonedTyped
  <2> QED
    BY <1>2, <2>1 DEF Undisturbed, PairsOf
<1>6. CASE request'[d] = Abandoned(request[d]) /\ request'[d] = NoCall
  <2>1. request[d].at \notin Handling
    <3>1. NoCall.at = "idle" /\ "idle" \notin AtServer
      BY NoCallTyped DEF AtServer
    <3>2. request[d].at \notin AtServer \ {"sent"}
      BY <1>1, <1>6, <3>1, AbandonedTyped
    <3> QED
      BY <1>1, <3>2
  <2> QED
    BY <1>1, <1>6, <2>1, NoCallTyped DEF Undisturbed, Loose
<1> QED
  BY <1>3, <1>4, <1>5, <1>6

\* The browser sends, ends or repeats one call.
LEMMA OneCallKeepsCache ==
  ASSUME TabInv, CacheInv, UNCHANGED server, stored' \in Loose, NEW c \in Calls,
         \A d \in Calls \ {c} : request'[d] = request[d],
         request[c].at \notin Handling, request'[c].at \notin Handling \cup {"fill"},
         PairsOf(request'[c]) \subseteq Loose
  PROVE  CacheInv'
<1>1. ASSUME NEW d \in Calls
      PROVE  Undisturbed(d)
  <2>1. CASE d = c
    BY <2>1 DEF Undisturbed
  <2>2. CASE d # c
    BY <2>2, LeftUndisturbed DEF TabInv
  <2> QED
    BY <2>1, <2>2
<1> QED
  BY <1>1, UndisturbedKeepsCache DEF server

\* A user at a page or at the login form.
LEMMA SendKeepsCache ==
  ASSUME TabInv, CacheInv, NEW c \in Calls, NEW t \in Tabs,
         Send(c, t, "page") \/ Send(c, t, "logout") \/ SignIn(c, t)
  PROVE  CacheInv'
<1>1. /\ request \in [Calls -> CallType] /\ stored \in Sessions \cup {Nothing}
      /\ request[c].at = "idle" /\ UNCHANGED server /\ UNCHANGED browser
  BY DEF TabInv, TypeOK, ServerTypeOK, Issued, Send, SignIn
<1>2. PICK q : /\ request' = [request EXCEPT ![c] = q]
               /\ q.at \in {"sent", "renew"} /\ PairsOf(q) \subseteq {stored, Nothing}
  <2>1. CASE SignIn(c, t)
    <3> DEFINE q == [Starting(t, "login") EXCEPT !.at = "renew"]
    <3>1. "login" \in CallKinds
      BY DEF CallKinds
    <3>2. q.at = "renew" /\ PairsOf(q) = {Nothing}
      BY <3>1, StartingTyped DEF CallType, PairsOf
    <3>3. request' = [request EXCEPT ![c] = q]
      BY <2>1 DEF SignIn
    <3> QED
      BY <3>2, <3>3
  <2>2. ASSUME NEW k \in {"page", "logout"}, Send(c, t, k)
        PROVE  \E q : /\ request' = [request EXCEPT ![c] = q]
                      /\ q.at \in {"sent", "renew"} /\ PairsOf(q) \subseteq {stored, Nothing}
    <3>1. PICK p \in CallType : p = Starting(t, k) /\ p.tab = t /\ PairsOf(p) = {Nothing}
      BY StartingTyped DEF CallKinds
    <3>2. p.login = Nothing
      BY <3>1 DEF PairsOf
    <3>3. Sent(p, stored).at = "sent" /\ PairsOf(Sent(p, stored)) \subseteq {stored, Nothing}
      BY <1>1, <3>1, <3>2, SentTyped DEF PairsOf
    <3>4. request' = [request EXCEPT ![c] = Sent(p, stored)]
      BY <2>2, <3>1 DEF Send
    <3> QED
      BY <3>3, <3>4
  <2> QED
    BY <2>1, <2>2
<1>3. request'[c] = q /\ \A d \in Calls \ {c} : request'[d] = request[d]
  BY <1>1, <1>2
<1>4. {stored, Nothing} \subseteq Loose /\ stored' \in Loose
  BY <1>1 DEF Loose, browser
<1> QED
  BY <1>1, <1>2, <1>3, <1>4, OneCallKeepsCache DEF Handling

\* A tab handles the answer to one call.
LEMMA AnswerKeepsCache ==
  ASSUME TabInv, CacheInv, NEW c \in Calls,
         \/ Wait(c) \/ StartRefresh(c) \/ OnAnswer(c) \/ (GiveUp(c) /\ request[c].retried)
         \/ OnSignedIn(c) \/ OnRetailerSignedIn(c) \/ OnProfile(c)
  PROVE  CacheInv'
<1> DEFINE p == request[c]
<1>1. /\ TypeOK /\ request \in [Calls -> CallType] /\ p \in CallType /\ stored \in Loose /\ Nothing \in Loose
      /\ UNCHANGED server
  BY CallTyped DEF TabInv, TypeOK, ServerTypeOK, Loose, Wait, StartRefresh, OnAnswer, GiveUp, Settle,
     OnSignedIn, OnRetailerSignedIn, OnProfile, server
<1>2. p.at \in AtClient /\ p.at \notin Handling
  BY DEF Wait, StartRefresh, OnAnswer, GiveUp, OnSignedIn, OnRetailerSignedIn, OnProfile, Expects,
     AtClient, Handling
<1>3. PairsOf(p) \subseteq Loose
  BY <1>2, CarriedIsLoose DEF Handling
<1>4. stored' \in Loose
  BY <1>1, <1>3 DEF Wait, StartRefresh, OnAnswer, GiveUp, Settle, OnSignedIn, OnRetailerSignedIn, OnProfile,
     browser, PairsOf
<1> DEFINE Turns(q) == /\ request' = [request EXCEPT ![c] = q]
                         /\ q.at \in {"queued", "match", "idle", "sent"} /\ PairsOf(q) \subseteq Loose
<1>5. PICK q : Turns(q)
  <2>1. CASE Wait(c)
    <3> DEFINE q == [p EXCEPT !.at = "queued", !.retried = TRUE, !.token = Nothing]
    <3>1. request' = [request EXCEPT ![c] = q]
      BY <1>1, <2>1 DEF Wait
    <3>2. q.at = "queued" /\ PairsOf(q) \subseteq PairsOf(p) \cup {Nothing}
      BY <1>1 DEF CallType, PairsOf
    <3> HIDE DEF q
    <3> QED
      BY <1>1, <1>3, <3>1, <3>2
  <2>2. CASE StartRefresh(c)
    <3> DEFINE q == [p EXCEPT !.at = "match", !.retried = TRUE, !.token = Nothing, !.pair = stored]
    <3>1. request' = [request EXCEPT ![c] = q]
      BY <1>1, <2>2 DEF StartRefresh
    <3>2. q.at = "match" /\ PairsOf(q) \subseteq PairsOf(p) \cup {Nothing, stored}
      BY <1>1 DEF CallType, PairsOf
    <3> HIDE DEF q
    <3> QED
      BY <1>1, <1>3, <3>1, <3>2
  <2>3. CASE OnSignedIn(c)
    <3> DEFINE q == [Sent(Starting(p.tab, "profile"), p.pair) EXCEPT !.login = p.pair]
    <3>1. request' = [request EXCEPT ![c] = q]
      BY <2>3 DEF OnSignedIn
    <3>2. q.at = "sent" /\ PairsOf(q) \subseteq PairsOf(p) \cup {Nothing}
      BY DEF Sent, Starting, NoCall, PairsOf
    <3> HIDE DEF q
    <3> QED
      BY <1>1, <1>3, <3>1, <3>2
  <2>4. CASE OnAnswer(c) \/ (GiveUp(c) /\ request[c].retried) \/ OnRetailerSignedIn(c) \/ OnProfile(c)
    <3>1. request' = [request EXCEPT ![c] = NoCall]
      BY <2>4 DEF OnAnswer, GiveUp, Settle, OnRetailerSignedIn, OnProfile
    <3> QED
      BY <1>1, <3>1, NoCallTyped
  <2> QED
    BY <2>1, <2>2, <2>3, <2>4
<1>6. request'[c] = q /\ \A d \in Calls \ {c} : request'[d] = request[d]
  BY <1>1, <1>5
<1> QED
  BY <1>1, <1>2, <1>3, <1>4, <1>5, <1>6, OneCallKeepsCache DEF Handling

\* Loading a page, and leaving one for the login page.
LEMMA LeavingKeepsCache ==
  ASSUME TabInv, CacheInv,
         \/ \E t \in Tabs : Visit(t)
         \/ \E c \in Calls : (GiveUp(c) /\ ~request[c].retried) \/ GiveUpPortal(c) \/ OnRefused(c)
  PROVE  CacheInv'
<1>1. TypeOK
  BY DEF TabInv
<1>2. CASE \E t \in Tabs : Visit(t)
  <2>1. PICK t \in Tabs : Visit(t)
    BY <1>2
  <2>2. \A d \in Calls : request'[d] \in {request[d], Abandoned(request[d])}
    BY <2>1 DEF Visit
  <2>3. \A d \in Calls : Undisturbed(d)
    BY <1>1, <2>2, LeftUndisturbed
  <2>4. /\ UNCHANGED <<portal, session, fresh, cached, ending>> /\ stored' \in Loose
        /\ mishaps' = mishaps \/ Mishap
    BY <2>1 DEF Visit, Loose
  <2> QED
    BY <2>3, <2>4, UndisturbedKeepsCache
<1>3. ASSUME NEW c \in Calls, (GiveUp(c) /\ ~request[c].retried) \/ GiveUpPortal(c) \/ OnRefused(c)
      PROVE  CacheInv'
  <2>1. PICK failed : /\ SessionLost(request[c].tab, failed)
                      /\ \A d \in failed : request[d].at \in {"unauthorized", "refused", "queued"}
    BY <1>3 DEF GiveUp, GiveUpPortal, OnRefused, Expects, SentAgain, Queue
  <2>2. \A d \in Calls : \/ request'[d] \in {request[d], Abandoned(request[d])}
                         \/ request'[d] = NoCall /\ request[d].at \notin Handling
    BY <2>1 DEF SessionLost, Handling
  <2>3. \A d \in Calls : Undisturbed(d)
    BY <1>1, <2>2, LeftUndisturbed
  <2>4. UNCHANGED server /\ stored' \in Loose
    BY <2>1 DEF SessionLost, Loose
  <2> QED
    BY <2>3, <2>4, UndisturbedKeepsCache DEF server
<1> QED
  BY <1>2, <1>3

\* The calls that waited carry the pair the refresh was given.
LEMMA OnRefreshedKeepsCache ==
  ASSUME TabInv, CacheInv, NEW c \in Calls, OnRefreshed(c)
  PROVE  CacheInv'
<1> DEFINE s == request[c].pair
<1>1. /\ TypeOK /\ HandlersKnow /\ request[c].at = "renewed" /\ UNCHANGED server /\ stored' = s
      /\ request' = [d \in Calls |-> IF d \in SentAgain(c) THEN Sent(request[d], s) ELSE request[d]]
  BY DEF TabInv, OnRefreshed, Expects
<1>2. s \in Loose /\ Nothing \in Loose /\ s \in Sessions \cup {Nothing}
  BY <1>1, CarriedIsLoose, CallTyped DEF PairsOf, Loose, Issued
<1> HIDE DEF s
<1>3. ASSUME NEW d \in Calls
      PROVE  Undisturbed(d)
  <2>1. CASE d \in SentAgain(c)
    <3>1. /\ request[d].at \in {"renewed", "queued"} /\ request[d] \in CallType /\ request[d].tab \in Tabs
          /\ request'[d] = Sent(request[d], s)
      BY <1>1, <2>1, CallTyped DEF SentAgain, Queue, HandlersKnow
    <3>2. request'[d].at = "sent" /\ PairsOf(request'[d]) \subseteq PairsOf(request[d]) \cup {s, Nothing}
      BY <1>2, <3>1, SentTyped DEF PairsOf
    <3>3. PairsOf(request[d]) \subseteq Loose
      BY <3>1, CarriedIsLoose
    <3> QED
      BY <1>2, <3>1, <3>2, <3>3 DEF Undisturbed, Handling
  <2>2. CASE d \notin SentAgain(c)
    BY <1>1, <2>2, LeftUndisturbed
  <2> QED
    BY <2>1, <2>2
<1> QED
  BY <1>1, <1>2, <1>3, UndisturbedKeepsCache DEF server

\* Redis starts empty, and nothing has failed.
LEMMA CacheInvInitially ==
  ASSUME Init
  PROVE  CacheInv
<1>1. \A c \in Calls : request[c] = NoCall
  BY DEF Init, ServerInit
<1>2. \A c \in Calls : request[c].at = "idle"
  BY <1>1, NoCallTyped
<1>3. /\ mishaps = Mishaps /\ cached = {} /\ fresh = {} /\ ending.at = "idle"
  BY DEF Init, ServerInit
<1> QED
  BY <1>2, <1>3, SessionsAssumption DEF CacheInv, ForgetsRevoked, PortalHasNoCache, NothingToFill, RevokedIsForgotten

\* Every step of a server and of a browser keeps it.
LEMMA CacheInvKept ==
  ASSUME TabInv, CacheInv, [Next]_vars
  PROVE  CacheInv'
<1>1. ASSUME NEW c \in Calls, ServerStep(c), UNCHANGED browser
      PROVE  CacheInv'
  BY <1>1, AuthenticateKeepsCache, FillKeepsCache, RevokeKeepsCache, ForgetKeepsCache, CreatedKeepsCache,
     CacheNewKeepsCache, BreakKeepsCache DEF ServerStep
<1>2. CASE ServerNext /\ UNCHANGED browser
  BY <1>1, <1>2, ElsewhereKeepsCache DEF ServerNext
<1>3. ASSUME NEW c \in Calls, ClientStep(c)
      PROVE  CacheInv'
  <2>1. CASE OnRefreshed(c)
    BY <2>1, OnRefreshedKeepsCache
  <2>2. CASE (GiveUp(c) /\ ~request[c].retried) \/ GiveUpPortal(c) \/ OnRefused(c)
    BY <2>2, LeavingKeepsCache
  <2>3. CASE \/ Wait(c) \/ StartRefresh(c) \/ OnAnswer(c) \/ (GiveUp(c) /\ request[c].retried)
             \/ OnSignedIn(c) \/ OnRetailerSignedIn(c) \/ OnProfile(c)
    BY <2>3, AnswerKeepsCache
  <2> QED
    BY <1>3, <2>1, <2>2, <2>3 DEF ClientStep
<1>4. ASSUME NEW t \in Tabs, NEW c \in Calls, Send(c, t, "page") \/ Send(c, t, "logout") \/ SignIn(c, t)
      PROVE  CacheInv'
  BY <1>4, SendKeepsCache
<1>5. ASSUME NEW t \in Tabs, Visit(t)
      PROVE  CacheInv'
  BY <1>5, LeavingKeepsCache
<1>6. CASE UNCHANGED vars
  BY <1>6 DEF vars, server, browser, CacheInv, IsSecret, ForgetsRevoked, PortalHasNoCache, NothingToFill, Readable,
              BeingCached, RevokedIsForgotten, Revoked, BeingForgotten
<1> QED
  BY <1>2, <1>3, <1>4, <1>5, <1>6 DEF Next

\* For any number of sessions, tabs and calls: as long as nothing fails, a
\* session that was logged out or refreshed does not stay in Redis once its
\* handler is through, so that validateSession lets no call of it in again
\* (AuthService.refresh, logout, validateSession).
THEOREM RevokedIsForgottenAlways == Spec => []RevokedIsForgotten
<1>1. Init => TabInv /\ CacheInv
  BY TabInvInitially, CacheInvInitially
<1>2. TabInv /\ CacheInv /\ [Next]_vars => (TabInv /\ CacheInv)'
  BY TabInvKept, CacheInvKept
<1>3. CacheInv => RevokedIsForgotten
  BY DEF CacheInv
<1> QED
  BY <1>1, <1>2, <1>3, PTL DEF Spec

\* The types of the session's state, for any number of sessions, tabs and
\* calls: in particular no call, and no browser, holds a pair that was not
\* issued.
THEOREM SessionTypeCorrect == Spec => []TypeOK
<1>1. TabInv => TypeOK
  BY DEF TabInv
<1> QED
  BY <1>1, TabInvInitially, TabInvKept, PTL DEF Spec
=============================================================================
