--------------------------- MODULE StockCorrection ---------------------------
(***************************************************************************)
(* What corrects the stock of a location by hand: stock adjustments,       *)
(* damage reports, and stock counts, whose variances become adjustments.   *)
(*                                                                         *)
(* Every handler but the two creations reads a document, checks its status *)
(* and writes in later, separate database calls, without a lock.  A        *)
(* request keeps what it has read and what it will write.                  *)
(*                                                                         *)
(* A document has one item; the adjustment of a count has one per variance.*)
(* Quantities are in base units.                                           *)
(***************************************************************************)
EXTENDS InventoryLedger, Sequences, Functions, FiniteSets

CONSTANTS
  Adjustments, Reports, Counts, Requests,
  MaxCorrection,  \* bound: quantity of an item, and of what is counted
  None

Documents == Adjustments \cup Reports

ASSUME CorrectionAssumption ==
  /\ {"AVAILABLE", "DAMAGED"} \subseteq StockStates
  /\ MaxCorrection \in Nat
  /\ None \notin Counts

\* There is a sum over the documents.
ASSUME FinitelyManyDocuments == IsFiniteSet(Documents)

VARIABLES
  document,  \* status of each adjustment and report, whether approvedById is set, its movements, its count
  count,     \* status of each stock count, the system quantities and the variances of its items
  request    \* where each request stands and what it has read

correctionVars == <<document, count, request>>

DocumentStatus == {"NONE", "DRAFT", "SUBMITTED", "APPROVED", "POSTED", "REJECTED"}

CountStatus == {"NONE", "DRAFT", "SUBMITTED", "RECONCILED"}   \* CANCELLED is never written

NoQuantity == [l \in Lots |-> 0]

Idle == [at |-> "idle"]

AdjustmentKey(a) == <<"adj-post", a>>
ReportKey(d)     == <<"damage-post", d>>
DocumentKey(d)   == IF d \in Reports THEN ReportKey(d) ELSE AdjustmentKey(d)

CorrectionInit ==
  /\ document = [d \in Documents |-> [status |-> "NONE", approved |-> FALSE,
                   movements |-> Movements("AVAILABLE", NoQuantity), count |-> None]]
  /\ count = [c \in Counts |-> [status |-> "NONE", system |-> NoQuantity,
                                variances |-> [l \in Lots |-> <<>>]]]
  /\ request = [r \in Requests |-> Idle]

-----------------------------------------------------------------------------
(* Adjustments and damage reports.                                         *)

Create(d, movements, c) ==
  /\ document[d].status = "NONE"
  /\ document' = [document EXCEPT ![d] =
       [status |-> "DRAFT", approved |-> FALSE, movements |-> movements, count |-> c]]

CreateAdjustment(a, state, lot, delta) ==
  /\ Create(a, Movements(state, OfLot(lot, delta)), None)
  /\ UNCHANGED <<ledgerVars, count, request>>

CreateReport(d, lot, quantity) ==
  /\ Create(d, MovementPair("AVAILABLE", "DAMAGED", OfLot(lot, quantity)), None)
  /\ UNCHANGED <<ledgerVars, count, request>>

Go(r, state) == request' = [request EXCEPT ![r] = state]

\* A handler that moves a document to `to` has read its status and found it
\* right.  c is the count being reconciled when a reconciliation calls it.
Proceed(r, d, to, c) ==
  Go(r, [at |-> IF to = "POSTED" THEN "post" ELSE "write", doc |-> d, to |-> to, count |-> c])

Start(r, d, from, to) ==
  /\ request[r].at = "idle"
  /\ document[d].status \in from
  /\ Proceed(r, d, to, None)
  /\ UNCHANGED <<ledgerVars, document, count>>

\* Mutant: a report that is still to be approved can be posted.
PostSubmittedReport(r, d) == Start(r, d, {"SUBMITTED", "APPROVED"}, "POSTED")

SubmitAdjustment(r, a)  == Start(r, a, {"DRAFT"}, "SUBMITTED")
ApproveAdjustment(r, a) == Start(r, a, {"SUBMITTED"}, "APPROVED")
PostAdjustment(r, a)    == Start(r, a, {"APPROVED"}, "POSTED")
SubmitReport(r, d)      == Start(r, d, {"DRAFT"}, "SUBMITTED")
ApproveReport(r, d)     == Start(r, d, {"SUBMITTED"}, "APPROVED")
RejectReport(r, d)      == Start(r, d, {"SUBMITTED", "APPROVED"}, "REJECTED")
PostReport(r, d)        == Start(r, d, {"APPROVED"}, "POSTED")

\* Mutant: the status is written without the stock having been posted.
PostNothing(r) ==
  /\ request[r].at = "post"
  /\ request' = [request EXCEPT ![r].at = "write"]
  /\ UNCHANGED <<ledgerVars, document, count>>

\* post calls postEvent, in a transaction of its own; without enough stock
\* the request fails.
PostDocument(r) ==
  LET d == request[r].doc IN
  /\ request[r].at = "post"
  /\ \/ /\ PostEvent(DocumentKey(d), document[d].movements)
        /\ request' = [request EXCEPT ![r].at = "write"]
     \/ /\ DocumentKey(d) \notin posted
        /\ \E l \in Lots, s \in StockStates : snapshot[l][s] + document[d].movements[l][s] < 0
        /\ Go(r, Idle) /\ UNCHANGED ledgerVars
  /\ UNCHANGED <<document, count>>

Following == [SUBMITTED |-> "APPROVED", APPROVED |-> "POSTED"]

\* Each handler ends by writing the new status, whatever it has become.  A
\* reconciliation goes on: it submits, approves and posts its adjustment, and
\* then closes the count.
WriteStatus(r) ==
  LET d == request[r].doc
      to == request[r].to
      c == request[r].count
  IN
  /\ request[r].at = "write"
  /\ document' = [document EXCEPT ![d].status = to, ![d].approved = @ \/ to = "APPROVED"]
  /\ Go(r, IF c = None THEN Idle
           ELSE IF to = "POSTED" THEN [at |-> "close", count |-> c]
           ELSE [at |-> "next", doc |-> d, to |-> Following[to], count |-> c])
  /\ UNCHANGED <<ledgerVars, count>>

-----------------------------------------------------------------------------
(* Stock counts.                                                           *)

\* startStockCount: looks for an active count, reads the AVAILABLE rows,
\* creates the count: three database calls.
StartCount(r) ==
  /\ request[r].at = "idle"
  /\ \A c \in Counts : count[c].status \notin {"DRAFT", "SUBMITTED"}
  /\ Go(r, [at |-> "readRows"])
  /\ UNCHANGED <<ledgerVars, document, count>>

ReadRows(r) ==
  /\ request[r].at = "readRows"
  /\ Go(r, [at |-> "openCount", rows |-> [l \in Lots |-> snapshot[l]["AVAILABLE"]]])
  /\ UNCHANGED <<ledgerVars, document, count>>

\* Each item starts as counted 0, so its variance is what the row held; empty
\* rows get no item.
OpenCount(r, c) ==
  LET rows == request[r].rows IN
  /\ request[r].at = "openCount"
  /\ count[c].status = "NONE"
  /\ count' = [count EXCEPT ![c] =
       [status |-> "DRAFT", system |-> rows,
        variances |-> [l \in Lots |-> IF rows[l] > 0 THEN << - rows[l] >> ELSE <<>>]]]
  /\ Go(r, Idle)
  /\ UNCHANGED <<ledgerVars, document>>

\* updateCount of one lot, of which `counted` were found: reads the count,
\* with its items, and then writes.
StartUpdate(r, c, lot, counted) ==
  /\ request[r].at = "idle"
  /\ count[c].status = "DRAFT"
  /\ Go(r, [at |-> "update", count |-> c, lot |-> lot, counted |-> counted,
            existing |-> count[c].variances[lot] # <<>>])
  /\ UNCHANGED <<ledgerVars, document, count>>

UpdateCount(r) ==
  LET c == request[r].count
      lot == request[r].lot
      counted == request[r].counted
  IN
  /\ request[r].at = "update"
  /\ count' = [count EXCEPT ![c].variances[lot] =
       IF request[r].existing THEN [@ EXCEPT ![1] = counted - count[c].system[lot]]
       ELSE Append(@, counted)]
  /\ Go(r, Idle)
  /\ UNCHANGED <<ledgerVars, document>>

StartSubmitCount(r, c) ==
  /\ request[r].at = "idle"
  /\ count[c].status = "DRAFT"
  /\ Go(r, [at |-> "submitCount", count |-> c])
  /\ UNCHANGED <<ledgerVars, document, count>>

SetCountStatus(r, status) ==
  /\ count' = [count EXCEPT ![request[r].count].status = status]
  /\ Go(r, Idle)
  /\ UNCHANGED <<ledgerVars, document>>

SubmitCount(r) == request[r].at = "submitCount" /\ SetCountStatus(r, "SUBMITTED")

CloseCount(r) == request[r].at = "close" /\ SetCountStatus(r, "RECONCILED")

\* The variance of each lot: that of its items together.
Variance(c) == [l \in Lots |-> SumFunction(count[c].variances[l])]

\* reconcile reads the count; without a variance it only closes it.
StartReconcile(r, c) ==
  /\ request[r].at = "idle"
  /\ count[c].status = "SUBMITTED"
  /\ Go(r, IF Variance(c) = NoQuantity THEN [at |-> "close", count |-> c]
           ELSE [at |-> "draft", count |-> c, variance |-> Variance(c)])
  /\ UNCHANGED <<ledgerVars, document, count>>

\* It creates an adjustment of its own and moves it to POSTED by the same
\* handlers, each of which reads its status again.
DraftCorrection(r, a) ==
  /\ request[r].at = "draft"
  /\ Create(a, Movements("AVAILABLE", request[r].variance), request[r].count)
  /\ Go(r, [at |-> "next", doc |-> a, to |-> "SUBMITTED", count |-> request[r].count])
  /\ UNCHANGED <<ledgerVars, count>>

Preceding == [SUBMITTED |-> "DRAFT", APPROVED |-> "SUBMITTED", POSTED |-> "APPROVED"]

ContinueCorrection(r) ==
  LET d == request[r].doc
      to == request[r].to
  IN
  /\ request[r].at = "next"
  /\ IF document[d].status = Preceding[to] THEN Proceed(r, d, to, request[r].count) ELSE Go(r, Idle)
  /\ UNCHANGED <<ledgerVars, document, count>>

\* The server stops between two calls of a request, or the next call fails
\* (as the second of two concurrent events with the same key does).
Crash(r) ==
  /\ request[r].at # "idle"
  /\ Go(r, Idle)
  /\ UNCHANGED <<ledgerVars, document, count>>

-----------------------------------------------------------------------------

DocumentStep(r) ==
  \/ \E a \in Adjustments : SubmitAdjustment(r, a) \/ ApproveAdjustment(r, a) \/ PostAdjustment(r, a)
  \/ \E d \in Reports :
        SubmitReport(r, d) \/ ApproveReport(r, d) \/ RejectReport(r, d) \/ PostReport(r, d)
  \/ PostDocument(r) \/ WriteStatus(r)

CountStep(r) ==
  \/ StartCount(r) \/ ReadRows(r) \/ UpdateCount(r) \/ SubmitCount(r) \/ CloseCount(r)
  \/ \E c \in Counts :
        \/ OpenCount(r, c) \/ StartSubmitCount(r, c) \/ StartReconcile(r, c)
        \/ \E lot \in Lots, counted \in 0..MaxCorrection : StartUpdate(r, c, lot, counted)
  \/ \E a \in Adjustments : DraftCorrection(r, a)
  \/ ContinueCorrection(r)

CorrectionStep ==
  \/ \E a \in Adjustments, state \in StockStates, lot \in Lots,
        delta \in ((- MaxCorrection)..MaxCorrection) \ {0} : CreateAdjustment(a, state, lot, delta)
  \/ \E d \in Reports, lot \in Lots, quantity \in 1..MaxCorrection : CreateReport(d, lot, quantity)
  \/ \E r \in Requests : DocumentStep(r) \/ CountStep(r) \/ Crash(r)

-----------------------------------------------------------------------------
(* Properties.                                                             *)

Moves(states) == [at : states, doc : Documents, to : DocumentStatus, count : Counts \cup {None}]

DocumentRecords == [status : DocumentStatus, approved : BOOLEAN,
  movements : [Lots -> [StockStates -> Int]], count : Counts \cup {None}]

CountRecords == [status : CountStatus, system : [Lots -> Nat], variances : [Lots -> Seq(Int)]]

RequestRecords ==
  {Idle} \cup Moves({"post", "write", "next"})
    \cup [at : {"readRows"}] \cup [at : {"openCount"}, rows : [Lots -> Nat]]
    \cup [at : {"update"}, count : Counts, lot : Lots, counted : Nat, existing : BOOLEAN]
    \cup [at : {"submitCount", "close"}, count : Counts]
    \cup [at : {"draft"}, count : Counts, variance : [Lots -> Int]]

CorrectionTypeOK ==
  /\ document \in [Documents -> DocumentRecords]
  /\ count \in [Counts -> CountRecords]
  /\ \A r \in Requests : request[r] \in RequestRecords

\* A document moves stock only if someone approved it, however its status was
\* overwritten by requests that had read it earlier.
PostedWasApproved ==
  \A d \in Documents : DocumentKey(d) \in posted => document[d].approved

\* A document that says POSTED has moved its stock.
PostedIsBooked ==
  \A d \in Documents : document[d].status = "POSTED" => DocumentKey(d) \in posted
=============================================================================
