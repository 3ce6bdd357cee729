--------------------------- MODULE WarehouseProofs ---------------------------
(***************************************************************************)
(* Documents move stock only when approved, and say POSTED only when they  *)
(* have; every row of stock is what receipts and documents account for;    *)
(* and receipts stay within their purchase order: for every set of orders, *)
(* documents, counts, receipts and requests.  Beside it BatchExpiry: a     *)
(* place is flagged twice, and a batch expired, only for a reason.         *)
(***************************************************************************)
EXTENDS Warehouse, BatchExpiry, InventoryLedgerProofs, SumTheorems

-----------------------------------------------------------------------------
(* Steps that change one thing.                                            *)

\* Keys of different documents differ, and none is a receipt's.
LEMMA DocumentKeysDiffer ==
  ASSUME NEW d \in Documents, NEW e \in Documents, DocumentKey(d) = DocumentKey(e)
  PROVE  d = e
BY DEF DocumentKey, ReportKey, AdjustmentKey

\* The key of a receipt is not the key of a document.
LEMMA ReceiptKeysDiffer ==
  ASSUME NEW d \in Documents, NEW k
  PROVE  DocumentKey(d) # GoodsReceiptKey(k)
BY DEF DocumentKey, ReportKey, AdjustmentKey, GoodsReceiptKey

\* An event adds at most its own key.
LEMMA PostEventKeys ==
  ASSUME NEW key, NEW delta, PostEvent(key, delta)
  PROVE  posted' = posted \cup {key}
BY DEF PostEvent, ledgerVars

\* A request that goes on to a justified step leaves the invariant alone.
LEMMA GoKeeps ==
  ASSUME Inv, NEW r \in Requests, NEW q, Go(r, q), Justified(q), UNCHANGED <<posted, document>>
  PROVE  Inv'
<1>1. Tables'
  BY DEF Inv, Tables, Go
<1>2. ApprovalIsRecorded' /\ PostedWasApproved' /\ PostedIsBooked'
  BY DEF Inv, ApprovalIsRecorded, PostedWasApproved, PostedIsBooked, DocumentKey, ReportKey, AdjustmentKey
<1>3. Justified(q)'
  BY DEF Justified, DocumentKey, ReportKey, AdjustmentKey
<1>4. ASSUME NEW s \in Requests PROVE Justified(request[s])'
  <2>1. CASE s = r
    BY <2>1, <1>3 DEF Inv, Tables, Go, Justified, DocumentKey, ReportKey, AdjustmentKey
  <2>2. CASE s # r
    <3>1. request'[s] = request[s] /\ Justified(request[s])
      BY <2>2 DEF Inv, Tables, Go, RequestsJustified
    <3> QED
      BY <3>1 DEF Justified, DocumentKey, ReportKey, AdjustmentKey
  <2> QED
    BY <2>1, <2>2
<1> QED
  BY <1>1, <1>2, <1>4 DEF Inv, RequestsJustified

\* A new document was neither approved nor posted before.
LEMMA CreateKeeps ==
  ASSUME Inv, NEW d \in Documents, NEW m, NEW c, Create(d, m, c), UNCHANGED posted
  PROVE  /\ document' = [e \in Documents |-> document'[e]]
         /\ ApprovalIsRecorded' /\ PostedWasApproved' /\ PostedIsBooked'
         /\ \A q : Justified(q) => Justified(q)'
<1>1. DocumentKey(d) \notin posted /\ ~ document[d].approved
  BY DEF Inv, ApprovalIsRecorded, PostedWasApproved, Create
<1>2. document' = [document EXCEPT ![d] =
        [status |-> "DRAFT", approved |-> FALSE, movements |-> m, count |-> c]]
  BY DEF Create
<1>3. document' = [e \in Documents |-> document'[e]]
  BY <1>2 DEF Inv, Tables
<1>4. document'[d] = [status |-> "DRAFT", approved |-> FALSE, movements |-> m, count |-> c]
  BY <1>2 DEF Inv, Tables
<1>5. \A e \in Documents : e # d => document'[e] = document[e]
  BY <1>2 DEF Inv, Tables
<1>6. ASSUME NEW e \in Documents
      PROVE  /\ document'[e] = [status |-> document'[e].status, approved |-> document'[e].approved,
                     movements |-> document'[e].movements, count |-> document'[e].count]
             /\ document'[e].approved \in BOOLEAN
             /\ document'[e].status = "APPROVED" => document'[e].approved
             /\ document'[e].status = "NONE" => ~ document'[e].approved
  <2>1. CASE e = d
    BY <2>1, <1>4
  <2>2. CASE e # d
    BY <2>2, <1>5 DEF Inv, ApprovalIsRecorded
  <2> QED
    BY <2>1, <2>2
<1>7. ApprovalIsRecorded'
  BY <1>6 DEF ApprovalIsRecorded
<1>8. PostedWasApproved'
  BY <1>1, <1>5 DEF Inv, PostedWasApproved, DocumentKey, ReportKey, AdjustmentKey
<1>9. PostedIsBooked'
  BY <1>4, <1>5 DEF Inv, PostedIsBooked, DocumentKey, ReportKey, AdjustmentKey
<1>10. ASSUME NEW q, Justified(q) PROVE Justified(q)'
  BY <1>1, <1>5, <1>10 DEF Justified, DocumentKey, ReportKey, AdjustmentKey
<1> QED
  BY <1>3, <1>7, <1>8, <1>9, <1>10

\* A document created by hand.
LEMMA CreateByHandKeeps ==
  ASSUME Inv, NEW d \in Documents, NEW m, NEW c, Create(d, m, c), UNCHANGED <<posted, request>>
  PROVE  Inv'
<1>1. /\ document' = [e \in Documents |-> document'[e]]
      /\ ApprovalIsRecorded' /\ PostedWasApproved' /\ PostedIsBooked'
      /\ \A q : Justified(q) => Justified(q)'
  BY CreateKeeps
<1>2. ASSUME NEW r \in Requests PROVE Justified(request[r])'
  <2>1. Justified(request[r])
    BY DEF Inv, RequestsJustified
  <2> QED
    BY <2>1, <1>1
<1> QED
  BY <1>1, <1>2 DEF Inv, Tables, RequestsJustified

\* A request to move a document that was found in the right status is justified.
LEMMA ProceedKeeps ==
  ASSUME Inv, NEW r \in Requests, NEW d \in Documents, NEW to, NEW c, Proceed(r, d, to, c),
         to \in {"SUBMITTED", "APPROVED", "POSTED", "REJECTED"}, c # None => to # "REJECTED",
         to = "POSTED" => document[d].approved,
         UNCHANGED <<posted, document>>
  PROVE  Inv'
<1> DEFINE q == [at |-> IF to = "POSTED" THEN "post" ELSE "write", doc |-> d, to |-> to, count |-> c]
<1>1. Go(r, q)
  BY DEF Proceed
<1>2. Justified(q)
  BY DEF Justified
<1> QED
  BY <1>1, <1>2, GoKeeps

\* Posting a document that was approved.
LEMMA PostDocumentKeeps ==
  ASSUME Inv, NEW r \in Requests, PostDocument(r)
  PROVE  Inv'
<1> DEFINE d == request[r].doc
<1>1. /\ request[r].at = "post"
      /\ request[r] = [at |-> request[r].at, doc |-> d, to |-> request[r].to, count |-> request[r].count]
      /\ d \in Documents /\ document[d].approved
      /\ request[r].to \in {"SUBMITTED", "APPROVED", "POSTED", "REJECTED"}
      /\ request[r].count # None => request[r].to # "REJECTED"
      /\ document' = document
  BY DEF PostDocument, Inv, RequestsJustified, Justified
<1>2. CASE Go(r, Idle) /\ UNCHANGED ledgerVars
  <2>1. Justified(Idle)
    BY DEF Justified, Idle
  <2> QED
    BY <1>1, <1>2, <2>1, GoKeeps DEF ledgerVars
<1>3. CASE PostEvent(DocumentKey(d), document[d].movements) /\ request' = [request EXCEPT ![r].at = "write"]
  <2>1. posted' = posted \cup {DocumentKey(d)}
    BY <1>3, PostEventKeys
  <2>2. request'[r] = [at |-> "write", doc |-> d, to |-> request[r].to, count |-> request[r].count]
    <3>1. request'[r] = [request[r] EXCEPT !.at = "write"]
      BY <1>3 DEF Inv, Tables
    <3> QED
      BY <1>1, <3>1
  <2>3. request' = [s \in Requests |-> request'[s]] /\ \A s \in Requests : s # r => request'[s] = request[s]
    BY <1>3 DEF Inv, Tables
  <2>4. Tables' /\ ApprovalIsRecorded'
    BY <1>1, <2>3 DEF Inv, Tables, ApprovalIsRecorded
  <2>5. PostedWasApproved'
    BY <1>1, <2>1, DocumentKeysDiffer DEF Inv, PostedWasApproved, DocumentKey, ReportKey, AdjustmentKey
  <2>6. PostedIsBooked'
    BY <1>1, <2>1 DEF Inv, PostedIsBooked, DocumentKey, ReportKey, AdjustmentKey
  <2>7. ASSUME NEW s \in Requests PROVE Justified(request[s])'
    <3>1. CASE s = r
      <4>1. /\ request'[s].at = "write" /\ request'[s].doc = d
            /\ request'[s].to = request[r].to /\ request'[s].count = request[r].count
            /\ request'[s] = [at |-> "write", doc |-> d, to |-> request[r].to, count |-> request[r].count]
        BY <3>1, <2>2
      <4>2. DocumentKey(request[s].doc)' \in posted'
        BY <4>1, <2>1 DEF DocumentKey, ReportKey, AdjustmentKey
      <4> QED
        BY <4>1, <4>2, <1>1 DEF Justified
    <3>2. CASE s # r
      <4>1. request'[s] = request[s] /\ Justified(request[s])
        BY <3>2, <2>3 DEF Inv, RequestsJustified
      <4> QED
        BY <4>1, <1>1, <2>1 DEF Justified, DocumentKey, ReportKey, AdjustmentKey
    <3> QED
      BY <3>1, <3>2
  <2> QED
    BY <2>4, <2>5, <2>6, <2>7 DEF Inv, RequestsJustified
<1> QED
  BY <1>2, <1>3 DEF PostDocument

\* Writing the status a request decided on, over whatever it has become.
LEMMA WriteStatusKeeps ==
  ASSUME Inv, NEW r \in Requests, WriteStatus(r)
  PROVE  Inv'
<1> DEFINE d == request[r].doc
           to == request[r].to
           c == request[r].count
           next == IF c = None THEN Idle
                   ELSE IF to = "POSTED" THEN [at |-> "close", count |-> c]
                   ELSE [at |-> "next", doc |-> d, to |-> Following[to], count |-> c]
<1>1. /\ d \in Documents
      /\ to \in {"SUBMITTED", "APPROVED", "POSTED", "REJECTED"}
      /\ c # None => to # "REJECTED"
      /\ to = "POSTED" => DocumentKey(d) \in posted
      /\ document' = [document EXCEPT ![d].status = to, ![d].approved = @ \/ to = "APPROVED"]
      /\ request' = [request EXCEPT ![r] = next]
      /\ posted' = posted
  BY DEF WriteStatus, Inv, RequestsJustified, Justified, ledgerVars, Go
<1>2. /\ document'[d].status = to
      /\ document'[d].approved = (document[d].approved \/ to = "APPROVED")
      /\ document'[d].movements = document[d].movements
      /\ document'[d].count = document[d].count
      /\ document'[d] = [status |-> document'[d].status, approved |-> document'[d].approved,
                         movements |-> document'[d].movements, count |-> document'[d].count]
  <2> DEFINE row == document[d]
  <2>1. row = [status |-> row.status, approved |-> row.approved,
               movements |-> row.movements, count |-> row.count]
    BY <1>1 DEF Inv, ApprovalIsRecorded
  <2>2. document'[d] = [[row EXCEPT !.status = to] EXCEPT !.approved = row.approved \/ to = "APPROVED"]
    <3>1. document = [e \in Documents |-> document[e]]
      BY DEF Inv, Tables
    <3>2. DOMAIN document = Documents
      BY <3>1
    <3>3. document' = [document EXCEPT ![d].status = to, ![d].approved = @ \/ to = "APPROVED"]
      BY <1>1
    <3> HIDE DEF d, to
    <3> QED
      BY <1>1, <3>2, <3>3
  <2> HIDE DEF d, to
  <2>3. document'[d] = [status |-> to, approved |-> row.approved \/ to = "APPROVED",
                        movements |-> row.movements, count |-> row.count]
    BY <2>1, <2>2
  <2> QED
    BY <2>3
<1>3. \A e \in Documents : e # d => document'[e] = document[e]
  BY <1>1 DEF Inv, Tables
<1>4. Tables'
  BY <1>1 DEF Inv, Tables
<1>5. ASSUME NEW e \in Documents
      PROVE  /\ document'[e] = [status |-> document'[e].status, approved |-> document'[e].approved,
                     movements |-> document'[e].movements, count |-> document'[e].count]
             /\ document'[e].approved \in BOOLEAN
             /\ document'[e].status = "APPROVED" => document'[e].approved
             /\ document'[e].status = "NONE" => ~ document'[e].approved
             /\ document[e].approved => document'[e].approved
  <2>1. CASE e = d
    BY <2>1, <1>1, <1>2
  <2>2. CASE e # d
    BY <2>2, <1>3 DEF Inv, ApprovalIsRecorded
  <2> QED
    BY <2>1, <2>2
<1>6. ApprovalIsRecorded'
  BY <1>5 DEF ApprovalIsRecorded
<1>7. PostedWasApproved'
  BY <1>1, <1>5 DEF Inv, PostedWasApproved, DocumentKey, ReportKey, AdjustmentKey
<1>8. PostedIsBooked'
  BY <1>1, <1>2, <1>3 DEF Inv, PostedIsBooked, DocumentKey, ReportKey, AdjustmentKey
<1>9. ASSUME NEW q, Justified(q) PROVE Justified(q)'
  BY <1>1, <1>5, <1>9 DEF Justified, DocumentKey, ReportKey, AdjustmentKey
<1>10. Justified(next)
  BY <1>1 DEF Justified, Idle, Following
<1>11. ASSUME NEW s \in Requests PROVE Justified(request[s])'
  <2>1. CASE s = r
    <3>1. request'[s] = next
      BY <2>1, <1>1 DEF Inv, Tables
    <3> QED
      BY <3>1, <1>9, <1>10 DEF Justified, DocumentKey, ReportKey, AdjustmentKey
  <2>2. CASE s # r
    <3>1. request'[s] = request[s] /\ Justified(request[s])
      BY <2>2, <1>1 DEF Inv, Tables, RequestsJustified
    <3> QED
      BY <3>1, <1>9 DEF Justified, DocumentKey, ReportKey, AdjustmentKey
  <2> QED
    BY <2>1, <2>2
<1> QED
  BY <1>4, <1>6, <1>7, <1>8, <1>11 DEF Inv, RequestsJustified

\* A reconciliation goes on with its own adjustment only from the status that
\* precedes the one it wants.
LEMMA ContinueKeeps ==
  ASSUME Inv, NEW r \in Requests, ContinueCorrection(r)
  PROVE  Inv'
<1> DEFINE d == request[r].doc
           to == request[r].to
           c == request[r].count
<1>1. /\ d \in Documents
      /\ to \in {"SUBMITTED", "APPROVED", "POSTED", "REJECTED"}
      /\ c # None => to # "REJECTED"
      /\ UNCHANGED <<posted, document>>
  BY DEF ContinueCorrection, Inv, RequestsJustified, Justified, ledgerVars
<1>2. CASE document[d].status = Preceding[to] /\ Proceed(r, d, to, c)
  <2>1. ApprovalIsRecorded /\ Preceding["POSTED"] = "APPROVED"
    BY DEF Preceding, Inv
  <2> HIDE DEF d, to, c
  <2>2. to = "POSTED" => document[d].approved
    BY <1>1, <1>2, <2>1 DEF ApprovalIsRecorded
  <2> QED
    BY <1>1, <1>2, <2>2, ProceedKeeps
<1>3. CASE Go(r, Idle)
  <2>1. Justified(Idle)
    BY DEF Justified, Idle
  <2> QED
    BY <1>1, <1>3, <2>1, GoKeeps
<1> QED
  BY <1>2, <1>3 DEF ContinueCorrection

\* A reconciliation drafts its adjustment, and is to submit it.
LEMMA DraftKeeps ==
  ASSUME Inv, NEW r \in Requests, NEW a \in Adjustments, DraftCorrection(r, a)
  PROVE  Inv'
<1> DEFINE q == [at |-> "next", doc |-> a, to |-> "SUBMITTED", count |-> request[r].count]
<1>1. /\ a \in Documents
      /\ Create(a, Movements("AVAILABLE", request[r].variance), request[r].count)
      /\ posted' = posted
      /\ request' = [request EXCEPT ![r] = q]
  BY DEF DraftCorrection, Documents, Go, ledgerVars
<1>2. /\ document' = [e \in Documents |-> document'[e]]
      /\ ApprovalIsRecorded' /\ PostedWasApproved' /\ PostedIsBooked'
      /\ \A v : Justified(v) => Justified(v)'
  BY <1>1, CreateKeeps
<1>3. Justified(q)
  BY <1>1 DEF Justified
<1>4. request'[r] = q /\ \A s \in Requests : s # r => request'[s] = request[s]
  BY <1>1 DEF Inv, Tables
<1>5. request' = [s \in Requests |-> request'[s]]
  BY <1>1 DEF Inv, Tables
<1>6. ASSUME NEW s \in Requests PROVE Justified(request[s])'
  <2>1. \E v : v = request'[s] /\ Justified(v)
    BY <1>3, <1>4 DEF Inv, RequestsJustified
  <2> QED
    BY <2>1, <1>2 DEF Justified, DocumentKey, ReportKey, AdjustmentKey
<1> QED
  BY <1>2, <1>5, <1>6 DEF Inv, Tables, RequestsJustified

\* A handler that starts only from an allowed status, APPROVED if it posts.
LEMMA StartKeeps ==
  ASSUME Inv, NEW r \in Requests, NEW d \in Documents, NEW from, NEW to, Start(r, d, from, to),
         to \in {"SUBMITTED", "APPROVED", "POSTED", "REJECTED"}, to = "POSTED" => from = {"APPROVED"}
  PROVE  Inv'
<1>1. Proceed(r, d, to, None) /\ UNCHANGED <<posted, document>>
  BY DEF Start, ledgerVars
<1>2. to = "POSTED" => document[d].approved
  BY DEF Start, Inv, ApprovalIsRecorded
<1> QED
  BY <1>1, <1>2, ProceedKeeps

\* A request that goes on to something other than moving a document.
LEMMA CountingKeeps ==
  ASSUME Inv, NEW r \in Requests, NEW q, Go(r, q), q.at \notin {"post", "write", "next"},
         UNCHANGED <<posted, document>>
  PROVE  Inv'
<1>1. Justified(q)
  BY DEF Justified
<1> QED
  BY <1>1, GoKeeps

-----------------------------------------------------------------------------

\* The handlers of adjustments and damage reports.
LEMMA DocumentStepKeeps ==
  ASSUME Inv, NEW r \in Requests, DocumentStep(r)
  PROVE  Inv'
<1>1. ASSUME NEW a \in Adjustments, SubmitAdjustment(r, a) \/ ApproveAdjustment(r, a) \/ PostAdjustment(r, a)
      PROVE  Inv'
  <2>1. a \in Documents
    BY DEF Documents
  <2> QED
    BY <1>1, <2>1, StartKeeps DEF SubmitAdjustment, ApproveAdjustment, PostAdjustment
<1>2. ASSUME NEW d \in Reports,
             SubmitReport(r, d) \/ ApproveReport(r, d) \/ RejectReport(r, d) \/ PostReport(r, d)
      PROVE  Inv'
  <2>1. d \in Documents
    BY DEF Documents
  <2> QED
    BY <1>2, <2>1, StartKeeps DEF SubmitReport, ApproveReport, RejectReport, PostReport
<1>3. CASE PostDocument(r)
  BY <1>3, PostDocumentKeeps
<1>4. CASE WriteStatus(r)
  BY <1>4, WriteStatusKeeps
<1> QED
  BY <1>1, <1>2, <1>3, <1>4 DEF DocumentStep

\* The steps of a stock count.
LEMMA CountStepKeeps ==
  ASSUME Inv, NEW r \in Requests, CountStep(r)
  PROVE  Inv'
<1>1. CASE StartCount(r)
  BY <1>1, CountingKeeps DEF StartCount, ledgerVars
<1>2. CASE ReadRows(r)
  BY <1>2, CountingKeeps DEF ReadRows, ledgerVars
<1>3. CASE UpdateCount(r)
  BY <1>3, CountingKeeps DEF UpdateCount, Idle, ledgerVars
<1>4. CASE SubmitCount(r) \/ CloseCount(r)
  BY <1>4, CountingKeeps DEF SubmitCount, CloseCount, SetCountStatus, Idle, ledgerVars
<1>5. ASSUME NEW c \in Counts, OpenCount(r, c) \/ StartSubmitCount(r, c)
      PROVE  Inv'
  BY <1>5, CountingKeeps DEF OpenCount, StartSubmitCount, Idle, ledgerVars
<1>6. ASSUME NEW c \in Counts, StartReconcile(r, c)
      PROVE  Inv'
  <2>1. PICK q : Go(r, q) /\ q.at \in {"close", "draft"}
    BY <1>6 DEF StartReconcile
  <2> QED
    BY <1>6, <2>1, CountingKeeps DEF StartReconcile, ledgerVars
<1>7. ASSUME NEW c \in Counts, NEW lot \in Lots, NEW counted \in 0..MaxCorrection,
             StartUpdate(r, c, lot, counted)
      PROVE  Inv'
  BY <1>7, CountingKeeps DEF StartUpdate, ledgerVars
<1>8. ASSUME NEW a \in Adjustments, DraftCorrection(r, a)
      PROVE  Inv'
  BY <1>8, DraftKeeps
<1>9. CASE ContinueCorrection(r)
  BY <1>9, ContinueKeeps
<1> QED
  BY <1>1, <1>2, <1>3, <1>4, <1>5, <1>6, <1>7, <1>8, <1>9 DEF CountStep

\* Every step of a correction.
LEMMA CorrectionStepKeeps ==
  ASSUME Inv, CorrectionStep
  PROVE  Inv'
<1>1. ASSUME NEW a \in Adjustments, NEW state \in StockStates, NEW lot \in Lots,
             NEW delta, CreateAdjustment(a, state, lot, delta)
      PROVE  Inv'
  <2>1. a \in Documents
    BY DEF Documents
  <2> QED
    BY <1>1, <2>1, CreateByHandKeeps DEF CreateAdjustment, ledgerVars
<1>2. ASSUME NEW d \in Reports, NEW lot \in Lots, NEW quantity, CreateReport(d, lot, quantity)
      PROVE  Inv'
  <2>1. d \in Documents
    BY DEF Documents
  <2> QED
    BY <1>2, <2>1, CreateByHandKeeps DEF CreateReport, ledgerVars
<1>3. ASSUME NEW r \in Requests, DocumentStep(r) PROVE Inv'
  BY <1>3, DocumentStepKeeps
<1>4. ASSUME NEW r \in Requests, CountStep(r) PROVE Inv'
  BY <1>4, CountStepKeeps
<1>5. ASSUME NEW r \in Requests, Crash(r) PROVE Inv'
  BY <1>5, CountingKeeps DEF Crash, Idle, ledgerVars
<1> QED
  BY <1>1, <1>2, <1>3, <1>4, <1>5 DEF CorrectionStep

\* A purchase order or a receipt adds no key of a document.
LEMMA ProcurementStepKeeps ==
  ASSUME Inv, ProcurementStep, UNCHANGED correctionVars
  PROVE  Inv'
<1>1. document' = document /\ request' = request
  BY DEF correctionVars
<1>2. \A d \in Documents : DocumentKey(d) \in posted' <=> DocumentKey(d) \in posted
  <2>1. CASE posted' = posted
    BY <2>1
  <2>2. ASSUME NEW k \in ReceiptKeys, posted' = posted \cup {GoodsReceiptKey(k)}
        PROVE  \A d \in Documents : DocumentKey(d) \in posted' <=> DocumentKey(d) \in posted
    BY <2>2, ReceiptKeysDiffer
  <2>3. posted' = posted \/ \E k \in ReceiptKeys : posted' = posted \cup {GoodsReceiptKey(k)}
    BY PostEventKeys
    DEF ProcurementStep, CreatePurchaseOrder, ConfirmPurchaseOrder, CancelPurchaseOrder, ReceiveGoods, ledgerVars
  <2> QED
    BY <2>1, <2>2, <2>3
<1>3. Tables' /\ ApprovalIsRecorded'
  BY <1>1 DEF Inv, Tables, ApprovalIsRecorded
<1>4. PostedWasApproved' /\ PostedIsBooked'
  BY <1>1, <1>2 DEF Inv, PostedWasApproved, PostedIsBooked, DocumentKey, ReportKey, AdjustmentKey
<1>5. RequestsJustified'
  BY <1>1, <1>2 DEF Inv, RequestsJustified, Justified, DocumentKey, ReportKey, AdjustmentKey
<1> QED
  BY <1>3, <1>4, <1>5 DEF Inv

-----------------------------------------------------------------------------
(* The theorems.                                                           *)

\* At first there is no document, no key and no request under way.
LEMMA InvInitially == Init => Inv
<1> SUFFICES ASSUME Init PROVE Inv
  OBVIOUS
<1>1. /\ posted = {}
      /\ request = [r \in Requests |-> Idle]
      /\ document = [d \in Documents |-> [status |-> "NONE", approved |-> FALSE,
                       movements |-> Movements("AVAILABLE", NoQuantity), count |-> None]]
  BY DEF Init, LedgerInit, CorrectionInit
<1>2. Tables /\ ApprovalIsRecorded
  BY <1>1 DEF Tables, ApprovalIsRecorded
<1>3. RequestsJustified
  BY <1>1 DEF RequestsJustified, Justified, Idle
<1>4. PostedWasApproved /\ PostedIsBooked
  BY <1>1 DEF PostedWasApproved, PostedIsBooked
<1> QED
  BY <1>2, <1>3, <1>4 DEF Inv

\* No step disturbs the invariant of documents, counts and requests.
LEMMA InvKept ==
  ASSUME Inv, [Next]_vars
  PROVE  Inv'
<1>1. CASE ProcurementStep /\ UNCHANGED correctionVars
  BY <1>1, ProcurementStepKeeps
<1>2. CASE CorrectionStep /\ UNCHANGED procurementVars
  BY <1>2, CorrectionStepKeeps
<1>3. CASE UNCHANGED vars
  BY <1>3 DEF vars, ledgerVars, correctionVars, Inv, Tables, ApprovalIsRecorded, RequestsJustified,
              Justified, PostedWasApproved, PostedIsBooked, DocumentKey, ReportKey, AdjustmentKey
<1> QED
  BY <1>1, <1>2, <1>3 DEF Next

\* The status a request read may have been overwritten when it writes; what
\* it relies on, that the document was approved and its stock posted, is never
\* undone.
THEOREM InvHolds == Spec => []Inv
<1>1. Init => Inv
  BY InvInitially
<1>2. Inv /\ [Next]_vars => Inv'
  BY InvKept
<1> QED
  BY <1>1, <1>2, PTL DEF Spec

\* No adjustment or damage report moves stock without having been approved,
\* although posting checks the status in one database call and moves the
\* stock in another.
THEOREM MovementsWereApproved == Spec => []PostedWasApproved
<1>1. Inv => PostedWasApproved
  BY DEF Inv
<1> QED
  BY <1>1, InvHolds, PTL

\* No adjustment or damage report says POSTED without its stock having moved,
\* wherever a request stops and whoever overwrites its status.
THEOREM PostedMovedItsStock == Spec => []PostedIsBooked
<1>1. Inv => PostedIsBooked
  BY DEF Inv
<1> QED
  BY <1>1, InvHolds, PTL

-----------------------------------------------------------------------------
(* Types.  They depend on the invariant above: a reconciliation goes on    *)
(* from the status it has just written, which is never REJECTED.           *)

LedgerRight == LedgerTypeOK /\ SnapshotMatchesMovements

\* Movements of one lot's quantity.
LEMMA OfLotType ==
  ASSUME NEW lot, NEW quantity \in Int
  PROVE  OfLot(lot, quantity) \in [Lots -> Int]
BY DEF OfLot

\* The movements of a new document.
LEMMA NewMovementsType ==
  ASSUME NEW items \in [Lots -> Int], NEW state, NEW to
  PROVE  /\ Movements(state, items) \in [Lots -> [StockStates -> Int]]
         /\ MovementPair(state, to, items) \in [Lots -> [StockStates -> Int]]
BY MovementsType, MovementPairType DEF Rows

\* The items of a lot add up to an integer.
LEMMA VarianceType ==
  ASSUME CorrectionTypeOK, NEW c \in Counts
  PROVE  Variance(c) \in [Lots -> Int]
<1>1. SUFFICES ASSUME NEW l \in Lots PROVE SumFunction(count[c].variances[l]) \in Int
  BY DEF Variance
<1> DEFINE items == count[c].variances[l]
<1>2. items \in Seq(Int)
  BY DEF CorrectionTypeOK, CountRecords
<1> HIDE DEF items
<1>3. DOMAIN items = 1..Len(items) /\ Len(items) \in Nat /\ \A i \in 1..Len(items) : items[i] \in Int
  BY <1>2
<1>4. IsFiniteSet(1..Len(items))
  BY <1>3, FS_Interval
<1>5. Sum(items, DOMAIN items) \in Int
  BY <1>3, <1>4, SumIsInt
<1> QED
  BY <1>5 DEF SumFunction, Sum, items

\* A request that goes on with a well-formed record.
LEMMA GoTyped ==
  ASSUME Tables, CorrectionTypeOK, NEW r \in Requests, NEW q \in RequestRecords, Go(r, q),
         document' \in [Documents -> DocumentRecords], count' \in [Counts -> CountRecords]
  PROVE  CorrectionTypeOK'
<1>1. ASSUME NEW s \in Requests PROVE request'[s] \in RequestRecords
  BY DEF Tables, CorrectionTypeOK, Go
<1> QED
  BY <1>1 DEF CorrectionTypeOK, RequestRecords, Moves, DocumentRecords, CountRecords, Documents, Idle

\* What a request has read, by the step it stands at.
LEMMA RequestRead ==
  ASSUME CorrectionTypeOK, NEW r \in Requests
  PROVE  /\ request[r].at \in {"post", "write", "next"} => request[r] \in Moves({"post", "write", "next"})
         /\ request[r].at = "openCount" => request[r].rows \in [Lots -> Nat]
         /\ request[r].at = "update" =>
              request[r] \in [at : {"update"}, count : Counts, lot : Lots, counted : Nat, existing : BOOLEAN]
         /\ request[r].at \in {"submitCount", "close"} => request[r].count \in Counts
         /\ request[r].at = "draft" => request[r].count \in Counts /\ request[r].variance \in [Lots -> Int]
<1>1. request[r] \in RequestRecords
  BY DEF CorrectionTypeOK
<1> QED
  BY <1>1 DEF RequestRecords, Moves, Idle

\* The handlers of adjustments and damage reports.
LEMMA DocumentStepTyped ==
  ASSUME Inv, CorrectionTypeOK, NEW r \in Requests, DocumentStep(r)
  PROVE  CorrectionTypeOK'
<1>1. Tables /\ document \in [Documents -> DocumentRecords] /\ count \in [Counts -> CountRecords]
  BY DEF Inv, CorrectionTypeOK
<1>2. ASSUME NEW d \in Documents, NEW from, NEW to \in DocumentStatus, Start(r, d, from, to)
      PROVE  CorrectionTypeOK'
  <2> DEFINE q == [at |-> IF to = "POSTED" THEN "post" ELSE "write", doc |-> d, to |-> to, count |-> None]
  <2>1. q \in RequestRecords
    BY DEF RequestRecords, Moves
  <2>2. Go(r, q)
    BY <1>2 DEF Start, Proceed
  <2> QED
    BY <1>1, <1>2, <2>1, <2>2, GoTyped DEF Start
<1>3. ASSUME NEW a \in Adjustments, SubmitAdjustment(r, a) \/ ApproveAdjustment(r, a) \/ PostAdjustment(r, a)
      PROVE  CorrectionTypeOK'
  <2>1. a \in Documents
    BY DEF Documents
  <2> QED
    BY <1>2, <1>3, <2>1 DEF SubmitAdjustment, ApproveAdjustment, PostAdjustment, DocumentStatus
<1>4. ASSUME NEW d \in Reports,
             SubmitReport(r, d) \/ ApproveReport(r, d) \/ RejectReport(r, d) \/ PostReport(r, d)
      PROVE  CorrectionTypeOK'
  <2>1. d \in Documents
    BY DEF Documents
  <2> QED
    BY <1>2, <1>4, <2>1 DEF SubmitReport, ApproveReport, RejectReport, PostReport, DocumentStatus
<1>5. CASE PostDocument(r)
  <2>1. request[r] \in Moves({"post", "write", "next"})
    BY <1>5, RequestRead DEF PostDocument
  <2>2. CASE Go(r, Idle)
    <3>1. Idle \in RequestRecords
      BY DEF RequestRecords
    <3> QED
      BY <1>1, <1>5, <2>2, <3>1, GoTyped DEF PostDocument
  <2>3. CASE request' = [request EXCEPT ![r].at = "write"]
    <3> DEFINE q == [request[r] EXCEPT !.at = "write"]
    <3>1. q \in RequestRecords
      BY <2>1 DEF RequestRecords, Moves
    <3>2. Go(r, q)
      BY <2>3 DEF Go
    <3> QED
      BY <1>1, <1>5, <3>1, <3>2, GoTyped DEF PostDocument
  <2> QED
    BY <1>5, <2>2, <2>3 DEF PostDocument
<1>6. CASE WriteStatus(r)
  <2> DEFINE d == request[r].doc
             to == request[r].to
             c == request[r].count
             q == IF c = None THEN Idle
                  ELSE IF to = "POSTED" THEN [at |-> "close", count |-> c]
                  ELSE [at |-> "next", doc |-> d, to |-> Following[to], count |-> c]
  <2>1. request[r] \in Moves({"post", "write", "next"})
    BY <1>6, RequestRead DEF WriteStatus
  <2>2. d \in Documents /\ to \in DocumentStatus /\ c \in Counts \cup {None}
    BY <2>1 DEF Moves
  <2>3. to \in {"SUBMITTED", "APPROVED", "POSTED", "REJECTED"} /\ (c # None => to # "REJECTED")
    BY <1>6 DEF WriteStatus, Inv, RequestsJustified, Justified
  <2>4. q \in RequestRecords
    BY <2>2, <2>3 DEF RequestRecords, Moves, Following, DocumentStatus
  <2>5. document' = [document EXCEPT ![d].status = to, ![d].approved = @ \/ to = "APPROVED"]
        /\ Go(r, q) /\ count' = count
    BY <1>6 DEF WriteStatus
  <2> HIDE DEF d, to, c, q
  <2>6. document' \in [Documents -> DocumentRecords]
    BY <1>1, <2>2, <2>5 DEF DocumentRecords
  <2> QED
    BY <1>1, <2>4, <2>5, <2>6, GoTyped
<1> QED
  BY <1>3, <1>4, <1>5, <1>6 DEF DocumentStep

\* A new document.
LEMMA CreateTyped ==
  ASSUME CorrectionTypeOK, NEW d \in Documents, NEW m \in [Lots -> [StockStates -> Int]],
         NEW c \in Counts \cup {None}, Create(d, m, c)
  PROVE  document' \in [Documents -> DocumentRecords]
<1>1. [status |-> "DRAFT", approved |-> FALSE, movements |-> m, count |-> c] \in DocumentRecords
  BY DEF DocumentRecords, DocumentStatus
<1> QED
  BY <1>1 DEF Create, CorrectionTypeOK

\* Replacing the first item of a list leaves a list.
LEMMA ReplaceFirst ==
  ASSUME NEW items \in Seq(Int), NEW x \in Int
  PROVE  [items EXCEPT ![1] = x] \in Seq(Int)
<1>1. items \in [1..Len(items) -> Int] /\ Len(items) \in Nat
  OBVIOUS
<1>2. [items EXCEPT ![1] = x] \in [1..Len(items) -> Int]
  BY <1>1
<1> QED
  BY <1>1, <1>2

\* The steps of a stock count.
LEMMA CountStepTyped ==
  ASSUME Inv, CorrectionTypeOK, LedgerTypeOK, NEW r \in Requests, CountStep(r)
  PROVE  CorrectionTypeOK'
<1>1. Tables /\ document \in [Documents -> DocumentRecords] /\ count \in [Counts -> CountRecords]
  BY DEF Inv, CorrectionTypeOK
<1>2. Idle \in RequestRecords
  BY DEF RequestRecords
<1>3. CASE StartCount(r)
  <2>1. [at |-> "readRows"] \in RequestRecords
    BY DEF RequestRecords
  <2> QED
    BY <1>1, <1>3, <2>1, GoTyped DEF StartCount
<1>4. CASE ReadRows(r)
  <2> DEFINE q == [at |-> "openCount", rows |-> [l \in Lots |-> snapshot[l]["AVAILABLE"]]]
  <2>1. [l \in Lots |-> snapshot[l]["AVAILABLE"]] \in [Lots -> Nat]
    BY LedgerAssumption DEF LedgerTypeOK
  <2>2. q \in RequestRecords
    BY <2>1 DEF RequestRecords
  <2>3. Go(r, q)
    BY <1>4 DEF ReadRows
  <2> QED
    BY <1>1, <1>4, <2>2, <2>3, GoTyped DEF ReadRows
<1>5. CASE UpdateCount(r)
  <2> DEFINE c == request[r].count
             lot == request[r].lot
             counted == request[r].counted
             items == count[c].variances[lot]
             after == IF request[r].existing THEN [items EXCEPT ![1] = counted - count[c].system[lot]]
                      ELSE Append(items, counted)
  <2>1. c \in Counts /\ lot \in Lots /\ counted \in Nat
    BY <1>5, RequestRead DEF UpdateCount
  <2>2. items \in Seq(Int) /\ count[c].system[lot] \in Nat
    BY <1>1, <2>1 DEF CountRecords
  <2>3. after \in Seq(Int)
    <3> HIDE DEF items, counted, c, lot
    <3>1. counted - count[c].system[lot] \in Int
      BY <2>1, <2>2
    <3>2. [items EXCEPT ![1] = counted - count[c].system[lot]] \in Seq(Int)
      BY <2>2, <3>1, ReplaceFirst
    <3>3. Append(items, counted) \in Seq(Int)
      BY <2>1, <2>2
    <3> QED
      BY <3>2, <3>3
  <2>4. count' = [count EXCEPT ![c].variances[lot] = after] /\ Go(r, Idle) /\ document' = document
    BY <1>5 DEF UpdateCount
  <2> HIDE DEF after, c, lot
  <2>5. count' \in [Counts -> CountRecords]
    BY <1>1, <2>1, <2>3, <2>4 DEF CountRecords
  <2> QED
    BY <1>1, <1>2, <2>4, <2>5, GoTyped
<1>6. CASE SubmitCount(r) \/ CloseCount(r)
  <2>1. request[r].count \in Counts
    BY <1>6, RequestRead DEF SubmitCount, CloseCount
  <2>2. PICK status \in CountStatus : SetCountStatus(r, status)
    BY <1>6 DEF SubmitCount, CloseCount, CountStatus
  <2>3. count' \in [Counts -> CountRecords]
    BY <1>1, <2>1, <2>2 DEF SetCountStatus, CountRecords
  <2> QED
    BY <1>1, <1>2, <2>2, <2>3, GoTyped DEF SetCountStatus
<1>7. ASSUME NEW c \in Counts, OpenCount(r, c)
      PROVE  CorrectionTypeOK'
  <2> DEFINE rows == request[r].rows
             new == [status |-> "DRAFT", system |-> rows,
                     variances |-> [l \in Lots |-> IF rows[l] > 0 THEN << - rows[l] >> ELSE <<>>]]
  <2>1. rows \in [Lots -> Nat]
    BY <1>7, RequestRead DEF OpenCount
  <2> HIDE DEF rows
  <2>2. new \in CountRecords
    <3>1. \A l \in Lots : (IF rows[l] > 0 THEN << - rows[l] >> ELSE <<>>) \in Seq(Int)
      BY <2>1
    <3> QED
      BY <2>1, <3>1 DEF CountRecords, CountStatus
  <2>3. count' = [count EXCEPT ![c] = new] /\ Go(r, Idle) /\ document' = document
    BY <1>7 DEF OpenCount, rows
  <2> HIDE DEF new
  <2>4. count' \in [Counts -> CountRecords]
    BY <1>1, <2>2, <2>3
  <2> QED
    BY <1>1, <1>2, <2>3, <2>4, GoTyped
<1>8. ASSUME NEW c \in Counts, StartSubmitCount(r, c)
      PROVE  CorrectionTypeOK'
  <2>1. [at |-> "submitCount", count |-> c] \in RequestRecords
    BY DEF RequestRecords
  <2> QED
    BY <1>1, <1>8, <2>1, GoTyped DEF StartSubmitCount
<1>9. ASSUME NEW c \in Counts, StartReconcile(r, c)
      PROVE  CorrectionTypeOK'
  <2>1. [at |-> "close", count |-> c] \in RequestRecords
    BY DEF RequestRecords
  <2>2. [at |-> "draft", count |-> c, variance |-> Variance(c)] \in RequestRecords
    BY VarianceType DEF RequestRecords
  <2> QED
    BY <1>1, <1>9, <2>1, <2>2, GoTyped DEF StartReconcile
<1>10. ASSUME NEW c \in Counts, NEW lot \in Lots, NEW counted \in 0..MaxCorrection,
              StartUpdate(r, c, lot, counted)
       PROVE  CorrectionTypeOK'
  <2> DEFINE q == [at |-> "update", count |-> c, lot |-> lot, counted |-> counted,
                   existing |-> count[c].variances[lot] # <<>>]
  <2>1. counted \in Nat
    BY CorrectionAssumption
  <2>2. q \in RequestRecords
    BY <2>1 DEF RequestRecords
  <2>3. Go(r, q)
    BY <1>10 DEF StartUpdate
  <2> QED
    BY <1>1, <1>10, <2>2, <2>3, GoTyped DEF StartUpdate
<1>11. ASSUME NEW a \in Adjustments, DraftCorrection(r, a)
       PROVE  CorrectionTypeOK'
  <2> DEFINE c == request[r].count
             m == Movements("AVAILABLE", request[r].variance)
             q == [at |-> "next", doc |-> a, to |-> "SUBMITTED", count |-> c]
  <2>1. c \in Counts /\ request[r].variance \in [Lots -> Int] /\ a \in Documents
    BY <1>11, RequestRead DEF DraftCorrection, Documents
  <2>2. m \in [Lots -> [StockStates -> Int]]
    BY <2>1, NewMovementsType
  <2>3. Create(a, m, c) /\ Go(r, q) /\ count' = count
    BY <1>11 DEF DraftCorrection
  <2>4. q \in RequestRecords
    BY <2>1 DEF RequestRecords, Moves, DocumentStatus
  <2> HIDE DEF m, c, q
  <2>5. document' \in [Documents -> DocumentRecords]
    BY <2>1, <2>2, <2>3, CreateTyped
  <2> QED
    BY <1>1, <2>3, <2>4, <2>5, GoTyped
<1>12. CASE ContinueCorrection(r)
  <2> DEFINE d == request[r].doc
             to == request[r].to
             c == request[r].count
             q == [at |-> IF to = "POSTED" THEN "post" ELSE "write", doc |-> d, to |-> to, count |-> c]
  <2>1. d \in Documents /\ to \in DocumentStatus /\ c \in Counts \cup {None}
    BY <1>12, RequestRead DEF ContinueCorrection, Moves
  <2>2. q \in RequestRecords
    BY <2>1 DEF RequestRecords, Moves
  <2>3. Go(r, q) \/ Go(r, Idle)
    BY <1>12 DEF ContinueCorrection, Proceed
  <2> QED
    BY <1>1, <1>2, <1>12, <2>2, <2>3, GoTyped DEF ContinueCorrection
<1> QED
  BY <1>3, <1>4, <1>5, <1>6, <1>7, <1>8, <1>9, <1>10, <1>11, <1>12 DEF CountStep

\* Every step of a correction.
LEMMA CorrectionStepTyped ==
  ASSUME Inv, CorrectionTypeOK, LedgerTypeOK, CorrectionStep
  PROVE  CorrectionTypeOK'
<1>1. ASSUME NEW d \in Documents, NEW m \in [Lots -> [StockStates -> Int]], Create(d, m, None),
             UNCHANGED <<count, request>>
      PROVE  CorrectionTypeOK'
  <2>1. document' \in [Documents -> DocumentRecords]
    BY <1>1, CreateTyped
  <2> QED
    BY <1>1, <2>1 DEF CorrectionTypeOK, RequestRecords, Moves, DocumentRecords, CountRecords, Documents, Idle
<1>2. ASSUME NEW a \in Adjustments, NEW state \in StockStates, NEW lot \in Lots,
             NEW delta \in ((- MaxCorrection)..MaxCorrection) \ {0}, CreateAdjustment(a, state, lot, delta)
      PROVE  CorrectionTypeOK'
  <2>1. a \in Documents /\ delta \in Int
    BY CorrectionAssumption DEF Documents
  <2>2. Movements(state, OfLot(lot, delta)) \in [Lots -> [StockStates -> Int]]
    BY <2>1, OfLotType, NewMovementsType
  <2> QED
    BY <1>1, <1>2, <2>1, <2>2 DEF CreateAdjustment
<1>3. ASSUME NEW d \in Reports, NEW lot \in Lots, NEW quantity \in 1..MaxCorrection,
             CreateReport(d, lot, quantity)
      PROVE  CorrectionTypeOK'
  <2>1. d \in Documents /\ quantity \in Int
    BY CorrectionAssumption DEF Documents
  <2>2. MovementPair("AVAILABLE", "DAMAGED", OfLot(lot, quantity)) \in [Lots -> [StockStates -> Int]]
    BY <2>1, OfLotType, NewMovementsType
  <2> QED
    BY <1>1, <1>3, <2>1, <2>2 DEF CreateReport
<1>4. ASSUME NEW r \in Requests, DocumentStep(r) PROVE CorrectionTypeOK'
  BY <1>4, DocumentStepTyped
<1>5. ASSUME NEW r \in Requests, CountStep(r) PROVE CorrectionTypeOK'
  BY <1>5, CountStepTyped
<1>6. ASSUME NEW r \in Requests, Crash(r) PROVE CorrectionTypeOK'
  <2>1. Idle \in RequestRecords
    BY DEF RequestRecords
  <2> QED
    BY <1>6, <2>1, GoTyped DEF Crash, Inv, CorrectionTypeOK
<1> QED
  BY <1>2, <1>3, <1>4, <1>5, <1>6 DEF CorrectionStep

\* What a receipt delivers, and what its order has received then.
LEMMA DeliveryTypes ==
  ASSUME ProcurementTypeOK, NEW o \in PurchaseOrders, NEW accepted \in [Products -> Nat],
         NEW lot \in LotChoices
  PROVE  /\ Inbound(accepted, lot) \in [Lots -> Nat]
         /\ Delivered(o, accepted) \in [Products -> Nat]
         /\ StatusAfter(o, Delivered(o, accepted)) \in PurchaseOrderStatus
<1>1. \A l \in Lots : accepted[ProductOf[l]] \in Nat /\ Conversion[ProductOf[l]] \in Nat
  BY ProcurementAssumption
<1>2. \A m \in Nat, n \in Nat : m * n \in Nat
  OBVIOUS
<1>3. Inbound(accepted, lot) \in [Lots -> Nat]
  BY <1>1, <1>2 DEF Inbound
<1>4. \A p \in Products : purchaseOrder[o].received[p] \in Nat
  BY DEF ProcurementTypeOK
<1>5. Delivered(o, accepted) \in [Products -> Nat]
  BY <1>4 DEF Delivered
<1> QED
  BY <1>3, <1>5 DEF StatusAfter, PurchaseOrderStatus

\* The records of orders and receipts.
LEMMA ProcurementStepTyped ==
  ASSUME ProcurementTypeOK, ProcurementStep
  PROVE  ProcurementTypeOK'
<1> DEFINE orders == [status : PurchaseOrderStatus, ordered : [Products -> Nat], received : [Products -> Nat]]
           receipts == [order : PurchaseOrders \cup {NoOrder}, accepted : [Products -> Nat], goods : [Lots -> Nat]]
<1>1. purchaseOrder \in [PurchaseOrders -> orders] /\ receipt \in [ReceiptKeys -> receipts]
  BY DEF ProcurementTypeOK
<1>2. SUFFICES purchaseOrder' \in [PurchaseOrders -> orders] /\ receipt' \in [ReceiptKeys -> receipts]
  BY DEF ProcurementTypeOK, PurchaseOrderStatus
<1>3. PICK o \in PurchaseOrders :
        \/ \E ordered \in [Products -> 0..MaxOrdered] : CreatePurchaseOrder(o, ordered)
        \/ ConfirmPurchaseOrder(o) \/ CancelPurchaseOrder(o)
        \/ \E k \in ReceiptKeys, accepted \in [Products -> 0..MaxOrdered], lot \in LotChoices :
             ReceiveGoods(o, k, accepted, lot)
  BY DEF ProcurementStep
<1>4. ASSUME NEW f \in [Products -> 0..MaxOrdered] PROVE f \in [Products -> Nat]
  BY ProcurementAssumption
<1>5. ASSUME NEW ordered \in [Products -> 0..MaxOrdered], CreatePurchaseOrder(o, ordered)
      PROVE  purchaseOrder' \in [PurchaseOrders -> orders] /\ receipt' = receipt
  <2>1. ordered \in [Products -> Nat]
    BY <1>4
  <2> QED
    BY <1>1, <1>5, <2>1 DEF CreatePurchaseOrder, PurchaseOrderStatus
<1>6. CASE ConfirmPurchaseOrder(o) \/ CancelPurchaseOrder(o)
  BY <1>1, <1>6 DEF ConfirmPurchaseOrder, CancelPurchaseOrder, PurchaseOrderStatus
<1>7. ASSUME NEW k \in ReceiptKeys, NEW accepted \in [Products -> 0..MaxOrdered], NEW lot \in LotChoices,
             ReceiveGoods(o, k, accepted, lot)
      PROVE  purchaseOrder' \in [PurchaseOrders -> orders] /\ receipt' \in [ReceiptKeys -> receipts]
  <2> DEFINE inbound == Inbound(accepted, lot)
             total == Delivered(o, accepted)
             status == StatusAfter(o, total)
  <2>1. accepted \in [Products -> Nat]
    BY <1>4
  <2>2. inbound \in [Lots -> Nat] /\ total \in [Products -> Nat] /\ status \in PurchaseOrderStatus
    BY <2>1, DeliveryTypes
  <2>3. /\ receipt' = [receipt EXCEPT ![k] = [order |-> o, accepted |-> accepted, goods |-> inbound]]
        /\ purchaseOrder' = [purchaseOrder EXCEPT ![o].received = total, ![o].status = status]
    BY <1>7 DEF ReceiveGoods
  <2> HIDE DEF inbound, total, status
  <2> QED
    BY <1>1, <2>1, <2>2, <2>3
<1> QED
  BY <1>1, <1>3, <1>5, <1>6, <1>7

\* The stock stays non-negative and in step with its log.
LEMMA StepLedgerRight ==
  ASSUME TypeOK, LedgerRight, [Next]_vars
  PROVE  LedgerRight'
<1>1. CASE UNCHANGED ledgerVars
  BY <1>1 DEF LedgerRight, LedgerTypeOK, SnapshotMatchesMovements, ledgerVars
<1>2. ASSUME NEW key, NEW delta \in [Lots -> [StockStates -> Int]], PostEvent(key, delta)
      PROVE  LedgerRight'
  BY <1>2, PostEventRight DEF LedgerRight, Rows
<1>3. CASE ProcurementStep
  <2>1. ASSUME NEW o \in PurchaseOrders, NEW k \in ReceiptKeys,
               NEW accepted \in [Products -> 0..MaxOrdered], NEW lot \in LotChoices,
               ReceiveGoods(o, k, accepted, lot)
        PROVE  LedgerRight'
    <3>1. accepted \in [Products -> Nat]
      BY ProcurementAssumption
    <3>2. Inbound(accepted, lot) \in [Lots -> Int]
      BY <3>1, DeliveryTypes DEF TypeOK
    <3> QED
      BY <1>2, <2>1, <3>2, NewMovementsType DEF ReceiveGoods
  <2> QED
    BY <1>1, <1>3, <2>1 DEF ProcurementStep, CreatePurchaseOrder, ConfirmPurchaseOrder, CancelPurchaseOrder
<1>4. CASE CorrectionStep
  <2>1. ASSUME NEW r \in Requests, PostDocument(r)
        PROVE  LedgerRight'
    <3>1. document[request[r].doc].movements \in [Lots -> [StockStates -> Int]]
      BY <2>1, RequestRead DEF PostDocument, TypeOK, Moves, CorrectionTypeOK, DocumentRecords
    <3> QED
      BY <1>1, <1>2, <2>1, <3>1 DEF PostDocument
  <2>2. CASE UNCHANGED ledgerVars
    BY <1>1, <2>2
  <2>3. ASSUME NEW r \in Requests, DocumentStep(r)
        PROVE  LedgerRight'
    BY <2>1, <2>2, <2>3
    DEF DocumentStep, SubmitAdjustment, ApproveAdjustment, PostAdjustment, SubmitReport, ApproveReport,
        RejectReport, PostReport, Start, WriteStatus
  <2>4. ASSUME NEW r \in Requests, CountStep(r)
        PROVE  UNCHANGED ledgerVars
    BY <2>4
    DEF CountStep, StartCount, ReadRows, UpdateCount, SubmitCount, CloseCount, SetCountStatus, OpenCount,
        StartSubmitCount, StartReconcile, StartUpdate, DraftCorrection, ContinueCorrection
  <2> QED
    BY <1>4, <2>2, <2>3, <2>4 DEF CorrectionStep, CreateAdjustment, CreateReport, Crash
<1> QED
  BY <1>1, <1>3, <1>4 DEF Next, vars

-----------------------------------------------------------------------------
(* Every unit of stock is in a document.                                   *)

Goods(l) == [k \in ReceiptKeys |-> receipt[k].goods[l]]

Booked(l, s) ==
  [d \in Documents |-> IF DocumentKey(d) \in posted THEN document[d].movements[l][s] ELSE 0]

\* The opening stock and the receipts, which are AVAILABLE.
Inflow(l, s) == IF s = "AVAILABLE" THEN Opening[l] + Sum(Goods(l), ReceiptKeys) ELSE 0

\* What accounts for a row is the inflow and a sum over the documents, before a
\* step and after it.
LEMMA AccountedIsSum ==
  ASSUME NEW l, NEW s
  PROVE  /\ Accounted(l, s) = Inflow(l, s) + Sum(Booked(l, s), Documents)
         /\ Accounted(l, s)' = Inflow(l, s)' + Sum(Booked(l, s)', Documents)
BY DEF Accounted, Inflow, Goods, Booked, SumFunction, Sum

\* Each of its parts is an integer.
LEMMA AccountedTypes ==
  ASSUME TypeOK, NEW l \in Lots, NEW s \in StockStates
  PROVE  /\ \A k \in ReceiptKeys : Goods(l)[k] \in Int
         /\ \A d \in Documents : Booked(l, s)[d] \in Int
         /\ Sum(Goods(l), ReceiptKeys) \in Int /\ Inflow(l, s) \in Int
         /\ Sum(Booked(l, s), Documents) \in Int
<1>1. \A k \in ReceiptKeys : Goods(l)[k] \in Int
  BY DEF TypeOK, ProcurementTypeOK, Goods
<1>2. \A d \in Documents : Booked(l, s)[d] \in Int
  BY DEF TypeOK, CorrectionTypeOK, DocumentRecords, Booked
<1>3. Sum(Goods(l), ReceiptKeys) \in Int /\ Sum(Booked(l, s), Documents) \in Int
  BY <1>1, <1>2, SumIsInt, FinitelyManyReceipts, FinitelyManyDocuments
<1>4. Opening[l] \in Int
  BY LedgerAssumption
<1> QED
  BY <1>1, <1>2, <1>3, <1>4 DEF Inflow

\* A step that moves no stock, uses no key and leaves the movements of the
\* posted documents alone.
LEMMA StockStaysDocumented ==
  ASSUME StockIsDocumented, UNCHANGED <<snapshot, posted, receipt>>,
         \A d \in Documents : DocumentKey(d) \in posted => document'[d].movements = document[d].movements
  PROVE  StockIsDocumented'
<1>1. SUFFICES ASSUME NEW l \in Lots, NEW s \in StockStates
               PROVE  snapshot'[l][s] = Accounted(l, s)'
  BY DEF StockIsDocumented
<1>2. Inflow(l, s)' = Inflow(l, s)
  BY DEF Inflow, Goods
<1>3. \A d \in Documents : Booked(l, s)'[d] = Booked(l, s)[d]
  BY DEF Booked, DocumentKey, ReportKey, AdjustmentKey
<1>4. Sum(Booked(l, s)', Documents) = Sum(Booked(l, s), Documents)
  <2> DEFINE before == Booked(l, s)
             after == Booked(l, s)'
  <2>1. \A d \in Documents : after[d] = before[d]
    BY <1>3
  <2> HIDE DEF before, after
  <2>2. Sum(after, Documents) = Sum(before, Documents)
    BY <2>1, SumAgrees, FinitelyManyDocuments
  <2> QED
    BY <2>2 DEF before, after
<1> QED
  BY <1>2, <1>4, AccountedIsSum DEF StockIsDocumented

\* An event posted for the first time moves each row by its delta.
LEMMA EventMovesRows ==
  ASSUME NEW key, NEW delta, key \notin posted, PostEvent(key, delta)
  PROVE  \A l \in Lots, s \in StockStates : snapshot'[l][s] = snapshot[l][s] + delta[l][s]
BY DEF PostEvent, ApplyMovements, Add

\* Posting a document books it, and no other.
LEMMA PostingIsDocumented ==
  ASSUME TypeOK, TypeOK', StockIsDocumented, NEW d \in Documents, DocumentKey(d) \notin posted,
         PostEvent(DocumentKey(d), document[d].movements), UNCHANGED <<document, receipt>>
  PROVE  StockIsDocumented'
<1>1. SUFFICES ASSUME NEW l \in Lots, NEW s \in StockStates
               PROVE  snapshot'[l][s] = Accounted(l, s)'
  BY DEF StockIsDocumented
<1> DEFINE before == Booked(l, s)
           after == Booked(l, s)'
           move == document[d].movements[l][s]
<1>2. posted' = posted \cup {DocumentKey(d)}
  BY PostEventKeys
<1>3. \A e \in Documents : DocumentKey(e)' = DocumentKey(e)
  BY DEF DocumentKey, ReportKey, AdjustmentKey
<1>4. before[d] = 0 /\ after[d] = move /\ \A e \in Documents \ {d} : after[e] = before[e]
  BY <1>2, <1>3, DocumentKeysDiffer DEF Booked
<1>5. /\ \A e \in Documents : before[e] \in Int
      /\ after[d] \in Int /\ Sum(before, Documents) \in Int /\ Inflow(l, s) \in Int
  <2>1. move \in Int
    BY DEF TypeOK, CorrectionTypeOK, DocumentRecords
  <2> QED
    BY <1>4, <2>1, AccountedTypes
<1>6. snapshot[l][s] = Inflow(l, s) + Sum(before, Documents)
  BY AccountedIsSum DEF StockIsDocumented
<1>7. Accounted(l, s)' = Inflow(l, s) + Sum(after, Documents)
  <2>1. Inflow(l, s)' = Inflow(l, s)
    BY DEF Inflow, Goods
  <2> QED
    BY <2>1, AccountedIsSum
<1>8. snapshot'[l][s] = snapshot[l][s] + move
  BY EventMovesRows
<1> HIDE DEF before, after, move
<1>9. Sum(after, Documents) = Sum(before, Documents) + move
  <2>1. Sum(after, Documents) = Sum(before, Documents) + (after[d] - before[d])
    BY <1>4, <1>5, SumChanges, FinitelyManyDocuments
  <2> QED
    BY <1>4, <1>5, <2>1
<1> QED
  BY <1>4, <1>5, <1>6, <1>7, <1>8, <1>9

\* What a receipt brings is what the receipt says.
LEMMA ReceivingIsDocumented ==
  ASSUME TypeOK, TypeOK', StockIsDocumented, UnusedReceipts, NEW o \in PurchaseOrders, NEW k \in ReceiptKeys,
         NEW accepted \in [Products -> 0..MaxOrdered], NEW lot \in LotChoices,
         ReceiveGoods(o, k, accepted, lot), UNCHANGED document
  PROVE  StockIsDocumented'
<1>1. SUFFICES ASSUME NEW l \in Lots, NEW s \in StockStates
               PROVE  snapshot'[l][s] = Accounted(l, s)'
  BY DEF StockIsDocumented
<1> DEFINE inbound == Inbound(accepted, lot)
           before == Goods(l)
           after == Goods(l)'
<1>2. inbound[l] \in Nat
  <2>1. accepted \in [Products -> Nat]
    BY ProcurementAssumption
  <2> QED
    BY <2>1, DeliveryTypes DEF TypeOK
<1>3. /\ GoodsReceiptKey(k) \notin posted
      /\ PostEvent(GoodsReceiptKey(k), Movements("AVAILABLE", inbound))
      /\ receipt' = [receipt EXCEPT ![k] = [order |-> o, accepted |-> accepted, goods |-> inbound]]
  BY DEF ReceiveGoods, UnusedReceipts
<1>4. before[k] = 0 /\ after[k] = inbound[l] /\ \A j \in ReceiptKeys \ {k} : after[j] = before[j]
  BY <1>3 DEF Goods, TypeOK, ProcurementTypeOK, ReceiveGoods, UnusedReceipts
<1>5. Sum(Booked(l, s)', Documents) = Sum(Booked(l, s), Documents)
  <2>1. posted' = posted \cup {GoodsReceiptKey(k)}
    BY <1>3, PostEventKeys
  <2>2. Booked(l, s)' = Booked(l, s)
    BY <2>1, ReceiptKeysDiffer DEF Booked, DocumentKey, ReportKey, AdjustmentKey
  <2> QED
    BY <2>2
<1>6. snapshot'[l][s] = snapshot[l][s] + (IF s = "AVAILABLE" THEN inbound[l] ELSE 0)
  BY <1>3, EventMovesRows DEF Movements
<1>7. /\ \A j \in ReceiptKeys : before[j] \in Int
      /\ Sum(before, ReceiptKeys) \in Int /\ Sum(Booked(l, s), Documents) \in Int
      /\ Opening[l] \in Int
  BY AccountedTypes, LedgerAssumption
<1>8. Sum(after, ReceiptKeys) = Sum(before, ReceiptKeys) + inbound[l]
  <2> HIDE DEF before, after, inbound
  <2>1. Sum(after, ReceiptKeys) = Sum(before, ReceiptKeys) + (after[k] - before[k])
    BY <1>2, <1>4, <1>7, SumChanges, FinitelyManyReceipts
  <2> QED
    BY <1>2, <1>4, <2>1
<1>9. /\ snapshot[l][s] = Inflow(l, s) + Sum(Booked(l, s), Documents)
      /\ Accounted(l, s)' = Inflow(l, s)' + Sum(Booked(l, s), Documents)
  BY <1>5, AccountedIsSum DEF StockIsDocumented
<1>10. /\ Inflow(l, s) = IF s = "AVAILABLE" THEN Opening[l] + Sum(before, ReceiptKeys) ELSE 0
       /\ Inflow(l, s)' = IF s = "AVAILABLE" THEN Opening[l] + Sum(after, ReceiptKeys) ELSE 0
  BY DEF Inflow
<1> HIDE DEF before, after, inbound
<1> QED
  BY <1>2, <1>6, <1>7, <1>8, <1>9, <1>10

-----------------------------------------------------------------------------
(* Orders and their receipts.                                              *)

Taken(p) == [k \in ReceiptKeys |-> receipt[k].accepted[p]]

\* What was accepted of a product is the sum over the receipts of the order,
\* before a step and after it.
LEMMA AcceptedIsSum ==
  ASSUME NEW o, NEW p
  PROVE  /\ Accepted(o, p) = Sum(Taken(p), ReceiptsOf(o))
         /\ Accepted(o, p)' = Sum(Taken(p)', ReceiptsOf(o)')
BY DEF Accepted, Taken, Sum

\* What a receipt accepted is a natural number, and an order has finitely many
\* receipts.
LEMMA TakenTypes ==
  ASSUME TypeOK, NEW o \in PurchaseOrders, NEW p \in Products
  PROVE  /\ \A k \in ReceiptKeys : Taken(p)[k] \in Nat
         /\ IsFiniteSet(ReceiptsOf(o)) /\ ReceiptsOf(o) \subseteq ReceiptKeys
<1>1. ReceiptsOf(o) \subseteq ReceiptKeys
  BY DEF ReceiptsOf
<1> QED
  BY <1>1, FinitelyManyReceipts, FS_Subset DEF Taken, TypeOK, ProcurementTypeOK

\* A receipt counts for its own order, from the moment it is made.
LEMMA ReceivingAddsUp ==
  ASSUME TypeOK, TypeOK', ReceivedAddsUp, NEW o \in PurchaseOrders, NEW k \in ReceiptKeys,
         NEW accepted \in [Products -> 0..MaxOrdered], NEW lot \in LotChoices,
         ReceiveGoods(o, k, accepted, lot)
  PROVE  /\ ReceivedAddsUp'
         /\ \A q \in PurchaseOrders : q # o => ReceiptsOf(q)' = ReceiptsOf(q)
<1>1. /\ receipt[k].order = NoOrder /\ receipt'[k].order = o /\ receipt'[k].accepted = accepted
      /\ \A j \in ReceiptKeys : j # k => receipt'[j] = receipt[j]
      /\ purchaseOrder'[o].received = Delivered(o, accepted)
      /\ \A q \in PurchaseOrders : q # o => purchaseOrder'[q] = purchaseOrder[q]
  BY DEF ReceiveGoods, TypeOK, ProcurementTypeOK
<1>2. /\ ReceiptsOf(o)' = ReceiptsOf(o) \cup {k} /\ k \notin ReceiptsOf(o)
      /\ \A q \in PurchaseOrders : q # o => ReceiptsOf(q)' = ReceiptsOf(q) /\ k \notin ReceiptsOf(q)
  BY <1>1, ProcurementAssumption DEF ReceiptsOf
<1>3. ASSUME NEW q \in PurchaseOrders, NEW p \in Products
      PROVE  purchaseOrder'[q].received[p] = Accepted(q, p)'
  <2> DEFINE before == Taken(p)
             after == Taken(p)'
             keys == ReceiptsOf(q)
             keysAfter == ReceiptsOf(q)'
  <2>1. /\ \A j \in ReceiptKeys : j # k => after[j] = before[j]
        /\ after[k] = accepted[p]
        /\ \A j \in ReceiptKeys : before[j] \in Nat /\ after[j] \in Nat
        /\ IsFiniteSet(keys) /\ keys \subseteq ReceiptKeys
    <3>1. \A j \in ReceiptKeys : receipt'[j].accepted[p] \in Nat
      BY DEF TypeOK, ProcurementTypeOK
    <3> QED
      BY <1>1, <3>1, TakenTypes DEF Taken
  <2>2. k \notin keys
    BY <1>2
  <2>3. purchaseOrder[q].received[p] = Sum(before, keys) /\ Accepted(q, p)' = Sum(after, keysAfter)
    BY AcceptedIsSum DEF ReceivedAddsUp
  <2>4. q = o => keysAfter = keys \cup {k} /\ purchaseOrder'[o].received[p] = purchaseOrder[o].received[p] + accepted[p]
    BY <1>1, <1>2 DEF Delivered
  <2>5. q # o => keysAfter = keys /\ purchaseOrder'[q] = purchaseOrder[q]
    BY <1>1, <1>2
  <2> HIDE DEF before, after, keys, keysAfter
  <2>6. Sum(after, keys) = Sum(before, keys)
    BY <2>1, <2>2, SumAgrees
  <2>7. Sum(before, keys) \in Int
    BY <2>1, SumIsInt
  <2>8. CASE q = o
    <3>1. Sum(after, keys \cup {k}) = after[k] + Sum(after, keys)
      BY <2>1, <2>2, SumAdd
    <3>2. accepted[p] \in Int
      BY <2>1
    <3> QED
      <4>1. purchaseOrder'[q].received[p] = Sum(before, keys) + accepted[p]
        BY <2>3, <2>4, <2>8
      <4>2. Accepted(q, p)' = accepted[p] + Sum(before, keys)
        BY <2>1, <2>3, <2>4, <2>6, <2>8, <3>1
      <4> QED
        BY <2>7, <3>2, <4>1, <4>2
  <2>9. CASE q # o
    BY <2>3, <2>5, <2>6, <2>9
  <2> QED
    BY <2>8, <2>9
<1> QED
  BY <1>2, <1>3 DEF ReceivedAddsUp

\* The status a receipt leaves says how far its order got.
LEMMA ReceivingFits ==
  ASSUME TypeOK, TypeOK', NEW o \in PurchaseOrders, StatusFits(o), NEW k \in ReceiptKeys,
         NEW accepted \in [Products -> 0..MaxOrdered], NEW lot \in LotChoices,
         ReceiveGoods(o, k, accepted, lot)
  PROVE  StatusFits(o)'
<1> DEFINE order == purchaseOrder[o]
           total == Delivered(o, accepted)
<1>1. /\ order.status \in {"CONFIRMED", "PARTIALLY_RECEIVED"}
      /\ \A p \in Products : accepted[p] <= order.ordered[p] - order.received[p]
      /\ purchaseOrder'[o].ordered = order.ordered /\ purchaseOrder'[o].received = total
      /\ purchaseOrder'[o].status = StatusAfter(o, total)
  BY DEF ReceiveGoods, TypeOK, ProcurementTypeOK
<1>2. \A p \in Products : order.ordered[p] \in Nat /\ order.received[p] \in Nat /\ accepted[p] \in Nat
  BY ProcurementAssumption DEF TypeOK, ProcurementTypeOK
<1>3. \A p \in Products : total[p] = order.received[p] + accepted[p]
  BY DEF Delivered
<1>4. \A p \in Products : total[p] <= order.ordered[p] /\ total[p] \in Nat
  BY <1>1, <1>2, <1>3
<1>5. order.ordered # Nothing
  BY <1>1 DEF StatusFits
<1>6. order.ordered \in [Products -> Nat] /\ total \in [Products -> Nat]
  BY <1>2, <1>4 DEF TypeOK, ProcurementTypeOK, Delivered
<1>7. (\A p \in Products : total[p] >= order.ordered[p]) <=> total = order.ordered
  <2>1. ASSUME \A p \in Products : total[p] >= order.ordered[p]
        PROVE  total = order.ordered
    <3>1. \A p \in Products : total[p] = order.ordered[p]
      BY <1>2, <1>4, <2>1
    <3> HIDE DEF total, order
    <3> QED
      BY <1>6, <3>1
  <2> QED
    BY <1>2, <2>1
<1>8. StatusAfter(o, total) =
        IF total = order.ordered THEN "RECEIVED"
        ELSE IF total # Nothing THEN "PARTIALLY_RECEIVED" ELSE "CONFIRMED"
  BY <1>7 DEF StatusAfter
<1> HIDE DEF total
<1> QED
  BY <1>1, <1>4, <1>5, <1>8 DEF StatusFits

\* Every step of procurement.
LEMMA ProcurementStepReceipts ==
  ASSUME TypeOK, TypeOK', ReceiptInv, ProcurementStep
  PROVE  ReceiptInv'
<1>1. ReceivedAddsUp /\ (\A o \in PurchaseOrders : StatusFits(o)) /\ UnusedReceipts
  BY DEF ReceiptInv
<1>2. ASSUME NEW o \in PurchaseOrders, UNCHANGED <<ledgerVars, receipt>>, StatusFits(o)',
             purchaseOrder'[o].received = purchaseOrder[o].received,
             \A q \in PurchaseOrders : q # o => purchaseOrder'[q] = purchaseOrder[q]
      PROVE  ReceiptInv'
  <2>1. ReceivedAddsUp'
    BY <1>1, <1>2 DEF ReceivedAddsUp, Accepted, ReceiptsOf
  <2>2. ASSUME NEW q \in PurchaseOrders PROVE StatusFits(q)'
    BY <1>1, <1>2 DEF StatusFits, ReceiptsOf
  <2>3. UnusedReceipts'
    BY <1>1, <1>2 DEF UnusedReceipts, ledgerVars, GoodsReceiptKey
  <2> QED
    BY <2>1, <2>2, <2>3 DEF ReceiptInv
<1>3. ASSUME NEW o \in PurchaseOrders, NEW ordered \in [Products -> 0..MaxOrdered], CreatePurchaseOrder(o, ordered)
      PROVE  ReceiptInv'
  <2>1. /\ purchaseOrder'[o].ordered = ordered /\ purchaseOrder'[o].status = "DRAFT"
        /\ purchaseOrder'[o].received = purchaseOrder[o].received
        /\ \A q \in PurchaseOrders : q # o => purchaseOrder'[q] = purchaseOrder[q]
    BY <1>3 DEF CreatePurchaseOrder, TypeOK, ProcurementTypeOK
  <2>2. StatusFits(o)'
    <3>1. purchaseOrder[o].received = Nothing /\ ReceiptsOf(o) = {} /\ ordered # Nothing
      BY <1>1, <1>3 DEF CreatePurchaseOrder, StatusFits
    <3>2. \A p \in Products : 0 <= ordered[p] /\ Nothing[p] = 0
      BY ProcurementAssumption DEF Nothing
    <3> QED
      BY <1>3, <2>1, <3>1, <3>2 DEF StatusFits, CreatePurchaseOrder, ReceiptsOf
  <2> QED
    BY <1>2, <1>3, <2>1, <2>2 DEF CreatePurchaseOrder
<1>4. ASSUME NEW o \in PurchaseOrders, ConfirmPurchaseOrder(o) \/ CancelPurchaseOrder(o)
      PROVE  ReceiptInv'
  <2>1. /\ purchaseOrder'[o].ordered = purchaseOrder[o].ordered
        /\ purchaseOrder'[o].received = purchaseOrder[o].received
        /\ \/ purchaseOrder'[o].status = "CONFIRMED" /\ purchaseOrder[o].status = "DRAFT"
           \/ /\ purchaseOrder'[o].status = "CANCELLED" /\ ReceiptsOf(o) = {}
              /\ purchaseOrder[o].status \in {"DRAFT", "CONFIRMED"}
        /\ \A q \in PurchaseOrders : q # o => purchaseOrder'[q] = purchaseOrder[q]
        /\ UNCHANGED <<ledgerVars, receipt>>
    BY <1>4 DEF ConfirmPurchaseOrder, CancelPurchaseOrder, TypeOK, ProcurementTypeOK
  <2>2. StatusFits(o)'
    BY <1>1, <2>1 DEF StatusFits, ReceiptsOf
  <2> QED
    BY <1>2, <2>1, <2>2
<1>5. ASSUME NEW o \in PurchaseOrders, NEW k \in ReceiptKeys, NEW accepted \in [Products -> 0..MaxOrdered],
             NEW lot \in LotChoices, ReceiveGoods(o, k, accepted, lot)
      PROVE  ReceiptInv'
  <2>1. ReceivedAddsUp' /\ \A q \in PurchaseOrders : q # o => ReceiptsOf(q)' = ReceiptsOf(q)
    BY <1>1, <1>5, ReceivingAddsUp
  <2>2. ASSUME NEW q \in PurchaseOrders PROVE StatusFits(q)'
    <3>1. CASE q = o
      BY <1>1, <1>5, <3>1, ReceivingFits
    <3>2. CASE q # o
      <4>1. purchaseOrder'[q] = purchaseOrder[q]
        BY <1>5, <3>2 DEF ReceiveGoods, TypeOK, ProcurementTypeOK
      <4> QED
        BY <1>1, <2>1, <3>2, <4>1 DEF StatusFits
    <3> QED
      BY <3>1, <3>2
  <2>3. UnusedReceipts'
    <3>1. posted' = posted \cup {GoodsReceiptKey(k)}
      BY <1>5, PostEventKeys DEF ReceiveGoods
    <3>2. receipt'[k].order = o /\ \A j \in ReceiptKeys : j # k => receipt'[j] = receipt[j]
      BY <1>5 DEF ReceiveGoods, TypeOK, ProcurementTypeOK
    <3> QED
      BY <1>1, <3>1, <3>2, ProcurementAssumption DEF UnusedReceipts, GoodsReceiptKey
  <2> QED
    BY <2>1, <2>2, <2>3 DEF ReceiptInv
<1> QED
  BY <1>3, <1>4, <1>5 DEF ProcurementStep

-----------------------------------------------------------------------------
(* The invariant of the stock, and what follows from it.                   *)

StockInv == Inv /\ TypeOK /\ LedgerRight /\ ReceiptInv /\ StockIsDocumented

\* No step disturbs the types, nor that the rows are the movements of the
\* ledger.
LEMMA StepTyped ==
  ASSUME Inv, TypeOK, LedgerRight, [Next]_vars
  PROVE  TypeOK' /\ LedgerRight'
<1>1. LedgerRight'
  BY StepLedgerRight
<1>2. LedgerTypeOK /\ ProcurementTypeOK /\ CorrectionTypeOK
  BY DEF TypeOK
<1>3. CASE ProcurementStep /\ UNCHANGED correctionVars
  <2>1. CorrectionTypeOK'
    BY <1>2, <1>3 DEF correctionVars, CorrectionTypeOK, DocumentRecords, CountRecords, RequestRecords, Moves,
                      Documents, Idle
  <2> QED
    BY <1>1, <1>2, <1>3, <2>1, ProcurementStepTyped DEF TypeOK, LedgerRight
<1>4. CASE CorrectionStep /\ UNCHANGED procurementVars
  <2>1. ProcurementTypeOK'
    BY <1>2, <1>4 DEF procurementVars, ProcurementTypeOK, PurchaseOrderStatus
  <2> QED
    BY <1>1, <1>2, <1>4, <2>1, CorrectionStepTyped DEF TypeOK, LedgerRight
<1>5. CASE UNCHANGED vars
  BY <1>1, <1>2, <1>5
  DEF vars, procurementVars, ProcurementTypeOK, PurchaseOrderStatus, correctionVars, CorrectionTypeOK,
      DocumentRecords, CountRecords, RequestRecords, Moves, Documents, Idle, TypeOK, LedgerRight
<1> QED
  BY <1>3, <1>4, <1>5 DEF Next

\* A correction documents what it moves.
LEMMA CorrectionStepDocumented ==
  ASSUME Inv, TypeOK, TypeOK', StockIsDocumented, CorrectionStep, UNCHANGED procurementVars
  PROVE  StockIsDocumented'
<1>1. receipt' = receipt /\ document \in [Documents -> DocumentRecords]
  BY DEF procurementVars, TypeOK, CorrectionTypeOK
<1>2. CASE UNCHANGED <<ledgerVars, document>>
  BY <1>1, <1>2, StockStaysDocumented DEF ledgerVars
<1>3. ASSUME NEW d \in Documents, NEW m, NEW c, Create(d, m, c), UNCHANGED ledgerVars
      PROVE  StockIsDocumented'
  <2>1. DocumentKey(d) \notin posted
    BY <1>3 DEF Create, Inv, ApprovalIsRecorded, PostedWasApproved
  <2>2. \A e \in Documents : e # d => document'[e] = document[e]
    BY <1>1, <1>3 DEF Create
  <2> QED
    BY <1>1, <1>3, <2>1, <2>2, StockStaysDocumented DEF ledgerVars
<1>4. ASSUME NEW r \in Requests, PostDocument(r)
      PROVE  StockIsDocumented'
  <2>1. request[r].doc \in Documents
    BY <1>4 DEF PostDocument, Inv, RequestsJustified, Justified
  <2>2. CASE UNCHANGED ledgerVars
    BY <1>2, <1>4, <2>2 DEF PostDocument
  <2> QED
    BY <1>1, <1>4, <2>1, <2>2, PostingIsDocumented DEF PostDocument, PostEvent
<1>5. ASSUME NEW r \in Requests, WriteStatus(r)
      PROVE  StockIsDocumented'
  <2>1. \A e \in Documents : document'[e].movements = document[e].movements
    BY <1>1, <1>5 DEF WriteStatus, DocumentRecords
  <2> QED
    BY <1>1, <1>5, <2>1, StockStaysDocumented DEF WriteStatus, ledgerVars
<1>6. ASSUME NEW r \in Requests, DocumentStep(r)
      PROVE  StockIsDocumented'
  BY <1>2, <1>4, <1>5, <1>6
  DEF DocumentStep, SubmitAdjustment, ApproveAdjustment, PostAdjustment, SubmitReport, ApproveReport,
      RejectReport, PostReport, Start
<1>7. ASSUME NEW r \in Requests, CountStep(r)
      PROVE  StockIsDocumented'
  <2>1. ASSUME NEW a \in Adjustments, DraftCorrection(r, a)
        PROVE  StockIsDocumented'
    BY <1>3, <2>1 DEF DraftCorrection, Documents
  <2>2. CASE UNCHANGED <<ledgerVars, document>>
    BY <1>2, <2>2
  <2> QED
    BY <1>7, <2>1, <2>2
    DEF CountStep, StartCount, ReadRows, UpdateCount, SubmitCount, CloseCount, SetCountStatus, OpenCount,
        StartSubmitCount, StartReconcile, StartUpdate, ContinueCorrection
<1>8. ASSUME NEW a \in Adjustments, NEW state, NEW lot, NEW delta, CreateAdjustment(a, state, lot, delta)
      PROVE  StockIsDocumented'
  BY <1>3, <1>8 DEF CreateAdjustment, Documents
<1>9. ASSUME NEW d \in Reports, NEW lot, NEW quantity, CreateReport(d, lot, quantity)
      PROVE  StockIsDocumented'
  BY <1>3, <1>9 DEF CreateReport, Documents
<1>10. ASSUME NEW r \in Requests, Crash(r)
       PROVE  StockIsDocumented'
  BY <1>2, <1>10 DEF Crash
<1> QED
  BY <1>6, <1>7, <1>8, <1>9, <1>10 DEF CorrectionStep

\* A correction uses no receipt's key.
LEMMA CorrectionStepReceipts ==
  ASSUME Inv, ReceiptInv, CorrectionStep, UNCHANGED procurementVars
  PROVE  ReceiptInv'
<1>1. UNCHANGED <<purchaseOrder, receipt>>
  BY DEF procurementVars
<1>2. posted' = posted \/ \E d \in Documents : posted' = posted \cup {DocumentKey(d)}
  <2>1. ASSUME NEW r \in Requests, PostDocument(r)
        PROVE  posted' = posted \/ \E d \in Documents : posted' = posted \cup {DocumentKey(d)}
    <3>1. request[r].doc \in Documents
      BY <2>1 DEF PostDocument, Inv, RequestsJustified, Justified
    <3> QED
      BY <2>1, <3>1, PostEventKeys DEF PostDocument, ledgerVars
  <2>2. ASSUME NEW r \in Requests, CountStep(r)
        PROVE  posted' = posted
    BY <2>2
    DEF CountStep, StartCount, ReadRows, UpdateCount, SubmitCount, CloseCount, SetCountStatus, OpenCount,
        StartSubmitCount, StartReconcile, StartUpdate, DraftCorrection, ContinueCorrection, ledgerVars
  <2>3. ASSUME NEW r \in Requests, DocumentStep(r)
        PROVE  PostDocument(r) \/ posted' = posted
    BY <2>3
    DEF DocumentStep, SubmitAdjustment, ApproveAdjustment, PostAdjustment, SubmitReport, ApproveReport,
        RejectReport, PostReport, Start, WriteStatus, ledgerVars
  <2> QED
    BY <2>1, <2>2, <2>3 DEF CorrectionStep, CreateAdjustment, CreateReport, Crash, ledgerVars
<1>3. \A k : GoodsReceiptKey(k) \in posted' <=> GoodsReceiptKey(k) \in posted
  BY <1>2, ReceiptKeysDiffer
<1>4. ReceivedAddsUp'
  BY <1>1 DEF ReceiptInv, ReceivedAddsUp, Accepted, ReceiptsOf
<1>5. \A o \in PurchaseOrders : StatusFits(o)'
  BY <1>1 DEF ReceiptInv, StatusFits, ReceiptsOf
<1>6. UnusedReceipts'
  BY <1>1, <1>3 DEF ReceiptInv, UnusedReceipts, GoodsReceiptKey
<1> QED
  BY <1>4, <1>5, <1>6 DEF ReceiptInv

\* No step disturbs the invariant of the stock.
LEMMA StockInvKept ==
  ASSUME StockInv, [Next]_vars
  PROVE  StockInv'
<1>1. Inv' /\ TypeOK' /\ LedgerRight'
  BY InvKept, StepTyped DEF StockInv
<1>2. CASE ProcurementStep /\ UNCHANGED correctionVars
  <2>1. ReceiptInv'
    BY <1>1, <1>2, ProcurementStepReceipts DEF StockInv
  <2>2. document' = document
    BY <1>2 DEF correctionVars
  <2>3. ASSUME UNCHANGED <<ledgerVars, receipt>>
        PROVE  StockIsDocumented'
    BY <2>2, <2>3, StockStaysDocumented DEF StockInv, ledgerVars
  <2>4. StockIsDocumented'
    BY <1>1, <1>2, <2>2, <2>3, ReceivingIsDocumented
    DEF StockInv, ReceiptInv, ProcurementStep, CreatePurchaseOrder, ConfirmPurchaseOrder, CancelPurchaseOrder
  <2> QED
    BY <1>1, <2>1, <2>4 DEF StockInv
<1>3. CASE CorrectionStep /\ UNCHANGED procurementVars
  <2>1. StockIsDocumented'
    BY <1>1, <1>3, CorrectionStepDocumented DEF StockInv
  <2>2. ReceiptInv'
    BY <1>3, CorrectionStepReceipts DEF StockInv
  <2> QED
    BY <1>1, <2>1, <2>2 DEF StockInv
<1>4. CASE UNCHANGED vars
  <2>1. UNCHANGED <<snapshot, moved, posted, purchaseOrder, receipt, document>>
    BY <1>4 DEF vars, ledgerVars, procurementVars, correctionVars
  <2>2. StockIsDocumented'
    BY <2>1, StockStaysDocumented DEF StockInv
  <2>3. ReceiptInv'
    BY <2>1 DEF StockInv, ReceiptInv, ReceivedAddsUp, Accepted, ReceiptsOf, StatusFits, UnusedReceipts,
                GoodsReceiptKey
  <2> QED
    BY <1>1, <2>2, <2>3 DEF StockInv
<1> QED
  BY <1>2, <1>3, <1>4 DEF Next

\* The stock is the opening stock at first.
LEMMA StockInvInitially == Init => StockInv
<1> SUFFICES ASSUME Init PROVE StockInv
  OBVIOUS
<1>1. Inv
  BY InvInitially
<1>2. LedgerRight
  BY LedgerInitRight DEF Init, LedgerRight
<1>3. ProcurementTypeOK
  BY DEF Init, ProcurementInit, ProcurementTypeOK, PurchaseOrderStatus, Nothing
<1>4. CorrectionTypeOK
  <2>1. NoQuantity \in [Lots -> Int] /\ NoQuantity \in [Lots -> Nat]
    BY DEF NoQuantity
  <2>2. Movements("AVAILABLE", NoQuantity) \in [Lots -> [StockStates -> Int]]
    BY <2>1, NewMovementsType
  <2>3. document \in [Documents -> DocumentRecords]
    BY <2>2 DEF Init, CorrectionInit, DocumentRecords, DocumentStatus
  <2>4. count \in [Counts -> CountRecords]
    <3>1. [l \in Lots |-> <<>>] \in [Lots -> Seq(Int)]
      OBVIOUS
    <3> QED
      BY <2>1, <3>1 DEF Init, CorrectionInit, CountRecords, CountStatus
  <2> QED
    BY <2>3, <2>4 DEF Init, CorrectionInit, CorrectionTypeOK, RequestRecords
<1>5. /\ \A o \in PurchaseOrders : ReceiptsOf(o) = {} /\ purchaseOrder[o].received = Nothing
                                   /\ purchaseOrder[o].ordered = Nothing /\ purchaseOrder[o].status = "NONE"
      /\ \A k \in ReceiptKeys, l \in Lots : receipt[k].goods[l] = 0
      /\ posted = {}
      /\ snapshot = Movements("AVAILABLE", Opening)
  BY ProcurementAssumption DEF Init, LedgerInit, ProcurementInit, ReceiptsOf
<1>6. ASSUME NEW o \in PurchaseOrders, NEW p \in Products
      PROVE  purchaseOrder[o].received[p] = Accepted(o, p)
  <2>1. Accepted(o, p) = Sum(Taken(p), {})
    BY <1>5, AcceptedIsSum
  <2> QED
    BY <1>5, <2>1, SumEmpty DEF Nothing
<1>7. \A o \in PurchaseOrders : StatusFits(o)
  BY <1>5 DEF StatusFits, Nothing
<1>8. UnusedReceipts
  BY <1>5 DEF UnusedReceipts
<1>9. ASSUME NEW l \in Lots, NEW s \in StockStates
      PROVE  snapshot[l][s] = Accounted(l, s)
  <2>1. Sum(Booked(l, s), Documents) = 0
    <3>1. \A d \in Documents : Booked(l, s)[d] = 0
      BY <1>5 DEF Booked
    <3> QED
      BY <3>1, SumOfZeros, FinitelyManyDocuments
  <2>2. Sum(Goods(l), ReceiptKeys) = 0
    <3>1. \A k \in ReceiptKeys : Goods(l)[k] = 0
      BY <1>5 DEF Goods
    <3> QED
      BY <3>1, SumOfZeros, FinitelyManyReceipts
  <2>3. Opening[l] \in Int /\ snapshot[l][s] = IF s = "AVAILABLE" THEN Opening[l] ELSE 0
    BY <1>5, LedgerAssumption DEF Movements
  <2> QED
    BY <2>1, <2>2, <2>3, AccountedIsSum DEF Inflow
<1> QED
  BY <1>1, <1>2, <1>3, <1>4, <1>6, <1>7, <1>8, <1>9
  DEF StockInv, TypeOK, LedgerRight, ReceiptInv, ReceivedAddsUp, StockIsDocumented

\* The types of the records, the receipts' running totals and the book of the
\* stock, kept by every handler.
THEOREM StockInvHolds == Spec => []StockInv
BY StockInvInitially, StockInvKept, PTL DEF Spec

\* Whatever is in the warehouse was there at the start, was received, or was
\* moved by exactly one posting of a document: no repeated, overlapping or
\* interrupted request moves stock twice or without a document.
THEOREM StockWasDocumented == Spec => []StockIsDocumented
<1>1. StockInv => StockIsDocumented
  BY DEF StockInv
<1> QED
  BY <1>1, StockInvHolds, PTL

\* The receipts of an order never exceed it, and RECEIVED means that they
\* cover it, whatever quantities they came in.
THEOREM ReceiptsStayWithinOrder == Spec => []ReceiptsWithinOrder
<1>1. ASSUME StockInv PROVE ReceiptsWithinOrder
  <2> SUFFICES ASSUME NEW o \in PurchaseOrders
      PROVE  LET accepted == [p \in Products |-> Accepted(o, p)]
                 ordered == purchaseOrder[o].ordered
             IN  /\ \A p \in Products : accepted[p] <= ordered[p]
                 /\ purchaseOrder[o].status \in {"NONE", "DRAFT", "CANCELLED"} => ReceiptsOf(o) = {}
                 /\ ordered # Nothing => (accepted = ordered <=> purchaseOrder[o].status = "RECEIVED")
    BY DEF ReceiptsWithinOrder
  <2>1. StatusFits(o) /\ \A p \in Products : Accepted(o, p) = purchaseOrder[o].received[p]
    BY <1>1 DEF StockInv, ReceiptInv, ReceivedAddsUp
  <2>2. purchaseOrder[o].received \in [Products -> Nat] /\ purchaseOrder[o].status \in PurchaseOrderStatus
    BY <1>1 DEF StockInv, TypeOK, ProcurementTypeOK
  <2>3. [p \in Products |-> Accepted(o, p)] = purchaseOrder[o].received
    BY <2>1, <2>2
  <2> QED
    BY <2>1, <2>2, <2>3 DEF StatusFits, PurchaseOrderStatus
<1> QED
  BY <1>1, StockInvHolds, PTL

-----------------------------------------------------------------------------
(* Batches coming off sale.                                                *)

\* Those about to flag a place are scanners, and finitely many.
LEMMA FlaggersAreScanners ==
  ASSUME NEW p
  PROVE  /\ Flagging(p) \subseteq Scanners /\ IsFiniteSet(Flagging(p))
         /\ Cardinality(Flagging(p)) \in Nat /\ Cardinality(Scanners) \in Nat
         /\ Cardinality(Flagging(p)) <= Cardinality(Scanners)
<1>1. Flagging(p) \subseteq Scanners
  BY DEF Flagging
<1> QED
  BY <1>1, FinitelyManyScanners, FS_Subset, FS_CardinalityType

\* A scan that moves on, to flag a place only when it found no event there,
\* keeps the invariant.
LEMMA ScanMoves ==
  ASSUME ExpiryInv, NEW s \in Scanners, NEW q \in ScanType, scan' = [scan EXCEPT ![s] = q],
         UNCHANGED <<life, batchStatus, open, edits>>, RemembersTruly(q),
         q.at = "flag" => open[q.row[1]] = 0
  PROVE  ExpiryInv'
<1>1. scan' \in [Scanners -> ScanType] /\ scan'[s] = q /\ \A r \in Scanners \ {s} : scan'[r] = scan[r]
  BY DEF ExpiryInv, ExpiryTypeOK
<1>2. ExpiryTypeOK' /\ ExpiredIsOver'
  BY <1>1 DEF ExpiryInv, ExpiryTypeOK, ExpiredIsOver
<1>3. ScansRemember'
  <2> SUFFICES ASSUME NEW r \in Scanners
               PROVE  RemembersTruly(scan[r])'
    BY DEF ScansRemember
  <2>1. RemembersTruly(scan'[r])
    BY <1>1 DEF ExpiryInv, ScansRemember
  <2>2. life' = life
    OBVIOUS
  <2> QED
    BY <2>1, <2>2 DEF RemembersTruly, IsOver
<1>4. EventsAreScanned'
  <2> SUFFICES ASSUME NEW p \in Places
               PROVE  open'[p] + Cardinality(Flagging(p)') <= Cardinality(Scanners)
    BY DEF EventsAreScanned
  <2>1. open'[p] = open[p] /\ open[p] \in Nat /\ open[p] + Cardinality(Flagging(p)) <= Cardinality(Scanners)
    BY DEF ExpiryInv, ExpiryTypeOK, EventsAreScanned
  <2>2. CASE q.at = "flag" /\ q.row[1] = p
    <3>1. Flagging(p)' \subseteq Scanners
      BY DEF Flagging
    <3>2. Cardinality(Flagging(p)') <= Cardinality(Scanners) /\ Cardinality(Flagging(p)') \in Nat
      BY <3>1, FinitelyManyScanners, FS_Subset, FS_CardinalityType
    <3> QED
      BY <2>1, <2>2, <3>2
  <2>3. CASE ~(q.at = "flag" /\ q.row[1] = p)
    <3>1. Flagging(p)' \subseteq Flagging(p)
      BY <1>1, <2>3 DEF Flagging
    <3>2. Cardinality(Flagging(p)') <= Cardinality(Flagging(p)) /\ Cardinality(Flagging(p)') \in Nat
      BY <3>1, FlaggersAreScanners, FS_Subset, FS_CardinalityType
    <3> QED
      BY <2>1, <3>2, FlaggersAreScanners
  <2> QED
    BY <2>2, <2>3
<1> QED
  BY <1>2, <1>3, <1>4 DEF ExpiryInv

\* What a scan knows, by where it stands.
LEMMA ScanKnows ==
  ASSUME ExpiryInv, NEW s \in Scanners
  PROVE  /\ scan[s] \in ScanType /\ RemembersTruly(scan[s])
         /\ scan[s].at = "loop" => scan[s].todo \subseteq ScanRows
         /\ scan[s].at = "flag" => scan[s].row \in ScanRows /\ scan[s].todo \subseteq ScanRows
         /\ scan[s].at = "expire" => scan[s].row \in ScanRows
<1>1. scan[s] \in ScanType /\ RemembersTruly(scan[s])
  BY DEF ExpiryInv, ExpiryTypeOK, ScansRemember
<1> QED
  BY <1>1 DEF ScanType, Scanless

\* A scan that reads, looks or ends changes nothing but itself.
LEMMA LookingKeepsExpiry ==
  ASSUME ExpiryInv, NEW s \in Scanners, StartScan(s) \/ CheckRow(s) \/ EndScan(s)
  PROVE  ExpiryInv'
<1>1. CASE StartScan(s)
  <2> DEFINE rows == {<<p, life[p[1]] = "over">> : p \in {q \in Places : Due(q[1])}}
             q == [at |-> "loop", todo |-> rows]
  <2>1. ASSUME NEW row \in rows
        PROVE  row \in ScanRows /\ IsOver(row)
    <3>1. PICK p \in Places : row = <<p, life[p[1]] = "over">>
      OBVIOUS
    <3>2. CASE life[p[1]] = "over"
      <4>1. (life[p[1]] = "over") = TRUE
        BY <3>2
      <4>2. row = <<p, TRUE>>
        BY <3>1, <4>1
      <4> QED
        BY <3>2, <4>2 DEF ScanRows, IsOver
    <3>3. CASE life[p[1]] # "over"
      <4>1. (life[p[1]] = "over") = FALSE
        BY <3>3
      <4>2. row = <<p, FALSE>>
        BY <3>1, <4>1
      <4>3. row[2] = FALSE
        BY <4>2
      <4> QED
        BY <4>2, <4>3 DEF ScanRows, IsOver
    <3> QED
      BY <3>2, <3>3
  <2>2. rows \subseteq ScanRows /\ \A row \in rows : IsOver(row)
    BY <2>1
  <2>3. q \in ScanType /\ RemembersTruly(q) /\ q.at = "loop"
    <3> HIDE DEF rows
    <3> QED
      BY <2>2 DEF ScanType, RemembersTruly
  <2>4. scan' = [scan EXCEPT ![s] = q] /\ UNCHANGED <<life, batchStatus, open, edits>>
    BY <1>1 DEF StartScan
  <2> QED
    <3> HIDE DEF q
    <3> QED
      BY <2>3, <2>4, ScanMoves
<1>2. CASE CheckRow(s)
  <2>1. PICK row \in scan[s].todo :
          scan' = [scan EXCEPT ![s] =
            IF open[row[1]] > 0 THEN [at |-> "loop", todo |-> scan[s].todo \ {row}]
            ELSE [at |-> "flag", row |-> row, todo |-> scan[s].todo \ {row}]]
    BY <1>2 DEF CheckRow
  <2>2. scan[s].at = "loop" /\ UNCHANGED <<life, batchStatus, open, edits>>
    BY <1>2 DEF CheckRow
  <2>3. row \in ScanRows /\ scan[s].todo \ {row} \subseteq ScanRows /\ IsOver(row)
        /\ \A other \in scan[s].todo \ {row} : IsOver(other)
    BY <2>2, ScanKnows DEF RemembersTruly
  <2>4. CASE open[row[1]] > 0
    <3> DEFINE q == [at |-> "loop", todo |-> scan[s].todo \ {row}]
    <3>1. q \in ScanType /\ RemembersTruly(q) /\ q.at = "loop" /\ scan' = [scan EXCEPT ![s] = q]
      BY <2>1, <2>3, <2>4 DEF ScanType, RemembersTruly
    <3> QED
      <4> HIDE DEF q
      <4> QED
        BY <2>2, <3>1, ScanMoves
  <2>5. CASE ~(open[row[1]] > 0)
    <3> DEFINE q == [at |-> "flag", row |-> row, todo |-> scan[s].todo \ {row}]
    <3>1. q \in ScanType /\ RemembersTruly(q) /\ q.row = row /\ scan' = [scan EXCEPT ![s] = q]
      BY <2>1, <2>3, <2>5 DEF ScanType, RemembersTruly
    <3>2. row[1] \in Places
      BY <2>3 DEF ScanRows
    <3>3. open[row[1]] = 0
      BY <2>5, <3>2 DEF ExpiryInv, ExpiryTypeOK
    <3> QED
      <4> HIDE DEF q
      <4> QED
        BY <2>2, <3>1, <3>3, ScanMoves
  <2> QED
    BY <2>4, <2>5
<1>3. CASE EndScan(s)
  <2>1. Scanless \in ScanType /\ RemembersTruly(Scanless) /\ Scanless.at = "idle"
    BY DEF ScanType, Scanless, RemembersTruly
  <2> QED
    BY <1>3, <2>1, ScanMoves DEF EndScan
<1> QED
  BY <1>1, <1>2, <1>3

\* Flagging a place turns one of those about to flag it into an event.
LEMMA FlagRowKeepsExpiry ==
  ASSUME ExpiryInv, NEW s \in Scanners, FlagRow(s)
  PROVE  ExpiryInv'
<1> DEFINE place == scan[s].row[1]
           q == IF scan[s].row[2] THEN [at |-> "expire", row |-> scan[s].row] ELSE [at |-> "loop", todo |-> scan[s].todo]
<1>1. scan[s].at = "flag" /\ scan[s].row \in ScanRows /\ scan[s].todo \subseteq ScanRows /\ RemembersTruly(scan[s])
  BY ScanKnows DEF FlagRow
<1>2. place \in Places /\ scan[s].row[2] \in BOOLEAN
  BY <1>1 DEF ScanRows
<1>3. open' = [open EXCEPT ![place] = @ + 1] /\ scan' = [scan EXCEPT ![s] = q] /\ UNCHANGED <<life, batchStatus, edits>>
  BY DEF FlagRow
<1>4. q \in ScanType /\ q.at # "flag" /\ RemembersTruly(q)
  <2>1. CASE scan[s].row[2]
    <3>1. q = [at |-> "expire", row |-> scan[s].row] /\ life[scan[s].row[1][1]] = "over"
      BY <1>1, <2>1 DEF RemembersTruly, IsOver
    <3> QED
      BY <1>1, <3>1 DEF ScanType, RemembersTruly
  <2>2. CASE ~scan[s].row[2]
    <3>1. q = [at |-> "loop", todo |-> scan[s].todo] /\ \A row \in scan[s].todo : IsOver(row)
      BY <1>1, <2>2 DEF RemembersTruly
    <3> QED
      BY <1>1, <3>1 DEF ScanType, RemembersTruly
  <2> QED
    BY <2>1, <2>2
<1> HIDE DEF q
<1>5. scan' \in [Scanners -> ScanType] /\ scan'[s] = q /\ \A r \in Scanners \ {s} : scan'[r] = scan[r]
  BY <1>3, <1>4 DEF ExpiryInv, ExpiryTypeOK
<1>6. open' \in [Places -> Nat] /\ open'[place] = open[place] + 1 /\ \A p \in Places \ {place} : open'[p] = open[p]
  BY <1>2, <1>3 DEF ExpiryInv, ExpiryTypeOK
<1>7. ExpiryTypeOK' /\ ExpiredIsOver'
  BY <1>3, <1>5, <1>6 DEF ExpiryInv, ExpiryTypeOK, ExpiredIsOver
<1>8. ScansRemember'
  <2> SUFFICES ASSUME NEW r \in Scanners
               PROVE  RemembersTruly(scan[r])'
    BY DEF ScansRemember
  <2>1. RemembersTruly(scan'[r])
    BY <1>4, <1>5 DEF ExpiryInv, ScansRemember
  <2> QED
    BY <1>3, <2>1 DEF RemembersTruly, IsOver
<1>9. EventsAreScanned'
  <2> SUFFICES ASSUME NEW p \in Places
               PROVE  open'[p] + Cardinality(Flagging(p)') <= Cardinality(Scanners)
    BY DEF EventsAreScanned
  <2>1. open[p] \in Nat /\ open[p] + Cardinality(Flagging(p)) <= Cardinality(Scanners)
    BY DEF ExpiryInv, ExpiryTypeOK, EventsAreScanned
  <2>2. CASE p = place
    <3>1. Flagging(p)' = Flagging(p) \ {s} /\ s \in Flagging(p)
      BY <1>1, <1>4, <1>5, <2>2 DEF Flagging
    <3>2. Cardinality(Flagging(p)') = Cardinality(Flagging(p)) - 1
      BY <3>1, FlaggersAreScanners, FS_RemoveElement
    <3> QED
      BY <1>6, <2>1, <2>2, <3>2, FlaggersAreScanners
  <2>3. CASE p # place
    <3>1. Flagging(p)' = Flagging(p)
      BY <1>1, <1>4, <1>5, <2>3 DEF Flagging
    <3> QED
      BY <1>6, <2>1, <2>3, <3>1
  <2> QED
    BY <2>2, <2>3
<1> QED
  BY <1>7, <1>8, <1>9 DEF ExpiryInv

\* A batch is taken off sale by the scan that found it past its date.
LEMMA ExpireBatchKeepsExpiry ==
  ASSUME ExpiryInv, NEW s \in Scanners, ExpireBatch(s)
  PROVE  ExpiryInv'
<1>1. scan[s].at = "expire" /\ scan[s].row \in ScanRows /\ RemembersTruly(scan[s])
  BY ScanKnows DEF ExpireBatch
<1>2. scan[s].row[1] \in Places /\ scan[s].row[1][1] \in Batches /\ life[scan[s].row[1][1]] = "over"
  BY <1>1, ExpiryAssumption DEF ScanRows, RemembersTruly
<1> DEFINE b == scan[s].row[1][1]
<1>3. /\ batchStatus' = [batchStatus EXCEPT ![b] = "EXPIRED"] /\ scan' = [scan EXCEPT ![s] = Scanless]
      /\ UNCHANGED <<life, open, edits>>
  BY DEF ExpireBatch
<1>4. batchStatus' \in [Batches -> {"ACTIVE", "BLOCKED", "EXPIRED"}]
      /\ \A c \in Batches \ {b} : batchStatus'[c] = batchStatus[c]
  BY <1>2, <1>3 DEF ExpiryInv, ExpiryTypeOK
<1>5. Scanless \in ScanType /\ RemembersTruly(Scanless) /\ Scanless.at = "idle"
  BY DEF ScanType, Scanless, RemembersTruly
<1>6. scan' \in [Scanners -> ScanType] /\ scan'[s] = Scanless /\ \A r \in Scanners \ {s} : scan'[r] = scan[r]
  BY <1>3, <1>5 DEF ExpiryInv, ExpiryTypeOK
<1>7. ExpiryTypeOK'
  BY <1>3, <1>4, <1>6 DEF ExpiryInv, ExpiryTypeOK
<1>8. ExpiredIsOver'
  BY <1>2, <1>3, <1>4 DEF ExpiryInv, ExpiredIsOver
<1>9. ScansRemember'
  <2> SUFFICES ASSUME NEW r \in Scanners
               PROVE  RemembersTruly(scan[r])'
    BY DEF ScansRemember
  <2>1. RemembersTruly(scan'[r])
    BY <1>5, <1>6 DEF ExpiryInv, ScansRemember
  <2> QED
    BY <1>3, <2>1 DEF RemembersTruly, IsOver
<1>10. EventsAreScanned'
  <2> SUFFICES ASSUME NEW p \in Places
               PROVE  open'[p] + Cardinality(Flagging(p)') <= Cardinality(Scanners)
    BY DEF EventsAreScanned
  <2>1. Flagging(p)' = Flagging(p)
    BY <1>1, <1>5, <1>6 DEF Flagging
  <2> QED
    BY <1>3, <2>1 DEF ExpiryInv, EventsAreScanned
<1> QED
  BY <1>7, <1>8, <1>9, <1>10 DEF ExpiryInv

\* Time, the page and edits by hand leave the scans alone.
LEMMA PageKeepsExpiry ==
  ASSUME ExpiryInv,
         \/ \E b \in Batches : Age(b) \/ UpdateBatch(b)
         \/ \E p \in Places : MarkActedUpon(p) \/ BlockBatch(p)
  PROVE  ExpiryInv'
<1>1. scan' = scan
  BY DEF Age, UpdateBatch, MarkActedUpon, BlockBatch
<1>2. /\ life' \in [Batches -> {"fresh", "near", "over"}]
      /\ \A b \in Batches : life[b] = "over" => life'[b] = "over"
  BY DEF Age, UpdateBatch, MarkActedUpon, BlockBatch, ExpiryInv, ExpiryTypeOK
<1>3. open' \in [Places -> Nat] /\ \A p \in Places : open'[p] <= open[p]
  <2>1. CASE \E p \in Places : MarkActedUpon(p)
    BY <2>1 DEF MarkActedUpon, ExpiryInv, ExpiryTypeOK
  <2>2. CASE open' = open
    BY <2>2 DEF ExpiryInv, ExpiryTypeOK
  <2> QED
    BY <2>1, <2>2 DEF Age, UpdateBatch, BlockBatch
<1>4. batchStatus' \in [Batches -> {"ACTIVE", "BLOCKED", "EXPIRED"}] /\ edits' \in Nat
  <2>1. ASSUME NEW b \in Batches, UpdateBatch(b)
        PROVE  batchStatus' \in [Batches -> {"ACTIVE", "BLOCKED", "EXPIRED"}] /\ edits' \in Nat
    BY <2>1 DEF UpdateBatch, ExpiryInv, ExpiryTypeOK
  <2>2. ASSUME NEW p \in Places, BlockBatch(p)
        PROVE  batchStatus' \in [Batches -> {"ACTIVE", "BLOCKED", "EXPIRED"}] /\ edits' \in Nat
    BY <2>2 DEF BlockBatch, ExpiryInv, ExpiryTypeOK
  <2>3. CASE UNCHANGED <<batchStatus, edits>>
    BY <2>3 DEF ExpiryInv, ExpiryTypeOK
  <2> QED
    BY <2>1, <2>2, <2>3 DEF Age, MarkActedUpon
<1>5. ExpiryTypeOK'
  BY <1>1, <1>2, <1>3, <1>4 DEF ExpiryInv, ExpiryTypeOK
<1>6. ExpiredIsOver'
  <2>1. ASSUME NEW b \in Batches, UpdateBatch(b)
        PROVE  edits' # 0
    BY <2>1 DEF UpdateBatch, ExpiryInv, ExpiryTypeOK
  <2>2. ASSUME NEW p \in Places, BlockBatch(p)
        PROVE  ExpiredIsOver'
    BY <2>2 DEF BlockBatch, ExpiryInv, ExpiryTypeOK, ExpiredIsOver
  <2>3. CASE UNCHANGED <<batchStatus, edits>>
    BY <1>2, <2>3 DEF ExpiryInv, ExpiredIsOver
  <2> QED
    BY <2>1, <2>2, <2>3 DEF Age, MarkActedUpon, ExpiredIsOver
<1>7. ScansRemember'
  <2> SUFFICES ASSUME NEW s \in Scanners
               PROVE  RemembersTruly(scan[s])'
    BY DEF ScansRemember
  <2>1. \A row \in ScanRows : row[1][1] \in Batches
    BY ExpiryAssumption DEF ScanRows
  <2>2. \A row \in ScanRows : IsOver(row) => IsOver(row)'
    BY <1>2, <2>1 DEF IsOver
  <2> QED
    BY <1>1, <1>2, <2>1, <2>2, ScanKnows DEF RemembersTruly
<1>8. EventsAreScanned'
  <2> SUFFICES ASSUME NEW p \in Places
               PROVE  open'[p] + Cardinality(Flagging(p)') <= Cardinality(Scanners)
    BY DEF EventsAreScanned
  <2>1. Flagging(p)' = Flagging(p)
    BY <1>1 DEF Flagging
  <2>2. open[p] \in Nat /\ open'[p] \in Nat /\ open'[p] <= open[p]
    BY <1>3 DEF ExpiryInv, ExpiryTypeOK
  <2> QED
    BY <2>1, <2>2, FlaggersAreScanners DEF ExpiryInv, EventsAreScanned
<1> QED
  BY <1>5, <1>6, <1>7, <1>8 DEF ExpiryInv

\* No batch is flagged or off sale at first.
LEMMA ExpiryStarts ==
  ASSUME ExpiryInit
  PROVE  ExpiryInv
<1>1. ExpiryTypeOK /\ ExpiredIsOver
  BY DEF ExpiryInit, ExpiryTypeOK, ScanType, ExpiredIsOver
<1>2. ScansRemember
  BY DEF ExpiryInit, ScansRemember, RemembersTruly, Scanless
<1>3. EventsAreScanned
  <2> SUFFICES ASSUME NEW p \in Places
               PROVE  open[p] + Cardinality(Flagging(p)) <= Cardinality(Scanners)
    BY DEF EventsAreScanned
  <2>1. open[p] = 0
    BY DEF ExpiryInit
  <2> QED
    BY <2>1, FlaggersAreScanners
<1> QED
  BY <1>1, <1>2, <1>3 DEF ExpiryInv

\* The inductive invariant of the expiry page and its scans.
THEOREM ExpiryInvHolds == ExpiryInit /\ [][ExpiryNext]_expiryVars => []ExpiryInv
<1>1. ExpiryInv /\ [ExpiryNext]_expiryVars => ExpiryInv'
  <2> SUFFICES ASSUME ExpiryInv, [ExpiryNext]_expiryVars
               PROVE  ExpiryInv'
    OBVIOUS
  <2>1. CASE \E s \in Scanners : ScanStep(s)
    BY <2>1, LookingKeepsExpiry, FlagRowKeepsExpiry, ExpireBatchKeepsExpiry DEF ScanStep
  <2>2. CASE UNCHANGED expiryVars
    BY <2>2 DEF expiryVars, ExpiryInv, ExpiryTypeOK, ScansRemember, RemembersTruly, IsOver, EventsAreScanned,
       Flagging, ExpiredIsOver
  <2> QED
    BY <2>1, <2>2, PageKeepsExpiry DEF ExpiryNext
<1> QED
  BY <1>1, ExpiryStarts, PTL

\* Scans flag a place twice only by racing each other.
THEOREM FlaggedTwiceByRace == ExpiryInit /\ [][ExpiryNext]_expiryVars => []EventsMeetByRace
<1>1. ExpiryInv => EventsMeetByRace
  BY FlaggersAreScanners DEF ExpiryInv, ExpiryTypeOK, EventsAreScanned, EventsMeetByRace
<1> QED
  BY <1>1, ExpiryInvHolds, PTL

\* No scan takes off sale what is not past its date.
THEOREM ExpiredWasOver == ExpiryInit /\ [][ExpiryNext]_expiryVars => []ExpiredIsOver
<1>1. ExpiryInv => ExpiredIsOver
  BY DEF ExpiryInv
<1> QED
  BY <1>1, ExpiryInvHolds, PTL
=============================================================================
