------------------------------ MODULE Warehouse ------------------------------
(***************************************************************************)
(* Goods receipts and corrections over the stock of one warehouse location.*)
(***************************************************************************)
EXTENDS Procurement, StockCorrection

vars == <<ledgerVars, procurementVars, correctionVars>>

Init == LedgerInit /\ ProcurementInit /\ CorrectionInit

Next ==
  \/ ProcurementStep /\ UNCHANGED correctionVars
  \/ CorrectionStep /\ UNCHANGED procurementVars

Spec == Init /\ [][Next]_vars

-----------------------------------------------------------------------------

\* The type invariant.
TypeOK == LedgerTypeOK /\ ProcurementTypeOK /\ CorrectionTypeOK

\* What the documents account for in the row of lot l and state s.
Accounted(l, s) ==
  (IF s = "AVAILABLE" THEN Opening[l] + SumFunction([k \in ReceiptKeys |-> receipt[k].goods[l]]) ELSE 0)
  + SumFunction([d \in Documents |->
      IF DocumentKey(d) \in posted THEN document[d].movements[l][s] ELSE 0])

\* Every row is the opening stock, the receipts, and each correction that was
\* posted, once: no repeated, failed or overlapping request moves stock that
\* no document accounts for.
StockIsDocumented ==
  \A l \in Lots, s \in StockStates : snapshot[l][s] = Accounted(l, s)
-----------------------------------------------------------------------------
(* What makes PostedWasApproved and PostedIsBooked inductive: what a       *)
(* request that has read a document may rely on when it posts or writes.   *)

ApprovalIsRecorded ==
  \A d \in Documents :
    /\ document[d] = [status |-> document[d].status, approved |-> document[d].approved,
                      movements |-> document[d].movements, count |-> document[d].count]
    /\ document[d].approved \in BOOLEAN
    /\ document[d].status = "APPROVED" => document[d].approved
    /\ document[d].status = "NONE" => ~ document[d].approved

\* Whatever else has been written since, the document a request is about to
\* post was approved, and the one it is about to call POSTED has been posted.
Justified(q) ==
  q.at \in {"post", "write", "next"} =>
    /\ q = [at |-> q.at, doc |-> q.doc, to |-> q.to, count |-> q.count]
    /\ q.doc \in Documents
    /\ q.to \in {"SUBMITTED", "APPROVED", "POSTED", "REJECTED"}
    /\ q.count # None => q.to # "REJECTED"
    /\ q.at = "post" => document[q.doc].approved
    /\ q.at = "write" /\ q.to = "POSTED" => DocumentKey(q.doc) \in posted

RequestsJustified == \A r \in Requests : Justified(request[r])

Tables == document = [d \in Documents |-> document[d]] /\ request = [r \in Requests |-> request[r]]

\* The inductive invariant.
Inv == Tables /\ ApprovalIsRecorded /\ RequestsJustified /\ PostedWasApproved /\ PostedIsBooked
=============================================================================
