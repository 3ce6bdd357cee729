----------------------------- MODULE FinanceProofs -----------------------------
(***************************************************************************)
(* Proofs about money.  Receivables, for any invoices, payments and        *)
(* requests: each document is entered once, payments see each other's      *)
(* entries, and what is paid of an invoice was taken for it or given to it.*)
(* The credit limit of a retailer, and the cash sessions of a branch.      *)
(***************************************************************************)
EXTENDS Receivables, CreditLimits, CashSessions, SumTheorems

USE DEF Documents, Recorded

-----------------------------------------------------------------------------
(* Locks.                                                                  *)

\* A request that posts has locked its invoice.
LEMMA LockOfPost ==
  ASSUME NEW q, q.at = "post"
  PROVE Locks(q) = {q.invoice}
BY DEF Locks

\* One that records a payment has locked its invoice, and the retailer when it
\* is on account.
LEMMA LocksOfPay ==
  ASSUME NEW q, q.at = "pay"
  PROVE Locks(q) = {For[q.payment]} \cup (IF OfAccount(q.payment) THEN {Retailer} ELSE {})
BY DEF Locks

\* One that allocates has locked the invoices it has written so far.
LEMMA LocksOfAllocation ==
  ASSUME NEW q, q.at \in {"allocate", "write"}
  PROVE Locks(q) = {i \in Invoices : q.own[i].written}
BY DEF Locks

\* A request that is idle, or reverses an allocation, has locked no row.
LEMMA NoLocks ==
  ASSUME NEW q, q.at \in {"idle", "reverse"}
  PROVE Locks(q) = {}
BY DEF Locks

-----------------------------------------------------------------------------
(* Steps that change one request and no row.                               *)

\* A request that moves on, and locks only what no other has locked, leaves
\* every row locked at most once.
LEMMA RowsStayLockedOnce ==
  ASSUME BooksTypeOK, RowsLockedOnce, NEW r \in Requests, NEW q,
         request' = [request EXCEPT ![r] = q],
         \A row \in Locks(q) : row # None => \A s \in Requests \ {r} : row \notin Locks(request[s]),
         q.at = "pay" => \A s \in Requests \ {r} : request[s].at = "pay" => request[s].payment # q.payment
  PROVE RowsLockedOnce'
<1> SUFFICES ASSUME NEW t \in Requests, NEW s \in Requests, t # s
             PROVE /\ \A row \in Locks(request'[t]) : row # None => row \notin Locks(request'[s])
                   /\ request'[t].at = "pay" /\ request'[s].at = "pay"
                        => request'[t].payment # request'[s].payment
  BY DEF RowsLockedOnce, Locks, OfAccount
<1>1. \A u \in Requests : request'[u] = IF u = r THEN q ELSE request[u]
  BY DEF BooksTypeOK
<1>2. CASE t = r
  BY <1>1, <1>2 DEF RowsLockedOnce
<1>3. CASE s = r
  BY <1>1, <1>3 DEF RowsLockedOnce
<1>4. CASE t # r /\ s # r
  BY <1>1, <1>4 DEF RowsLockedOnce
<1> QED
  BY <1>2, <1>3, <1>4


\* A step that only reads, into what one request remembers, keeps the invariant
\* of the books.
LEMMA ReadingKeeps ==
  ASSUME BooksInv, NEW r \in Requests, NEW q,
         request' = [request EXCEPT ![r] = q],
         UNCHANGED <<invoice, payment, books>>,
         Current(q),
         \A row \in Locks(q) : row # None => \A s \in Requests \ {r} : row \notin Locks(request[s]),
         q.at = "pay" => \A s \in Requests \ {r} : request[s].at = "pay" => request[s].payment # q.payment
  PROVE BooksInv'
<1>1. RowsLockedOnce'
  BY RowsStayLockedOnce DEF BooksInv
<1>2. BooksTypeOK' /\ DraftsAreNotPosted' /\ LedgerIsDocumented' /\ PaymentsSeePayments'
  BY DEF BooksInv, BooksTypeOK, DraftsAreNotPosted, LedgerIsDocumented, PaymentsSeePayments, books, OfAccount
<1>3. RequestsAreCurrent'
  <2> SUFFICES ASSUME NEW s \in Requests PROVE Current(request[s])'
    BY DEF RequestsAreCurrent
  <2>1. request'[s] = IF s = r THEN q ELSE request[s]
    BY DEF BooksInv, BooksTypeOK
  <2>2. Current(request'[s])
    BY <2>1 DEF BooksInv, RequestsAreCurrent
  <2> QED
    BY <2>2 DEF Current, Entered, books, OfAccount
<1> QED
  BY <1>1, <1>2, <1>3 DEF BooksInv

-----------------------------------------------------------------------------
(* One lemma per action.                                                   *)

\* post reads its invoice.
LEMMA StartPostKeeps ==
  ASSUME BooksInv, NEW r \in Requests, NEW i \in Invoices, StartPost(r, i)
  PROVE BooksInv'
<1>0. PICK q : q = [at |-> "post", invoice |-> i, seen |-> Entered]
  OBVIOUS
<1>1. Locks(q) = {i}
  BY <1>0, LockOfPost
<1>2. Current(q)
  BY <1>0 DEF Current, StartPost, Postable
<1>3. \A row \in Locks(q) : row # None => \A s \in Requests : row \notin Locks(request[s])
  BY <1>1 DEF StartPost, Free
<1>4. request' = [request EXCEPT ![r] = q] /\ UNCHANGED <<invoice, payment, books>> /\ q.at # "pay"
  BY <1>0 DEF StartPost, Begin
<1> QED
  BY <1>1, <1>2, <1>3, <1>4, ReadingKeeps

\* create reads and locks what its payment is for.
LEMMA StartPaymentKeeps ==
  ASSUME BooksInv, NEW r \in Requests, NEW p \in Payments, StartPayment(r, p)
  PROVE BooksInv'
<1>0. PICK q : q = [at |-> "pay", payment |-> p, seen |-> Entered,
                 paid |-> IF For[p] = None THEN 0 ELSE bill[For[p]].paid]
  OBVIOUS
<1>1. Locks(q) = {For[p]} \cup (IF OfAccount(p) THEN {Retailer} ELSE {})
  BY <1>0, LocksOfPay
<1>2. Current(q)
  BY <1>0 DEF Current, StartPayment, KeyUnused
<1>3. \A row \in Locks(q) : row # None => \A s \in Requests : row \notin Locks(request[s])
  BY <1>1 DEF StartPayment, RowsLocked, Free
<1>4. request' = [request EXCEPT ![r] = q] /\ UNCHANGED <<invoice, payment, books>>
  BY <1>0 DEF StartPayment, Begin
<1>5. \A s \in Requests : request[s].at = "pay" => request[s].payment # q.payment
  BY <1>0 DEF StartPayment, KeyUnused
<1> QED
  BY <1>2, <1>3, <1>4, <1>5, ReadingKeeps

\* allocatePayment begins with a plan, drawn up by hand or not.
LEMMA StartAllocationKeeps ==
  ASSUME BooksInv, NEW r \in Requests, NEW p \in Payments, NEW plan, StartAllocation(r, p, plan)
  PROVE BooksInv'
<1>0. PICK q : q = [at |-> "allocate", payment |-> p, hadRetailer |-> payment[p].account,
                 plan |-> plan, next |-> 1, own |-> [i \in Invoices |-> Unwritten], read |-> Unread]
  OBVIOUS
<1>1. Locks(q) = {}
  BY <1>0, LocksOfAllocation DEF Unwritten
<1>2. Current(q)
  BY <1>0 DEF Current, StartAllocation
<1>3. request' = [request EXCEPT ![r] = q] /\ UNCHANGED <<invoice, payment, books>> /\ q.at # "pay"
  BY <1>0 DEF StartAllocation, Begin
<1> QED
  BY <1>1, <1>2, <1>3, ReadingKeeps

\* allocatePayment reads the next invoice, without a lock.
LEMMA ReadNextKeeps ==
  ASSUME BooksInv, NEW r \in Requests, ReadNext(r)
  PROVE BooksInv'
<1>0. PICK q : q = Allocating("write", request[r], request[r].next, request[r].own,
                              Seen(request[r], NextItem(request[r]).invoice))
  OBVIOUS
<1>1. q.at = "write" /\ q.own = request[r].own /\ q.payment = request[r].payment
  BY <1>0 DEF Allocating
<1>2. Locks(q) = Locks(request[r])
  <2>1. Locks(q) = {i \in Invoices : q.own[i].written}
    BY <1>1, LocksOfAllocation
  <2>2. Locks(request[r]) = {i \in Invoices : request[r].own[i].written}
    BY LocksOfAllocation DEF ReadNext
  <2> QED
    BY <1>1, <2>1, <2>2
<1>3. Current(q)
  BY <1>1 DEF Current, ReadNext, BooksInv, RequestsAreCurrent
<1>4. request' = [request EXCEPT ![r] = q] /\ UNCHANGED <<invoice, payment, books>> /\ q.at # "pay"
  BY <1>0, <1>1 DEF ReadNext, Continue
<1>5. \A row \in Locks(q) : row # None => \A s \in Requests \ {r} : row \notin Locks(request[s])
  BY <1>2 DEF BooksInv, RowsLockedOnce
<1> QED
  BY <1>3, <1>4, <1>5, ReadingKeeps

\* allocatePayment writes what it read, and so locks the invoice, unless it
\* holds it already.
LEMMA WriteNextKeeps ==
  ASSUME BooksInv, NEW r \in Requests, WriteNext(r)
  PROVE BooksInv'
<1> DEFINE i == NextItem(request[r]).invoice
           own == request[r].own
<1>1. PICK write, q :
        /\ q = Allocating("allocate", request[r], request[r].next + 1, [own EXCEPT ![i] = write], Unread)
        /\ request' = [request EXCEPT ![r] = q]
  BY DEF WriteNext, Continue
<1>2. /\ request[r].at = "write" /\ (own[i].written \/ Free(i))
      /\ UNCHANGED <<invoice, payment, books>>
  BY DEF WriteNext
<1>3. own = [j \in Invoices |-> own[j]] /\ Current(request[r])
  BY <1>2 DEF BooksInv, RequestsAreCurrent, Current
<1>4. q.at = "allocate" /\ q.payment = request[r].payment /\ q.own = [own EXCEPT ![i] = write]
  BY <1>1 DEF Allocating
<1> HIDE DEF i, own
<1>5. q.own = [j \in Invoices |-> q.own[j]] /\ \A j \in Invoices \ {i} : q.own[j] = own[j]
  BY <1>3, <1>4
<1>6. Current(q)
  BY <1>2, <1>3, <1>4, <1>5 DEF Current
<1>7. ASSUME NEW row \in Locks(q), row # None
      PROVE  \A s \in Requests \ {r} : row \notin Locks(request[s])
  <2>0. /\ Locks(q) = {j \in Invoices : q.own[j].written}
        /\ Locks(request[r]) = {j \in Invoices : own[j].written}
    <3>1. q.at \in {"allocate", "write"} /\ request[r].at \in {"allocate", "write"}
      BY <1>2, <1>4
    <3> QED
      BY <3>1, LocksOfAllocation DEF own
  <2>1. row \in Invoices /\ q.own[row].written
    BY <1>7, <2>0
  <2>2. own[row].written => row \in Locks(request[r])
    BY <2>0, <2>1
  <2>3. row \in Locks(request[r]) \/ Free(row)
    BY <1>2, <1>5, <2>1, <2>2
  <2> QED
    BY <1>7, <2>3 DEF Free, BooksInv, RowsLockedOnce
<1>8. q.at # "pay"
  BY <1>4
<1> QED
  BY <1>1, <1>2, <1>6, <1>7, <1>8, ReadingKeeps

\* reverseAllocation reads its payment.
LEMMA StartReverseKeeps ==
  ASSUME BooksInv, NEW r \in Requests, NEW p \in Payments, StartReverse(r, p)
  PROVE BooksInv'
<1>0. PICK q : q = [at |-> "reverse", payment |-> p,
        unwind |-> {i \in OnAccount : bill[i].paymentStatus \in {"PARTIALLY_PAID", "PAID"}}]
  OBVIOUS
<1>1. Locks(q) = {}
  BY <1>0, NoLocks
<1>2. Current(q)
  BY <1>0 DEF Current, StartReverse
<1>3. request' = [request EXCEPT ![r] = q] /\ UNCHANGED <<invoice, payment, books>> /\ q.at # "pay"
  BY <1>0 DEF StartReverse, Begin
<1> QED
  BY <1>1, <1>2, <1>3, ReadingKeeps

\* A request that has ended holds no lock and is about nothing.
LEMMA IdleIsHarmless == Locks(Idle) = {} /\ Current(Idle) /\ Idle.at # "pay"
<1>1. Idle.at = "idle"
  BY DEF Idle
<1> QED
  BY <1>1, NoLocks DEF Current

\* A transaction that rolls back gives its locks back and leaves the rows
\* alone.
LEMMA AbortKeeps ==
  ASSUME BooksInv, NEW r \in Requests, Abort(r)
  PROVE BooksInv'
BY IdleIsHarmless, ReadingKeeps DEF Abort, End

\* After a commit the request is idle and the others hold what they held.
LEMMA CommitKeepsLocks ==
  ASSUME BooksInv, NEW r \in Requests, End(r)
  PROVE /\ RowsLockedOnce'
        /\ request' = [s \in Requests |-> request'[s]]
        /\ \A s \in Requests : request'[s] = IF s = r THEN Idle ELSE request[s]
<1>1. RowsLockedOnce'
  BY IdleIsHarmless, RowsStayLockedOnce DEF BooksInv, End
<1> QED
  BY <1>1 DEF BooksInv, BooksTypeOK, End

\* An entry keeps the ledger's type.
LEMMA EnteringIsTyped ==
  ASSUME BooksTypeOK, NEW d \in Documents, NEW seen, Enter(d, seen)
  PROVE ledger' \in [Documents -> [entries : Nat, missed : SUBSET Documents]]
<1>1. ledger[d].entries + 1 \in Nat
  BY DEF BooksTypeOK
<1>2. Entered \ seen \in SUBSET Documents
  BY DEF Entered
<1>3. [entries |-> ledger[d].entries + 1, missed |-> Entered \ seen] \in [entries : Nat, missed : SUBSET Documents]
  BY <1>1, <1>2
<1> QED
  BY <1>3 DEF Enter, BooksTypeOK

\* post commits: the invoice and its entry in the ledger.
LEMMA CommitPostKeeps ==
  ASSUME BooksInv, ReceivablesAssumption, NEW r \in Requests, CommitPost(r)
  PROVE BooksInv'
<1>0. PICK i : i = request[r].invoice
  OBVIOUS
<1>1. i \in Invoices /\ invoice[i].status = "DRAFT" /\ ~invoice[i].posted
  BY <1>0 DEF BooksInv, RequestsAreCurrent, Current, CommitPost, DraftsAreNotPosted
<1>2. RowsLockedOnce' /\ request' = [s \in Requests |-> request'[s]]
  BY CommitKeepsLocks DEF CommitPost
<1>3. invoice' = [invoice EXCEPT ![i] =
         [status |-> IF i \in OnAccount THEN "CREDIT_OPEN" ELSE "POSTED", posted |-> TRUE]]
  BY <1>0 DEF CommitPost
<1>4. payment' = payment /\ \A p \in Payments : ledger'[p] = ledger[p]
  BY <1>0, <1>1 DEF CommitPost, Enter, BooksInv, BooksTypeOK, books, ReceivablesAssumption
<1>5. BooksTypeOK'
  <2>1. ledger' \in [Documents -> [entries : Nat, missed : SUBSET Documents]]
    BY <1>0, EnteringIsTyped DEF CommitPost, BooksInv, BooksTypeOK, books
  <2>2. receivable' \in [Invoices -> Nat] /\ sales' \in [Invoices -> Nat]
    <3>1. CASE i \in OnAccount
      <4>1. /\ receivable' = [receivable EXCEPT ![i] = receivable[i] + 1]
            /\ sales' = [sales EXCEPT ![i] = sales[i] + 1]
        BY <1>0, <3>1 DEF CommitPost
      <4> QED
        BY <4>1, <1>1 DEF BooksInv, BooksTypeOK
    <3>2. CASE i \notin OnAccount
      BY <1>0, <3>2 DEF CommitPost, BooksInv, BooksTypeOK, books
    <3> QED
      BY <3>1, <3>2
  <2>3. invoice' \in [Invoices -> [status : InvoiceStatus, posted : BOOLEAN]]
    BY <1>1, <1>3 DEF BooksInv, BooksTypeOK, InvoiceStatus
  <2> QED
    BY <2>1, <2>2, <2>3, <1>2, <1>4 DEF BooksInv, BooksTypeOK
<1>6. DraftsAreNotPosted'
  BY <1>1, <1>3 DEF BooksInv, BooksTypeOK, DraftsAreNotPosted
<1>7. \A s \in Requests \ {r} : request[s].at = "post" => request[s].invoice # i
  <2> SUFFICES ASSUME NEW s \in Requests \ {r}, request[s].at = "post" PROVE request[s].invoice # i
    OBVIOUS
  <2>1. Locks(request[r]) = {i} /\ Locks(request[s]) = {request[s].invoice}
    BY <1>0, LockOfPost DEF CommitPost
  <2> QED
    BY <2>1, <1>1 DEF BooksInv, RowsLockedOnce, ReceivablesAssumption
<1>8. RequestsAreCurrent'
  <2> SUFFICES ASSUME NEW s \in Requests PROVE Current(request[s])'
    BY DEF RequestsAreCurrent
  <2>1. CASE s = r
    <3>1. request'[s] = Idle
      BY <2>1, CommitKeepsLocks DEF CommitPost
    <3> QED
      BY <3>1 DEF Current, Idle
  <2>2. CASE s # r
    <3>1. request'[s] = request[s] /\ Current(request[s])
      BY <2>2, CommitKeepsLocks DEF CommitPost, BooksInv, RequestsAreCurrent
    <3>2. (Entered \cap Payments)' = Entered \cap Payments
      BY <1>4 DEF Entered
    <3>3. request[s].at = "post" => invoice'[request[s].invoice].status = "DRAFT"
      BY <3>1, <2>2, <1>7, <1>3 DEF Current, BooksInv, BooksTypeOK
    <3> QED
      BY <3>1, <3>2, <3>3, <1>4 DEF Current, OfAccount
  <2> QED
    BY <2>1, <2>2
<1>9. LedgerIsDocumented'
  <2>1. \A j \in Invoices \ {i} : /\ invoice'[j] = invoice[j] /\ ledger'[j] = ledger[j]
                                  /\ receivable'[j] = receivable[j] /\ sales'[j] = sales[j]
    BY <1>0, <1>1 DEF CommitPost, Enter, BooksInv, BooksTypeOK, books
  <2>2. invoice'[i].posted
    BY <1>1, <1>3 DEF BooksInv, BooksTypeOK
  <2>3. LET n == IF i \in OnAccount THEN 1 ELSE 0
        IN ledger'[i].entries = n /\ receivable'[i] = n /\ sales'[i] = n
    BY <1>0, <1>1 DEF CommitPost, Enter, BooksInv, BooksTypeOK, books, LedgerIsDocumented
  <2>4. \A p \in Payments : ledger'[p].entries = IF payment'[p].status # "NONE" /\ OfAccount(p) THEN 1 ELSE 0
    BY <1>4 DEF BooksInv, LedgerIsDocumented
  <2>5. \A j \in Invoices :
          LET n == IF invoice'[j].posted /\ j \in OnAccount THEN 1 ELSE 0
          IN ledger'[j].entries = n /\ receivable'[j] = n /\ sales'[j] = n
    <3> SUFFICES ASSUME NEW j \in Invoices
                 PROVE LET n == IF invoice'[j].posted /\ j \in OnAccount THEN 1 ELSE 0
                       IN ledger'[j].entries = n /\ receivable'[j] = n /\ sales'[j] = n
      OBVIOUS
    <3>1. CASE j = i
      BY <2>2, <2>3, <3>1
    <3>2. CASE j # i
      BY <2>1, <3>2 DEF BooksInv, LedgerIsDocumented
    <3> QED
      BY <3>1, <3>2
  <2> QED
    BY <2>4, <2>5 DEF LedgerIsDocumented, OfAccount
<1>10. PaymentsSeePayments'
  BY <1>4 DEF BooksInv, PaymentsSeePayments
<1> QED
  BY <1>2, <1>5, <1>6, <1>8, <1>9, <1>10 DEF BooksInv

\* A payment is recorded once, with the entries of the payments before it seen.
LEMMA CommitPaymentKeeps ==
  ASSUME BooksInv, ReceivablesAssumption, NEW r \in Requests, CommitPayment(r)
  PROVE BooksInv'
<1>0. PICK p : p = request[r].payment
  OBVIOUS
<1>1. p \in Payments /\ ~Recorded(p) /\ (OfAccount(p) => Entered \cap Payments \subseteq request[r].seen)
  BY <1>0 DEF BooksInv, RequestsAreCurrent, Current, CommitPayment
<1>2. RowsLockedOnce' /\ request' = [s \in Requests |-> request'[s]]
  BY CommitKeepsLocks DEF CommitPayment
<1>3. payment' = [payment EXCEPT ![p] = [status |-> "RECORDED", account |-> OfAccount(p)]]
  BY <1>0 DEF CommitPayment
<1>4. /\ receivable' = receivable /\ sales' = sales
      /\ \A i \in Invoices : ledger'[i] = ledger[i]
  BY <1>0, <1>1 DEF CommitPayment, Enter, BooksInv, BooksTypeOK, ReceivablesAssumption
<1>5. /\ invoice' \in [Invoices -> [status : InvoiceStatus, posted : BOOLEAN]]
      /\ \A i \in Invoices : /\ invoice'[i].posted = invoice[i].posted
                             /\ invoice'[i].status = "DRAFT" => invoice[i].status = "DRAFT"
                             /\ i # For[p] => invoice'[i] = invoice[i]
  <2>1. CASE For[p] = None
    BY <1>0, <1>1, <2>1 DEF CommitPayment, BooksInv, BooksTypeOK
  <2>2. CASE For[p] # None
    <3>1. For[p] \in Invoices
      BY <1>1, <2>2 DEF ReceivablesAssumption
    <3>2. PICK to \in {invoice[For[p]].status, "PAID"} :
             invoice' = [invoice EXCEPT ![For[p]] = [status |-> to, posted |-> invoice[For[p]].posted]]
      BY <1>0, <2>2 DEF CommitPayment, RecordOnInvoice
    <3> QED
      BY <3>1, <3>2 DEF BooksInv, BooksTypeOK, InvoiceStatus
  <2> QED
    BY <2>1, <2>2
<1>6. OfAccount(p) \in BOOLEAN
  BY DEF OfAccount
<1>7. BooksTypeOK'
  <2>1. ledger' \in [Documents -> [entries : Nat, missed : SUBSET Documents]]
    BY <1>0, <1>1, EnteringIsTyped DEF CommitPayment, BooksInv, BooksTypeOK
  <2>2. payment' \in [Payments -> [status : {"NONE", "RECORDED", "VOIDED"}, account : BOOLEAN]]
    BY <1>1, <1>3, <1>6 DEF BooksInv, BooksTypeOK
  <2> QED
    BY <2>1, <2>2, <1>2, <1>4, <1>5 DEF BooksInv, BooksTypeOK
<1>8. DraftsAreNotPosted'
  <2> SUFFICES ASSUME NEW i \in Invoices, invoice'[i].status = "DRAFT" PROVE ~invoice'[i].posted
    BY DEF DraftsAreNotPosted
  <2>1. invoice[i].status = "DRAFT" /\ invoice'[i].posted = invoice[i].posted
    BY <1>5
  <2>2. ~invoice[i].posted
    BY <2>1 DEF BooksInv, DraftsAreNotPosted
  <2> QED
    BY <2>1, <2>2 DEF BooksInv, BooksTypeOK
<1>9. \A s \in Requests \ {r} :
        /\ request[s].at = "post" => request[s].invoice # For[p] \/ For[p] = None
        /\ request[s].at = "pay" => /\ request[s].payment # p
                                   /\ ~(OfAccount(request[s].payment) /\ OfAccount(p))
  <2> SUFFICES ASSUME NEW s \in Requests \ {r}
      PROVE /\ request[s].at = "post" => request[s].invoice # For[p] \/ For[p] = None
            /\ request[s].at = "pay" => /\ request[s].payment # p
                                       /\ ~(OfAccount(request[s].payment) /\ OfAccount(p))
    OBVIOUS
  <2>1. Locks(request[r]) = {For[p]} \cup (IF OfAccount(p) THEN {Retailer} ELSE {})
    BY <1>0, LocksOfPay DEF CommitPayment
  <2>2. request[s].at = "post" => Locks(request[s]) = {request[s].invoice}
    BY LockOfPost
  <2>3. request[s].at = "pay" => Locks(request[s]) = {For[request[s].payment]}
            \cup (IF OfAccount(request[s].payment) THEN {Retailer} ELSE {})
    BY LocksOfPay
  <2>4. Retailer # None
    BY DEF ReceivablesAssumption
  <2>5. request[s].at = "pay" => request[s].payment # p
    BY <1>0 DEF CommitPayment, BooksInv, RowsLockedOnce
  <2>6. request[s].at = "pay" => ~(OfAccount(request[s].payment) /\ OfAccount(p))
    BY <2>1, <2>3, <2>4 DEF BooksInv, RowsLockedOnce
  <2> QED
    BY <2>1, <2>2, <2>5, <2>6 DEF BooksInv, RowsLockedOnce
<1>10. \A d \in Documents \ {p} : ledger'[d] = ledger[d]
  BY <1>0, <1>1 DEF CommitPayment, Enter, BooksInv, BooksTypeOK
<1>11. ~OfAccount(p) => ledger' = ledger
  BY <1>0 DEF CommitPayment
<1>12. RequestsAreCurrent'
  <2> SUFFICES ASSUME NEW s \in Requests PROVE Current(request[s])'
    BY DEF RequestsAreCurrent
  <2>1. CASE s = r
    <3>1. request'[s] = Idle
      BY <2>1, CommitKeepsLocks DEF CommitPayment
    <3> QED
      BY <3>1 DEF Current, Idle
  <2>2. CASE s # r
    <3>1. request'[s] = request[s] /\ Current(request[s])
      BY <2>2, CommitKeepsLocks DEF CommitPayment, BooksInv, RequestsAreCurrent
    <3>2. request[s].at = "post" => invoice'[request[s].invoice].status = "DRAFT"
      <4> SUFFICES ASSUME request[s].at = "post" PROVE invoice'[request[s].invoice].status = "DRAFT"
        OBVIOUS
      <4>1. request[s].invoice \in Invoices /\ invoice[request[s].invoice].status = "DRAFT"
        BY <3>1 DEF Current
      <4>2. request[s].invoice # For[p]
        BY <4>1, <2>2, <1>9 DEF ReceivablesAssumption
      <4> QED
        BY <4>1, <4>2, <1>5
    <3>3. request[s].at = "pay" /\ OfAccount(request[s].payment) => Entered' = Entered
      BY <2>2, <1>9, <1>11 DEF Entered
    <3>4. \A d \in Payments \ {p} : payment'[d] = payment[d]
      BY <1>3 DEF BooksInv, BooksTypeOK
    <3>5. payment'[p].status = "RECORDED"
      BY <1>1, <1>3 DEF BooksInv, BooksTypeOK
    <3>6. request[s].at = "pay" => Current(request[s])'
      BY <3>1, <3>3, <3>4, <2>2, <1>9 DEF Current, OfAccount
    <3> QED
      BY <3>1, <3>2, <3>4, <3>5, <3>6 DEF Current
  <2> QED
    BY <2>1, <2>2
<1>13. LedgerIsDocumented'
  <2>1. \A d \in Payments \ {p} : payment'[d] = payment[d]
    BY <1>3 DEF BooksInv, BooksTypeOK
  <2>2. payment'[p].status = "RECORDED"
    BY <1>1, <1>3 DEF BooksInv, BooksTypeOK
  <2>3. ledger'[p].entries = IF OfAccount(p) THEN 1 ELSE 0
    <3>1. ledger[p].entries = 0
      BY <1>1 DEF BooksInv, LedgerIsDocumented
    <3> QED
      BY <3>1, <1>0, <1>1 DEF CommitPayment, Enter, BooksInv, BooksTypeOK
  <2>4. ASSUME NEW i \in Invoices
        PROVE LET n == IF invoice'[i].posted /\ i \in OnAccount THEN 1 ELSE 0
              IN ledger'[i].entries = n /\ receivable'[i] = n /\ sales'[i] = n
    BY <1>4, <1>5 DEF BooksInv, LedgerIsDocumented
  <2>5. ASSUME NEW d \in Payments
        PROVE ledger'[d].entries = IF payment'[d].status # "NONE" /\ OfAccount(d) THEN 1 ELSE 0
    <3>1. CASE d = p
      BY <3>1, <2>2, <2>3
    <3>2. CASE d # p
      <4>1. ledger'[d] = ledger[d] /\ payment'[d] = payment[d]
        BY <3>2, <2>1, <1>10
      <4>2. ledger[d].entries = IF payment[d].status # "NONE" /\ OfAccount(d) THEN 1 ELSE 0
        BY DEF BooksInv, LedgerIsDocumented, Recorded
      <4> QED
        BY <4>1, <4>2
    <3> QED
      BY <3>1, <3>2
  <2> QED
    BY <2>4, <2>5 DEF LedgerIsDocumented, OfAccount
<1>14. PaymentsSeePayments'
  <2>1. OfAccount(p) => ledger'[p].missed = Entered \ request[r].seen
    BY <1>0, <1>1 DEF CommitPayment, Enter, BooksInv, BooksTypeOK
  <2> QED
    BY <2>1, <1>1, <1>10, <1>11 DEF BooksInv, PaymentsSeePayments
<1> QED
  BY <1>2, <1>7, <1>8, <1>12, <1>13, <1>14 DEF BooksInv

\* What a commit keeps that enters nothing in the books and forgets no payment.
LEMMA ForgettingNothingKeeps ==
  ASSUME BooksInv, NEW r \in Requests, End(r), UNCHANGED <<invoice, books>>,
         payment' \in [Payments -> [status : {"NONE", "RECORDED", "VOIDED"}, account : BOOLEAN]],
         \A p \in Payments : Recorded(p)' = Recorded(p)
  PROVE BooksInv'
<1>1. RowsLockedOnce' /\ request' = [s \in Requests |-> request'[s]]
  BY CommitKeepsLocks
<1>2. BooksTypeOK' /\ DraftsAreNotPosted' /\ LedgerIsDocumented' /\ PaymentsSeePayments'
  BY <1>1 DEF BooksInv, BooksTypeOK, DraftsAreNotPosted, LedgerIsDocumented, PaymentsSeePayments, books, OfAccount
<1>3. RequestsAreCurrent'
  <2> SUFFICES ASSUME NEW s \in Requests PROVE Current(request[s])'
    BY DEF RequestsAreCurrent
  <2>1. request'[s] = IF s = r THEN Idle ELSE request[s]
    BY CommitKeepsLocks
  <2>2. Current(request'[s])
    BY <2>1, IdleIsHarmless DEF BooksInv, RequestsAreCurrent
  <2> QED
    BY <2>2 DEF Current, Entered, books, OfAccount
<1> QED
  BY <1>1, <1>2, <1>3 DEF BooksInv

\* allocatePayment commits: the invoices it wrote, no entry.
LEMMA CommitAllocationKeeps ==
  ASSUME BooksInv, NEW r \in Requests, CommitAllocation(r)
  PROVE BooksInv'
<1>0. PICK p : p = request[r].payment
  OBVIOUS
<1>1. p \in Payments
  BY <1>0 DEF CommitAllocation, BooksInv, RequestsAreCurrent, Current
<1>2. PICK account \in BOOLEAN :
         payment' = [payment EXCEPT ![p] = [status |-> payment[p].status, account |-> account]]
  <2>1. PICK account : account =
          (payment[p].account \/ (~request[r].hadRetailer /\ request[r].plan[1].invoice \in OnAccount))
    OBVIOUS
  <2>2. account \in BOOLEAN
    BY <2>1
  <2> QED
    BY <2>1, <2>2, <1>0 DEF CommitAllocation
<1>3. payment' \in [Payments -> [status : {"NONE", "RECORDED", "VOIDED"}, account : BOOLEAN]]
  BY <1>1, <1>2 DEF BooksInv, BooksTypeOK
<1>4. \A d \in Payments : Recorded(d)' = Recorded(d)
  BY <1>1, <1>2 DEF BooksInv, BooksTypeOK
<1> QED
  BY <1>3, <1>4, ForgettingNothingKeeps DEF CommitAllocation

\* reverseAllocation commits: the payment is VOIDED.
LEMMA CommitReverseKeeps ==
  ASSUME BooksInv, NEW r \in Requests, CommitReverse(r)
  PROVE BooksInv'
<1>0. PICK p : p = request[r].payment
  OBVIOUS
<1>1. p \in Payments /\ Recorded(p)
  BY <1>0 DEF CommitReverse, BooksInv, RequestsAreCurrent, Current
<1>2. payment' = [payment EXCEPT ![p] = [status |-> "VOIDED", account |-> payment[p].account]]
  BY <1>0 DEF CommitReverse
<1>3. payment' \in [Payments -> [status : {"NONE", "RECORDED", "VOIDED"}, account : BOOLEAN]]
  BY <1>1, <1>2 DEF BooksInv, BooksTypeOK
<1>4. \A d \in Payments : Recorded(d)' = Recorded(d)
  BY <1>1, <1>2 DEF BooksInv, BooksTypeOK
<1> QED
  BY <1>3, <1>4, ForgettingNothingKeeps DEF CommitReverse

-----------------------------------------------------------------------------
(* The specification.                                                      *)

\* Nothing is posted, paid or locked at first.
LEMMA InitKeeps == ASSUME ReceivablesAssumption, Init PROVE BooksInv
<1>1. RowsLockedOnce
  BY NoLocks DEF Init, Idle, RowsLockedOnce
<1>2. BooksTypeOK
  BY DEF Init, BooksTypeOK, InvoiceStatus
<1>3. LedgerIsDocumented /\ PaymentsSeePayments
  BY DEF Init, LedgerIsDocumented, PaymentsSeePayments
<1> QED
  BY <1>1, <1>2, <1>3 DEF Init, BooksInv, DraftsAreNotPosted, RequestsAreCurrent, Current, Idle

\* No step disturbs the invariant of the books.
LEMMA StepKeeps ==
  ASSUME BooksInv, ReceivablesAssumption, [Next]_vars PROVE BooksInv'
<1>1. CASE Next
  <2>1. PICK r \in Requests : Step(r)
    BY <1>1 DEF Next
  <2>2. ASSUME NEW i \in Invoices, StartPost(r, i) PROVE BooksInv'
    BY <2>2, StartPostKeeps
  <2>3. ASSUME NEW p \in Payments, StartPayment(r, p) PROVE BooksInv'
    BY <2>3, StartPaymentKeeps
  <2>4. ASSUME NEW p \in Payments, AutoAllocate(r, p) PROVE BooksInv'
    BY <2>4, StartAllocationKeeps DEF AutoAllocate
  <2>5. ASSUME NEW p \in Payments, NEW plan \in Slips, AllocateByHand(r, p, plan) PROVE BooksInv'
    BY <2>5, StartAllocationKeeps DEF AllocateByHand
  <2>6. ASSUME NEW p \in Payments, StartReverse(r, p) PROVE BooksInv'
    BY <2>6, StartReverseKeeps
  <2> QED
    BY <2>1, <2>2, <2>3, <2>4, <2>5, <2>6, CommitPostKeeps, CommitPaymentKeeps, ReadNextKeeps, WriteNextKeeps,
       CommitAllocationKeeps, CommitReverseKeeps, AbortKeeps DEF Step
<1>2. CASE UNCHANGED vars
  BY <1>2 DEF vars, books, BooksInv, BooksTypeOK, DraftsAreNotPosted, RequestsAreCurrent, Current, RowsLockedOnce,
     Locks, LedgerIsDocumented, PaymentsSeePayments, OfAccount, Entered
<1> QED
  BY <1>1, <1>2

\* The books are kept right by every handler of invoice.service, payment.service
\* and payment-allocation.service: the inductive invariant.
THEOREM BooksAreKept == Spec => []BooksInv
<1>1. Init => BooksInv
  BY InitKeeps, ReceivablesAssumption
<1>2. BooksInv /\ [Next]_vars => BooksInv'
  BY StepKeeps, ReceivablesAssumption
<1> QED
  BY <1>1, <1>2, PTL DEF Spec

\* Whatever overlaps, repeats or aborts, invoice.post and payment.create enter
\* each document in the ledgers once, and nothing else is entered.
THEOREM EntriesAreDocumented == Spec => []LedgerIsDocumented
<1>1. BooksInv => LedgerIsDocumented
  BY DEF BooksInv
<1> QED
  BY <1>1, BooksAreKept, PTL

\* The lock on the retailer makes the balance of each payment count all the
\* payments entered before it (payment.create).
THEOREM BalancesCountPayments == Spec => []PaymentsSeePayments
<1>1. BooksInv => PaymentsSeePayments
  BY DEF BooksInv
<1> QED
  BY <1>1, BooksAreKept, PTL

-----------------------------------------------------------------------------
(* The plan autoAllocate draws up.                                         *)

\* A set of numbers that is not empty has a least one.
LEMMA LeastNumber ==
  ASSUME NEW bad \in SUBSET Nat, bad # {}
  PROVE  \E n \in bad : \A m \in bad : n <= m
<1>1. PICK n \in bad : \A m \in bad : <<m, n>> \notin OpToRel(<, Nat)
  BY NatLessThanWellFounded, WFMin
<1>2. \A m \in bad : ~(m < n)
  BY <1>1 DEF OpToRel
<1> QED
  BY <1>2

\* What autoAllocate has planned after n invoices: after is the table of it.
Loops(after, amount, n) ==
  after = [k \in 0..n |-> IF k = 0 THEN [plan |-> << >>, left |-> amount] ELSE Give(after[k - 1], Issued[k])]

\* One turn of the loop.
LEMMA GiveTyped ==
  ASSUME TypeOK, NEW so \in [plan : Seq(Items), left : Int], NEW i \in Invoices
  PROVE  Give(so, i) \in [plan : Seq(Items), left : Int]
<1>1. bill[i].due \in Int /\ so.left \in Int /\ so.plan \in Seq(Items)
  BY DEF TypeOK, Bills
<1>2. Share(so.left, i) \in Int
  BY <1>1 DEF Share
<1>3. CASE Unpaid(i) /\ Share(so.left, i) > 0
  <2>1. [invoice |-> i, amount |-> Share(so.left, i)] \in Items
    BY <1>2, <1>3 DEF Items
  <2>2. Append(so.plan, [invoice |-> i, amount |-> Share(so.left, i)]) \in Seq(Items)
    BY <1>1, <2>1
  <2>3. so.left - Share(so.left, i) \in Int
    BY <1>1, <1>2
  <2> QED
    BY <1>3, <2>2, <2>3 DEF Give
<1>4. CASE ~(Unpaid(i) /\ Share(so.left, i) > 0)
  BY <1>4 DEF Give
<1> QED
  BY <1>3, <1>4

\* The table exists, however many invoices there are.
LEMMA LoopExists ==
  ASSUME NEW amount, NEW n \in Nat
  PROVE  \E after : Loops(after, amount, n)
<1> DEFINE bad == {k \in Nat : ~ \E after : Loops(after, amount, k)}
<1>1. ASSUME bad # {}
      PROVE  FALSE
  <2>1. PICK m \in bad : \A k \in bad : m <= k
    <3>1. bad \in SUBSET Nat
      OBVIOUS
    <3> HIDE DEF bad
    <3> QED
      BY <1>1, <3>1, LeastNumber
  <2>2. m # 0
    <3>1. Loops([k \in {0} |-> [plan |-> << >>, left |-> amount]], amount, 0)
      <4>1. 0..0 = {0}
        OBVIOUS
      <4> QED
        BY <4>1 DEF Loops
    <3> QED
      BY <2>1, <3>1
  <2>3. m \in Nat /\ m - 1 \in Nat /\ m - 1 \notin bad
    BY <2>1, <2>2
  <2>4. PICK f : Loops(f, amount, m - 1)
    BY <2>3
  <2> DEFINE g == [k \in 0..m |-> IF k < m THEN f[k] ELSE Give(f[m - 1], Issued[m])]
  <2>5. Loops(g, amount, m)
    <3>1. \A k \in 0..(m - 1) :
            f[k] = IF k = 0 THEN [plan |-> << >>, left |-> amount] ELSE Give(f[k - 1], Issued[k])
      BY <2>4 DEF Loops
    <3>2. ASSUME NEW k \in 0..m
          PROVE  g[k] = IF k = 0 THEN [plan |-> << >>, left |-> amount] ELSE Give(g[k - 1], Issued[k])
      <4>1. CASE k < m
        <5>1. g[k] = f[k] /\ (k # 0 => g[k - 1] = f[k - 1])
          BY <2>3, <4>1
        <5>2. k \in 0..(m - 1)
          BY <2>3, <4>1
        <5> HIDE DEF g
        <5> QED
          BY <3>1, <5>1, <5>2
      <4>2. CASE k = m
        <5>1. g[m] = Give(f[m - 1], Issued[m]) /\ g[m - 1] = f[m - 1]
          BY <2>3
        <5> HIDE DEF g
        <5> QED
          BY <2>2, <4>2, <5>1
      <4> QED
        BY <2>3, <4>1, <4>2
    <3>3. g = [k \in 0..m |-> g[k]]
      OBVIOUS
    <3> HIDE DEF g
    <3> QED
      BY <3>2, <3>3 DEF Loops
  <2> QED
    BY <2>1, <2>5
<1> QED
  BY <1>1

\* Every line of a plan is about an invoice.
LEMMA FifoPlanTyped ==
  ASSUME TypeOK, NEW amount \in Int
  PROVE  FifoPlan(amount) \in Seq(Items)
<1> DEFINE n == Len(Issued)
           after == CHOOSE it : Loops(it, amount, n)
           bad == {k \in 0..n : after[k] \notin [plan : Seq(Items), left : Int]}
<1>1. n \in Nat /\ \A k \in 1..n : Issued[k] \in Invoices
  BY ReceivablesAssumption
<1>2. Loops(after, amount, n)
  BY <1>1, LoopExists
<1>3. FifoPlan(amount) = after[n].plan
  BY DEF FifoPlan, Loops
<1> HIDE DEF after, n
<1>4. ASSUME bad # {}
      PROVE  FALSE
  <2>1. PICK m \in bad : \A k \in bad : m <= k
    <3>1. bad \in SUBSET Nat
      BY <1>1
    <3> HIDE DEF bad
    <3> QED
      BY <1>4, <3>1, LeastNumber
  <2>2. after[m] = IF m = 0 THEN [plan |-> << >>, left |-> amount] ELSE Give(after[m - 1], Issued[m])
    BY <1>2, <2>1 DEF Loops
  <2>3. m # 0
    <3>1. [plan |-> << >>, left |-> amount] \in [plan : Seq(Items), left : Int]
      OBVIOUS
    <3> QED
      BY <2>1, <2>2, <3>1
  <2>4. m \in 1..n /\ m - 1 \in 0..n /\ m - 1 \notin bad
    BY <1>1, <2>1, <2>3
  <2>5. after[m - 1] \in [plan : Seq(Items), left : Int]
    BY <2>4
  <2> QED
    BY <1>1, <2>1, <2>2, <2>3, <2>4, <2>5, GiveTyped
<1>5. after[n] \in [plan : Seq(Items), left : Int]
  BY <1>1, <1>4
<1> QED
  BY <1>3, <1>5

-----------------------------------------------------------------------------
(* What was paid for an invoice.                                           *)

\* What each payment paid for invoice i.
Paying(i) == [p \in Payments |-> IF payment[p].status # "NONE" /\ For[p] = i THEN Amount[p] ELSE 0]

\* PaymentsFor is the sum over the payments of what each paid for the invoice,
\* before a step and after it.
LEMMA PaymentsAreSummed ==
  ASSUME NEW i
  PROVE  PaymentsFor(i) = Sum(Paying(i), Payments) /\ PaymentsFor(i)' = Sum(Paying(i)', Payments)
BY DEF PaymentsFor, Paying, SumFunction, Sum

\* What each payment paid for an invoice is a natural number.
LEMMA PayingTyped ==
  ASSUME NEW i
  PROVE  \A p \in Payments : Paying(i)[p] \in Nat /\ Paying(i)'[p] \in Nat
BY ReceivablesAssumption DEF Paying

\* PaymentsFor is an integer, before a step and after it.
LEMMA PaymentsForTyped ==
  ASSUME NEW i
  PROVE  PaymentsFor(i) \in Int /\ PaymentsFor(i)' \in Int
<1> DEFINE before == Paying(i)
           after == Paying(i)'
<1>1. \A p \in Payments : before[p] \in Int /\ after[p] \in Int
  BY PayingTyped
<1>2. PaymentsFor(i) = Sum(before, Payments) /\ PaymentsFor(i)' = Sum(after, Payments)
  BY PaymentsAreSummed
<1> HIDE DEF before, after
<1> QED
  BY <1>1, <1>2, SumIsInt, FinitelyManyPayments

\* And it is not negative.
LEMMA PaymentsForNat ==
  ASSUME NEW i
  PROVE  PaymentsFor(i) \in Nat
<1> DEFINE before == Paying(i)
<1>1. \A p \in Payments : before[p] \in Nat
  BY PayingTyped
<1>2. PaymentsFor(i) = Sum(before, Payments)
  BY PaymentsAreSummed
<1> HIDE DEF before
<1> QED
  BY <1>1, <1>2, SumIsNat, FinitelyManyPayments

\* A step that records no payment leaves what was paid alone.
LEMMA PaymentsForStays ==
  ASSUME NEW i, \A p \in Payments : Recorded(p)' = Recorded(p)
  PROVE  PaymentsFor(i)' = PaymentsFor(i)
<1>1. Paying(i)' = Paying(i)
  BY DEF Paying
<1> QED
  BY <1>1, PaymentsAreSummed

\* Recording a payment pays its invoice, and no other.
LEMMA RecordingPays ==
  ASSUME NEW i, NEW p \in Payments, ~Recorded(p), Recorded(p)',
         \A d \in Payments \ {p} : Recorded(d)' = Recorded(d)
  PROVE  PaymentsFor(i)' = PaymentsFor(i) + (IF For[p] = i THEN Amount[p] ELSE 0)
<1> DEFINE before == Paying(i)
           after == Paying(i)'
<1>1. /\ before[p] = 0 /\ after[p] = IF For[p] = i THEN Amount[p] ELSE 0
      /\ \A d \in Payments \ {p} : after[d] = before[d]
  BY DEF Paying
<1>2. \A d \in Payments : before[d] \in Int
  BY PayingTyped
<1>3. after[p] \in Int
  BY <1>1, ReceivablesAssumption
<1>4. PaymentsFor(i) = Sum(before, Payments) /\ PaymentsFor(i)' = Sum(after, Payments)
  BY PaymentsAreSummed
<1> HIDE DEF before, after
<1>5. Sum(after, Payments) = Sum(before, Payments) + (after[p] - before[p])
  BY <1>1, <1>2, <1>3, SumChanges, FinitelyManyPayments
<1> QED
  BY <1>1, <1>3, <1>4, <1>5

-----------------------------------------------------------------------------
(* Bills, one lemma per action.                                            *)

\* A request that is idle fits every part of the invariant of the bills.
LEMMA IdleIsTyped == Idle \in RequestType /\ PaymentFits(Idle) /\ AllocationFunded(Idle)
BY DEF RequestType, PaymentFits, AllocationFunded, Idle

\* A request that goes on and writes nothing the others see.
LEMMA ReadingKeepsBills ==
  ASSUME BillsInv, BooksInv', NEW r \in Requests, NEW q \in RequestType,
         request' = [request EXCEPT ![r] = q], PaymentFits(q), AllocationFunded(q),
         UNCHANGED <<invoice, bill, payment, books, allocated>>
  PROVE  BillsInv'
<1>1. \A s \in Requests : request'[s] = IF s = r THEN q ELSE request[s]
  BY DEF BillsInv, TypeOK
<1>2. TypeOK'
  <2>1. request' \in [Requests -> RequestType]
    BY DEF BillsInv, TypeOK
  <2> QED
    BY <2>1 DEF BillsInv, TypeOK, books, InvoiceStatus, RequestType, Idle
<1>3. PaymentsFit'
  BY <1>1 DEF BillsInv, PaymentsFit, PaymentFits
<1>4. \A i : Funds(i)' = Funds(i)
  BY PaymentsForStays DEF Funds
<1>5. ASSUME NEW s \in Requests PROVE AllocationFunded(request[s])'
  <2>1. AllocationFunded(request'[s])
    BY <1>1 DEF BillsInv, AllocationsFunded
  <2> QED
    BY <1>4, <2>1 DEF AllocationFunded, NextItem
<1>6. PaidWasGiven' /\ PaidByItsPayments'
  BY <1>4, PaymentsForStays DEF BillsInv, PaidWasGiven, PaidByItsPayments, Unwound, Funds
<1> QED
  BY <1>2, <1>3, <1>5, <1>6 DEF BillsInv, AllocationsFunded

\* post reads its invoice: no bill changes.
LEMMA StartPostKeepsBills ==
  ASSUME BillsInv, BooksInv', NEW r \in Requests, NEW i \in Invoices, StartPost(r, i)
  PROVE  BillsInv'
<1>0. PICK q : q = [at |-> "post", invoice |-> i, seen |-> Entered]
  OBVIOUS
<1>1. q \in RequestType
  BY <1>0 DEF RequestType, Entered
<1>2. PaymentFits(q) /\ AllocationFunded(q)
  BY <1>0 DEF PaymentFits, AllocationFunded
<1> QED
  BY <1>0, <1>1, <1>2, ReadingKeepsBills DEF StartPost, Begin

\* create reads what is outstanding of an invoice that it has locked, so what
\* it read stays true.
LEMMA StartPaymentKeepsBills ==
  ASSUME BillsInv, BooksInv', NEW r \in Requests, NEW p \in Payments, StartPayment(r, p)
  PROVE  BillsInv'
<1>0. PICK q : q = [at |-> "pay", payment |-> p, seen |-> Entered,
                 paid |-> IF For[p] = None THEN 0 ELSE bill[For[p]].paid]
  OBVIOUS
<1>1. For[p] # None => For[p] \in Invoices /\ bill[For[p]].paid \in Int /\ Total[For[p]] \in Nat
  BY ReceivablesAssumption DEF BillsInv, TypeOK, Bills
<1>2. Amount[p] \in Nat \ {0}
  BY ReceivablesAssumption
<1>3. q \in RequestType
  BY <1>0, <1>1 DEF RequestType, Entered
<1>4. PaymentFits(q) /\ AllocationFunded(q)
  BY <1>0, <1>1, <1>2 DEF PaymentFits, AllocationFunded, StartPayment, Outstanding
<1> QED
  BY <1>0, <1>3, <1>4, ReadingKeepsBills DEF StartPayment, Begin

\* allocatePayment begins with a plan, whatever the signs of its amounts.
LEMMA StartAllocationKeepsBills ==
  ASSUME BillsInv, BooksInv', NEW r \in Requests, NEW p \in Payments, NEW plan \in Seq(Items),
         StartAllocation(r, p, plan)
  PROVE  BillsInv'
<1>0. PICK q : q = [at |-> "allocate", payment |-> p, hadRetailer |-> payment[p].account,
                 plan |-> plan, next |-> 1, own |-> [i \in Invoices |-> Unwritten], read |-> Unread]
  OBVIOUS
<1>1. payment[p].account \in BOOLEAN
  BY DEF BillsInv, TypeOK
<1>2. q \in RequestType
  <2>1. Unread \in Bills /\ Unwritten \in Writes
    BY DEF Unread, Unwritten, Writes, Bills, Bill
  <2> QED
    BY <1>0, <1>1, <2>1 DEF RequestType
<1>3. PaymentFits(q) /\ AllocationFunded(q)
  <2>1. q.next \in 1..(Len(q.plan) + 1) /\ \A i \in Invoices : ~q.own[i].written
    BY <1>0 DEF Unwritten
  <2> QED
    BY <1>0, <2>1 DEF PaymentFits, AllocationFunded
<1> QED
  BY <1>0, <1>2, <1>3, ReadingKeepsBills DEF StartAllocation, Begin

\* What an allocation in progress holds.
LEMMA AllocationTyped ==
  ASSUME TypeOK, NEW r \in Requests, request[r].at \in {"allocate", "write"}
  PROVE  /\ request[r].payment \in Payments /\ request[r].hadRetailer \in BOOLEAN
         /\ request[r].plan \in Seq(Items) /\ request[r].next \in Nat
         /\ request[r].own \in [Invoices -> Writes] /\ request[r].read \in Bills
<1>1. request[r] \in RequestType
  BY DEF TypeOK
<1> QED
  BY <1>1 DEF RequestType, Idle

\* One that is typed makes a request that is.
LEMMA AllocatingTyped ==
  ASSUME TypeOK, NEW r \in Requests, request[r].at \in {"allocate", "write"},
         NEW at \in {"allocate", "write"}, NEW next \in Nat, NEW own \in [Invoices -> Writes], NEW read \in Bills
  PROVE  Allocating(at, request[r], next, own, read) \in RequestType
BY AllocationTyped DEF Allocating, RequestType

\* The next line of the plan, while there is one.
LEMMA NextItemTyped ==
  ASSUME BillsInv, NEW r \in Requests, request[r].at \in {"allocate", "write"},
         request[r].next <= Len(request[r].plan)
  PROVE  NextItem(request[r]).invoice \in Invoices /\ NextItem(request[r]).amount \in Int
<1> DEFINE plan == request[r].plan
           n == request[r].next
<1>1. plan \in Seq(Items)
  BY AllocationTyped DEF BillsInv
<1>2. n \in 1..(Len(plan) + 1)
  BY DEF BillsInv, AllocationsFunded, AllocationFunded
<1> HIDE DEF plan, n
<1>3. n <= Len(plan) => plan[n] \in Items
  BY <1>1, <1>2
<1>4. NextItem(request[r]) \in Items
  BY <1>3 DEF NextItem, plan, n
<1> QED
  BY <1>4 DEF Items

\* allocatePayment reads what is paid of the next invoice: at most its funds
\* and what the transaction gave it itself.
LEMMA ReadNextKeepsBills ==
  ASSUME BillsInv, BooksInv', NEW r \in Requests, ReadNext(r)
  PROVE  BillsInv'
<1> DEFINE i == NextItem(request[r]).invoice
           own == request[r].own
           read == Seen(request[r], i)
<1>0. PICK q : q = Allocating("write", request[r], request[r].next, own, read)
  OBVIOUS
<1>1. i \in Invoices /\ request[r].at = "allocate" /\ request[r].next <= Len(request[r].plan)
  BY NextItemTyped DEF ReadNext
<1>2. own \in [Invoices -> Writes] /\ request[r].next \in Nat
  BY <1>1, AllocationTyped DEF BillsInv
<1>3. own[i] \in Writes /\ bill[i] \in Bills
  BY <1>1, <1>2 DEF BillsInv, TypeOK
<1>4. read = IF own[i].written THEN own[i].bill ELSE bill[i]
  BY DEF Seen
<1>5. Funds(i) \in Int /\ bill[i].paid <= Funds(i)
  BY <1>1, PaymentsForTyped DEF BillsInv, TypeOK, PaidWasGiven, Funds
<1>6. AllocationFunded(request[r])
  BY DEF BillsInv, AllocationsFunded
<1>7. own[i].written => own[i].bill.paid <= Funds(i) + own[i].given
  BY <1>1, <1>6 DEF AllocationFunded
<1>8. request' = [request EXCEPT ![r] = q] /\ UNCHANGED <<invoice, bill, payment, books, allocated>>
  BY <1>0 DEF ReadNext, Continue
<1>9. /\ q.at = "write" /\ q.own = own /\ q.plan = request[r].plan /\ q.next = request[r].next
      /\ q.read = read /\ NextItem(q).invoice = i
  BY <1>0 DEF Allocating, NextItem
<1> HIDE DEF i, own, read
<1>10. read \in Bills /\ read.paid <= Funds(i) + own[i].given
  BY <1>3, <1>4, <1>5, <1>7 DEF Writes, Bills
<1>11. q \in RequestType
  BY <1>0, <1>1, <1>2, <1>10, AllocatingTyped DEF BillsInv
<1>12. PaymentFits(q) /\ AllocationFunded(q)
  BY <1>1, <1>6, <1>9, <1>10 DEF PaymentFits, AllocationFunded, own
<1> QED
  BY <1>8, <1>11, <1>12, ReadingKeepsBills

\* What allocatePayment sets an invoice to.
LEMMA AllottedTyped ==
  ASSUME NEW i \in Invoices, NEW paid \in Int, NEW status \in {"UNPAID", "PARTIALLY_PAID", "PAID"}
  PROVE  Allotted(i, paid, status) \in Bills /\ Allotted(i, paid, status).paid = paid
<1>1. Total[i] \in Nat
  BY ReceivablesAssumption
<1> QED
  BY <1>1 DEF Allotted, Bill, Bills

\* allocatePayment writes what it read and the amount of the item, which it
\* counts as given unless it takes.
LEMMA WriteNextKeepsBills ==
  ASSUME BillsInv, BooksInv', NEW r \in Requests, WriteNext(r)
  PROVE  BillsInv'
<1> DEFINE i == NextItem(request[r]).invoice
           amount == NextItem(request[r]).amount
           own == request[r].own
           read == request[r].read
           next == request[r].next
           write == [written |-> TRUE,
                     bill |-> Allotted(i, NewPaid(request[r]), read.paymentStatus),
                     given |-> own[i].given + Gift(amount)]
<1>0. PICK q : q = Allocating("allocate", request[r], next + 1, [own EXCEPT ![i] = write], Unread)
  OBVIOUS
<1>1. AllocationFunded(request[r]) /\ request[r].at = "write"
  BY DEF BillsInv, AllocationsFunded, WriteNext
<1>2. next <= Len(request[r].plan) /\ read.paid <= Funds(i) + own[i].given
      /\ next \in 1..(Len(request[r].plan) + 1)
      /\ \A j \in Invoices : own[j].written => own[j].bill.paid <= Funds(j) + own[j].given
  BY <1>1 DEF AllocationFunded
<1>3. i \in Invoices /\ amount \in Int
  BY <1>1, <1>2, NextItemTyped
<1>4. own \in [Invoices -> Writes] /\ read \in Bills /\ request[r].plan \in Seq(Items)
  BY <1>1, AllocationTyped DEF BillsInv
<1>5. Funds(i) \in Int
  BY <1>3, PaymentsForTyped DEF Funds, BillsInv, TypeOK
<1>6. NewPaid(request[r]) = read.paid + amount
  BY DEF NewPaid
<1>7. request' = [request EXCEPT ![r] = q] /\ UNCHANGED <<invoice, bill, payment, books, allocated>>
  BY <1>0 DEF WriteNext, Continue
<1>8. /\ q.at = "allocate" /\ q.plan = request[r].plan /\ q.next = next + 1
      /\ q.own = [own EXCEPT ![i] = write]
  BY <1>0 DEF Allocating
<1>9. read.paid \in Int /\ own[i].given \in Nat /\ Gift(amount) \in Nat /\ amount <= Gift(amount)
      /\ read.paymentStatus \in {"UNPAID", "PARTIALLY_PAID", "PAID"}
  BY <1>3, <1>4 DEF Bills, Writes, Gift
<1>10. read.paid + amount \in Int
  BY <1>3, <1>9
<1>11. write.written /\ write.given = own[i].given + Gift(amount)
       /\ write.bill \in Bills /\ write.bill.paid = read.paid + amount
  BY <1>3, <1>6, <1>9, <1>10, AllottedTyped
<1>12. write \in Writes
  BY <1>9, <1>11 DEF Writes
<1> HIDE DEF i, amount, own, read, next, write
<1>13. write.bill.paid <= Funds(i) + write.given
  BY <1>2, <1>3, <1>5, <1>9, <1>11
<1>14. [own EXCEPT ![i] = write] \in [Invoices -> Writes]
  BY <1>4, <1>12
<1>15. Unread \in Bills /\ next + 1 \in Nat /\ next + 1 \in 1..(Len(request[r].plan) + 1)
  BY <1>2, <1>4 DEF Unread, Bill, Bills
<1>16. q \in RequestType
  BY <1>0, <1>1, <1>14, <1>15, AllocatingTyped DEF BillsInv
<1>17. \A j \in Invoices : q.own[j] = IF j = i THEN write ELSE own[j]
  BY <1>4, <1>8
<1>18. PaymentFits(q) /\ AllocationFunded(q)
  BY <1>2, <1>8, <1>13, <1>15, <1>17 DEF PaymentFits, AllocationFunded
<1> QED
  BY <1>7, <1>16, <1>18, ReadingKeepsBills

\* reverseAllocation reads its payment: no bill changes.
LEMMA StartReverseKeepsBills ==
  ASSUME BillsInv, BooksInv', NEW r \in Requests, NEW p \in Payments, StartReverse(r, p)
  PROVE  BillsInv'
<1>0. PICK q : q = [at |-> "reverse", payment |-> p,
        unwind |-> {i \in OnAccount : bill[i].paymentStatus \in {"PARTIALLY_PAID", "PAID"}}]
  OBVIOUS
<1>1. q \in RequestType
  BY <1>0 DEF RequestType
<1>2. PaymentFits(q) /\ AllocationFunded(q)
  BY <1>0 DEF PaymentFits, AllocationFunded
<1> QED
  BY <1>0, <1>1, <1>2, ReadingKeepsBills DEF StartReverse, Begin

\* What a transaction that rolls back wrote is not seen by anyone.
LEMMA AbortKeepsBills ==
  ASSUME BillsInv, BooksInv', NEW r \in Requests, Abort(r)
  PROVE  BillsInv'
BY IdleIsTyped, ReadingKeepsBills DEF Abort, End

\* What a commit keeps, when no payment under way loses its invoice.
LEMMA CommitKeepsBills ==
  ASSUME BillsInv, BooksInv', NEW r \in Requests, End(r),
         bill' \in [Invoices -> Bills],
         allocated' \in [Invoices -> [times : Nat, given : Nat]],
         \A i \in Invoices : Funds(i)' >= Funds(i) /\ bill'[i].paid <= Funds(i)',
         \A s \in Requests \ {r} : request[s].at = "pay" /\ For[request[s].payment] # None =>
           bill'[For[request[s].payment]].paid = bill[For[request[s].payment]].paid,
         PaidByItsPayments'
  PROVE  BillsInv'
<1>1. \A s \in Requests : request'[s] = IF s = r THEN Idle ELSE request[s]
  BY DEF BillsInv, TypeOK, End
<1>2. TypeOK'
  <2>1. request' \in [Requests -> RequestType]
    BY IdleIsTyped DEF BillsInv, TypeOK, End
  <2> QED
    BY <2>1 DEF BooksInv, BooksTypeOK, TypeOK, InvoiceStatus, RequestType, Idle
<1>3. ASSUME NEW s \in Requests PROVE PaymentFits(request[s])'
  <2>1. CASE s = r
    BY <1>1, <2>1, IdleIsTyped DEF PaymentFits, Idle
  <2>2. CASE s # r
    BY <1>1, <2>2 DEF BillsInv, PaymentsFit, PaymentFits
  <2> QED
    BY <2>1, <2>2
<1>4. ASSUME NEW s \in Requests PROVE AllocationFunded(request[s])'
  <2>1. CASE s = r
    BY <1>1, <2>1 DEF AllocationFunded, Idle
  <2>2. CASE s # r /\ request[s].at \in {"allocate", "write"}
    <3>0. PICK q : q = request[s]
      OBVIOUS
    <3>1. request'[s] = q /\ AllocationFunded(q)
      BY <1>1, <2>2, <3>0 DEF BillsInv, AllocationsFunded
    <3>2. q.own \in [Invoices -> Writes] /\ q.read \in Bills
      BY <2>2, <3>0, AllocationTyped DEF BillsInv
    <3>3. \A i \in Invoices : Funds(i) \in Int /\ Funds(i)' \in Int
      <4>1. \A i \in Invoices : PaymentsFor(i) \in Int /\ PaymentsFor(i)' \in Int
        BY PaymentsForTyped
      <4> QED
        BY <4>1 DEF Funds, BillsInv, TypeOK
    <3>4. q.next \in 1..(Len(q.plan) + 1)
      BY <2>2, <3>0, <3>1 DEF AllocationFunded
    <3>5. ASSUME NEW i \in Invoices, q.own[i].written
          PROVE  q.own[i].bill.paid <= Funds(i)' + q.own[i].given
      <4>1. q.own[i].bill.paid \in Int /\ q.own[i].given \in Nat
        BY <3>2 DEF Writes, Bills
      <4>2. q.own[i].bill.paid <= Funds(i) + q.own[i].given
        BY <2>2, <3>0, <3>1, <3>5 DEF AllocationFunded
      <4>3. Funds(i)' >= Funds(i)
        OBVIOUS
      <4> QED
        BY <3>3, <4>1, <4>2, <4>3
    <3>6. ASSUME q.at = "write"
          PROVE  q.next <= Len(q.plan)
                 /\ q.read.paid <= Funds(NextItem(q).invoice)' + q.own[NextItem(q).invoice].given
      <4>0. PICK i : i = NextItem(q).invoice
        OBVIOUS
      <4>1. q.next <= Len(q.plan) /\ q.read.paid <= Funds(i) + q.own[i].given
        BY <3>1, <3>6, <4>0 DEF AllocationFunded
      <4>2. i \in Invoices
        BY <2>2, <3>0, <4>0, <4>1, NextItemTyped
      <4>3. q.read.paid \in Int /\ q.own[i].given \in Nat
        BY <3>2, <4>2 DEF Writes, Bills
      <4>4. Funds(i)' >= Funds(i)
        BY <4>2
      <4>5. q.read.paid <= Funds(i)' + q.own[i].given
        BY <3>3, <4>1, <4>2, <4>3, <4>4
      <4> QED
        BY <4>0, <4>1, <4>5
    <3> QED
      BY <3>0, <3>1, <3>4, <3>5, <3>6 DEF AllocationFunded, NextItem
  <2>3. CASE s # r /\ request[s].at \notin {"allocate", "write"}
    BY <1>1, <2>3 DEF AllocationFunded
  <2> QED
    BY <2>1, <2>2, <2>3
<1>5. PaidWasGiven'
  BY DEF PaidWasGiven, Funds
<1> QED
  BY <1>2, <1>3, <1>4, <1>5 DEF BillsInv, PaymentsFit, AllocationsFunded

\* The row of a payment's invoice is held by nobody else.
LEMMA HeldByOne ==
  ASSUME BooksInv, NEW r \in Requests, NEW s \in Requests \ {r}, request[s].at = "pay",
         For[request[s].payment] # None
  PROVE  For[request[s].payment] \notin Locks(request[r])
<1>1. For[request[s].payment] \in Locks(request[s])
  BY LocksOfPay
<1> QED
  BY <1>1 DEF BooksInv, RowsLockedOnce

\* post commits: what is paid of a bill does not change.
LEMMA CommitPostKeepsBills ==
  ASSUME BillsInv, BooksInv', NEW r \in Requests, CommitPost(r)
  PROVE  BillsInv'
<1> DEFINE i == request[r].invoice
<1>1. i \in Invoices
  BY DEF BillsInv, BooksInv, RequestsAreCurrent, Current, CommitPost
<1>2. bill' = [bill EXCEPT ![i] = Bill(bill[i].paid, bill[i].due, "UNPAID")]
  BY DEF CommitPost
<1> HIDE DEF i
<1>3. \A j \in Invoices : bill'[j].paid = bill[j].paid
  BY <1>1, <1>2 DEF Bill, Bills, BillsInv, TypeOK
<1>4. bill' \in [Invoices -> Bills]
  BY <1>1, <1>2 DEF Bill, Bills, BillsInv, TypeOK
<1>5. UNCHANGED <<payment, allocated>> /\ End(r)
  BY DEF CommitPost
<1>6. \A j : PaymentsFor(j)' = PaymentsFor(j)
  BY <1>5, PaymentsForStays
<1>7. PaidByItsPayments'
  BY <1>3, <1>5, <1>6 DEF BillsInv, PaidByItsPayments, Unwound
<1>8. \A j \in Invoices : Funds(j)' = Funds(j) /\ bill[j].paid <= Funds(j) /\ Funds(j) \in Int
  BY <1>5, <1>6, PaymentsForTyped DEF Funds, BillsInv, PaidWasGiven, TypeOK
<1>9. \A s \in Requests \ {r} : request[s].at = "pay" /\ For[request[s].payment] # None =>
        For[request[s].payment] \in Invoices
  BY ReceivablesAssumption DEF BillsInv, BooksInv, RequestsAreCurrent, Current
<1>10. allocated' \in [Invoices -> [times : Nat, given : Nat]]
  BY <1>5 DEF BillsInv, TypeOK
<1>11. \A j \in Invoices : Funds(j)' >= Funds(j) /\ bill'[j].paid <= Funds(j)'
  BY <1>3, <1>8
<1> QED
  BY <1>3, <1>4, <1>5, <1>7, <1>9, <1>10, <1>11, CommitKeepsBills

\* A payment commits: its invoice is paid its amount more, and so are the
\* payments for it.
LEMMA CommitPaymentKeepsBills ==
  ASSUME BillsInv, BooksInv', NEW r \in Requests, CommitPayment(r)
  PROVE  BillsInv'
<1> DEFINE p == request[r].payment
           i == For[p]
           paid == request[r].paid + Amount[p]
<1>1. p \in Payments /\ ~Recorded(p) /\ request[r].at = "pay"
  BY DEF BillsInv, BooksInv, RequestsAreCurrent, Current, CommitPayment
<1>2. payment' = [payment EXCEPT ![p] = [status |-> "RECORDED", account |-> OfAccount(p)]]
      /\ UNCHANGED allocated /\ End(r) /\ (i = None => bill' = bill) /\ (i # None => RecordOnInvoice(i, paid))
  BY DEF CommitPayment
<1>3. /\ payment'[p].status = "RECORDED"
      /\ \A d \in Payments \ {p} : payment'[d] = payment[d]
  BY <1>1, <1>2 DEF BillsInv, TypeOK
<1>4. \A j : PaymentsFor(j)' = PaymentsFor(j) + (IF i = j THEN Amount[p] ELSE 0)
  BY <1>1, <1>3, RecordingPays
<1>5. Amount[p] \in Nat /\ (i # None => i \in Invoices)
  BY <1>1, ReceivablesAssumption
<1>6. i # None => request[r].paid = bill[i].paid /\ paid <= Total[i]
  BY <1>1 DEF BillsInv, PaymentsFit, PaymentFits
<1>7. \A j \in Invoices : /\ bill[j].paid \in Int /\ Total[j] \in Nat /\ allocated[j].given \in Nat
                          /\ PaymentsFor(j) \in Int
  BY ReceivablesAssumption, PaymentsForTyped DEF BillsInv, TypeOK, Bills
<1>8. \A j \in Invoices : bill'[j].paid = IF i = j THEN bill[j].paid + Amount[p] ELSE bill[j].paid
  <2>1. CASE i = None
    BY <1>2, <2>1, ReceivablesAssumption
  <2>2. CASE i # None
    <3>1. \A due, paymentStatus : Bill(paid, due, paymentStatus).paid = paid
      BY DEF Bill
    <3>2. PICK due, paymentStatus : bill' = [bill EXCEPT ![i] = Bill(paid, due, paymentStatus)]
      BY <1>2, <2>2 DEF RecordOnInvoice
    <3>3. bill'[i].paid = paid /\ \A j \in Invoices \ {i} : bill'[j] = bill[j]
      BY <1>5, <2>2, <3>1, <3>2 DEF BillsInv, TypeOK
    <3>4. paid = bill[i].paid + Amount[p]
      BY <1>6, <2>2
    <3> HIDE DEF i, paid, p
    <3> QED
      BY <3>3, <3>4
  <2> QED
    BY <2>1, <2>2
<1>9. bill' \in [Invoices -> Bills]
  <2>1. CASE i = None
    BY <1>2, <2>1 DEF BillsInv, TypeOK
  <2>2. CASE i # None
    <3>1. paid \in Int /\ Total[i] - paid \in Int
      BY <1>5, <1>6, <1>7, <2>2
    <3>2. PICK due \in Int, paymentStatus \in {"PARTIALLY_PAID", "PAID"} :
             bill' = [bill EXCEPT ![i] = Bill(paid, due, paymentStatus)]
      BY <1>2, <2>2, <3>1 DEF RecordOnInvoice
    <3> HIDE DEF i, paid, p
    <3> QED
      BY <3>1, <3>2 DEF Bill, Bills, BillsInv, TypeOK
  <2> QED
    BY <2>1, <2>2
<1>10. \A s \in Requests \ {r} : request[s].at = "pay" /\ For[request[s].payment] # None =>
         bill'[For[request[s].payment]].paid = bill[For[request[s].payment]].paid
  <2> SUFFICES ASSUME NEW s \in Requests \ {r}, request[s].at = "pay", For[request[s].payment] # None
      PROVE  bill'[For[request[s].payment]].paid = bill[For[request[s].payment]].paid
    OBVIOUS
  <2>1. For[request[s].payment] \in Invoices
    BY ReceivablesAssumption DEF BillsInv, BooksInv, RequestsAreCurrent, Current
  <2>2. i \in Locks(request[r])
    BY <1>1, LocksOfPay
  <2>3. For[request[s].payment] \notin Locks(request[r])
    BY HeldByOne DEF BillsInv
  <2> HIDE DEF i
  <2> QED
    BY <1>8, <2>1, <2>2, <2>3
<1>11. PaidByItsPayments'
  <2> SUFFICES ASSUME NEW j \in Invoices, allocated[j].times = 0, ~Unwound'
      PROVE  bill'[j].paid = PaymentsFor(j)' /\ bill'[j].paid <= Total[j]
    BY <1>2 DEF PaidByItsPayments
  <2>1. ~Unwound
    BY <1>1, <1>3 DEF Unwound
  <2>2. bill[j].paid = PaymentsFor(j) /\ bill[j].paid <= Total[j]
    BY <2>1 DEF BillsInv, PaidByItsPayments
  <2>3. CASE i = j
    <3>1. paid = bill[j].paid + Amount[p] /\ paid <= Total[j]
      BY <1>6, <2>3, ReceivablesAssumption
    <3> HIDE DEF i, paid, p
    <3> QED
      BY <1>4, <1>7, <1>8, <2>2, <2>3, <3>1
  <2>4. CASE i # j
    <3> HIDE DEF i, paid, p
    <3> QED
      BY <1>4, <1>7, <1>8, <2>2, <2>4
  <2> QED
    BY <2>3, <2>4
<1>12. ASSUME NEW j \in Invoices
       PROVE  Funds(j)' >= Funds(j) /\ bill'[j].paid <= Funds(j)'
  <2>1. bill[j].paid <= Funds(j)
    BY DEF BillsInv, PaidWasGiven, Funds
  <2>2. Funds(j)' = Funds(j) + (IF i = j THEN Amount[p] ELSE 0) /\ Funds(j) \in Int
    BY <1>2, <1>4, <1>5, <1>7 DEF Funds
  <2> HIDE DEF i, paid, p
  <2> QED
    BY <1>5, <1>7, <1>8, <2>1, <2>2
<1>13. allocated' \in [Invoices -> [times : Nat, given : Nat]] /\ End(r)
  BY <1>2 DEF BillsInv, TypeOK
<1> HIDE DEF i, paid, p
<1> QED
  BY <1>9, <1>10, <1>11, <1>12, <1>13, CommitKeepsBills

\* An allocation commits: each invoice it wrote has what it was paid, at most
\* what was given to it and paid for it.
LEMMA CommitAllocationKeepsBills ==
  ASSUME BillsInv, BooksInv', NEW r \in Requests, CommitAllocation(r)
  PROVE  BillsInv'
<1>0. PICK q : q = request[r]
  OBVIOUS
<1>1. q.at = "allocate" /\ q.own \in [Invoices -> Writes] /\ q.payment \in Payments
  BY <1>0, AllocationTyped DEF CommitAllocation, BillsInv
<1>2. /\ bill' = [i \in Invoices |-> Seen(q, i)]
      /\ allocated' = [i \in Invoices |->
           IF q.own[i].written
           THEN [times |-> allocated[i].times + 1, given |-> allocated[i].given + q.own[i].given]
           ELSE allocated[i]]
      /\ payment' = [payment EXCEPT ![q.payment] =
           [status |-> payment[q.payment].status,
            account |-> payment[q.payment].account \/ (~q.hadRetailer /\ q.plan[1].invoice \in OnAccount)]]
      /\ End(r)
  BY <1>0 DEF CommitAllocation
<1>3. AllocationFunded(q)
  BY <1>0 DEF BillsInv, AllocationsFunded
<1>4. \A d \in Payments : payment'[d].status = payment[d].status
  BY <1>1, <1>2 DEF BillsInv, TypeOK
<1>5. \A j : PaymentsFor(j)' = PaymentsFor(j)
  BY <1>4, PaymentsForStays
<1>6. \A i \in Invoices : /\ bill[i] \in Bills /\ bill[i].paid \in Int /\ q.own[i] \in Writes
                          /\ allocated[i].times \in Nat /\ allocated[i].given \in Nat
                          /\ PaymentsFor(i) \in Int /\ bill[i].paid <= Funds(i)
                          /\ allocated[i] \in [times : Nat, given : Nat]
  BY <1>1, PaymentsForTyped DEF BillsInv, TypeOK, Bills, PaidWasGiven, Funds
<1>7. \A i \in Invoices : q.own[i].bill \in Bills /\ q.own[i].bill.paid \in Int /\ q.own[i].given \in Nat
  BY <1>6 DEF Writes, Bills
<1>8. ASSUME NEW i \in Invoices
      PROVE  /\ q.own[i].written =>
                  /\ bill'[i] = q.own[i].bill
                  /\ allocated'[i].times = allocated[i].times + 1
                  /\ allocated'[i].given = allocated[i].given + q.own[i].given
                  /\ allocated'[i] \in [times : Nat, given : Nat]
             /\ ~q.own[i].written => bill'[i] = bill[i] /\ allocated'[i] = allocated[i]
  BY <1>2, <1>6, <1>7 DEF Seen
<1>9. bill' \in [Invoices -> Bills]
  <2>1. \A i \in Invoices : Seen(q, i) \in Bills
    BY <1>6, <1>7 DEF Seen
  <2> QED
    BY <1>2, <2>1
<1>10. allocated' \in [Invoices -> [times : Nat, given : Nat]]
  <2>1. \A i \in Invoices : allocated'[i] \in [times : Nat, given : Nat]
    BY <1>6, <1>8
  <2>2. allocated' = [i \in Invoices |-> allocated'[i]]
    BY <1>2
  <2> QED
    BY <2>1, <2>2
<1>11. ASSUME NEW i \in Invoices
       PROVE  Funds(i)' >= Funds(i) /\ bill'[i].paid <= Funds(i)'
  <2>1. Funds(i) = PaymentsFor(i) + allocated[i].given /\ Funds(i)' = PaymentsFor(i) + allocated'[i].given
    BY <1>5 DEF Funds
  <2>2. CASE ~q.own[i].written
    BY <1>6, <1>8, <2>1, <2>2
  <2>3. CASE q.own[i].written
    <3>1. q.own[i].bill.paid <= Funds(i) + q.own[i].given
      BY <1>1, <1>3, <2>3 DEF AllocationFunded
    <3> QED
      BY <1>6, <1>7, <1>8, <2>1, <2>3, <3>1
  <2> QED
    BY <2>2, <2>3
<1>12. \A s \in Requests \ {r} : request[s].at = "pay" /\ For[request[s].payment] # None =>
         bill'[For[request[s].payment]].paid = bill[For[request[s].payment]].paid
  <2> SUFFICES ASSUME NEW s \in Requests \ {r}, request[s].at = "pay", For[request[s].payment] # None
      PROVE  bill'[For[request[s].payment]].paid = bill[For[request[s].payment]].paid
    OBVIOUS
  <2>1. For[request[s].payment] \in Invoices
    BY ReceivablesAssumption DEF BillsInv, BooksInv, RequestsAreCurrent, Current
  <2>2. For[request[s].payment] \notin Locks(q)
    BY <1>0, HeldByOne DEF BillsInv
  <2>3. ~q.own[For[request[s].payment]].written
    BY <1>1, <2>1, <2>2, LocksOfAllocation
  <2> QED
    BY <1>8, <2>1, <2>3
<1>13. PaidByItsPayments'
  <2> SUFFICES ASSUME NEW i \in Invoices, allocated'[i].times = 0, ~Unwound'
      PROVE  bill'[i].paid = PaymentsFor(i)' /\ bill'[i].paid <= Total[i]
    BY DEF PaidByItsPayments
  <2>1. ~q.own[i].written
    BY <1>6, <1>8
  <2>2. ~Unwound
    BY <1>4 DEF Unwound
  <2>3. bill[i].paid = PaymentsFor(i) /\ bill[i].paid <= Total[i]
    BY <1>8, <2>1, <2>2 DEF BillsInv, PaidByItsPayments
  <2> QED
    BY <1>5, <1>8, <2>1, <2>3
<1> QED
  BY <1>2, <1>9, <1>10, <1>11, <1>12, <1>13, CommitKeepsBills

\* A reversal commits: the bills it unwinds show nothing paid, and its payment,
\* VOIDED, still counts as taken.
LEMMA CommitReverseKeepsBills ==
  ASSUME BillsInv, BooksInv', NEW r \in Requests, CommitReverse(r)
  PROVE  BillsInv'
<1>0. PICK q : q = request[r]
  OBVIOUS
<1>1. q.at = "reverse" /\ q.payment \in Payments /\ Recorded(q.payment) /\ \A i \in q.unwind : Free(i)
  BY <1>0 DEF CommitReverse, BillsInv, BooksInv, RequestsAreCurrent, Current
<1>2. /\ payment' = [payment EXCEPT ![q.payment] = [status |-> "VOIDED", account |-> payment[q.payment].account]]
      /\ bill' = [i \in Invoices |-> IF i \in q.unwind THEN Bill(0, Total[i], "UNPAID") ELSE bill[i]]
      /\ End(r) /\ UNCHANGED allocated
  BY <1>0 DEF CommitReverse
<1>3. payment'[q.payment].status = "VOIDED" /\ \A d \in Payments \ {q.payment} : payment'[d] = payment[d]
  BY <1>1, <1>2 DEF BillsInv, TypeOK
<1>4. \A j : PaymentsFor(j)' = PaymentsFor(j)
  BY <1>1, <1>3, PaymentsForStays
<1>5. PaidByItsPayments'
  BY <1>1, <1>3 DEF PaidByItsPayments, Unwound
<1>6. \A i \in Invoices : /\ bill[i].paid \in Int /\ allocated[i].given \in Nat /\ Total[i] \in Nat
                          /\ PaymentsFor(i) \in Nat /\ bill[i].paid <= Funds(i)
  BY ReceivablesAssumption, PaymentsForNat DEF BillsInv, TypeOK, Bills, PaidWasGiven, Funds
<1>7. \A i \in Invoices : bill'[i] = IF i \in q.unwind THEN Bill(0, Total[i], "UNPAID") ELSE bill[i]
  BY <1>2
<1>8. bill' \in [Invoices -> Bills]
  BY <1>2, <1>6 DEF Bill, Bills, BillsInv, TypeOK
<1>9. ASSUME NEW i \in Invoices
      PROVE  Funds(i)' >= Funds(i) /\ bill'[i].paid <= Funds(i)'
  <2>1. Funds(i)' = Funds(i) /\ Funds(i) \in Int
    BY <1>2, <1>4, <1>6 DEF Funds
  <2>2. bill'[i].paid <= Funds(i)
    <3>1. CASE i \in q.unwind
      <4>1. bill'[i] = Bill(0, Total[i], "UNPAID")
        BY <1>7, <3>1
      <4>2. bill'[i].paid = 0
        BY <4>1 DEF Bill
      <4>3. Funds(i) \in Nat
        BY <1>6 DEF Funds
      <4> QED
        BY <4>2, <4>3
    <3>2. CASE i \notin q.unwind
      <4>1. bill'[i] = bill[i]
        BY <1>7, <3>2
      <4> QED
        BY <1>6, <4>1
    <3> QED
      BY <3>1, <3>2
  <2> QED
    BY <2>1, <2>2
<1>10. \A s \in Requests \ {r} : request[s].at = "pay" /\ For[request[s].payment] # None =>
         bill'[For[request[s].payment]].paid = bill[For[request[s].payment]].paid
  <2> SUFFICES ASSUME NEW s \in Requests \ {r}, request[s].at = "pay", For[request[s].payment] # None
      PROVE  bill'[For[request[s].payment]].paid = bill[For[request[s].payment]].paid
    OBVIOUS
  <2>1. For[request[s].payment] \in Invoices
    BY ReceivablesAssumption DEF BillsInv, BooksInv, RequestsAreCurrent, Current
  <2>2. For[request[s].payment] \notin q.unwind
    BY <1>1, <2>1, LocksOfPay DEF Free
  <2> QED
    BY <1>7, <2>1, <2>2
<1>11. allocated' \in [Invoices -> [times : Nat, given : Nat]] /\ End(r)
  BY <1>2 DEF BillsInv, TypeOK
<1> QED
  BY <1>5, <1>8, <1>9, <1>10, <1>11, CommitKeepsBills

\* Nothing is paid of any invoice at first.
LEMMA BillsInitially ==
  ASSUME Init
  PROVE  BillsInv
<1>1. BooksInv
  BY InitKeeps, ReceivablesAssumption
<1>2. TypeOK
  BY IdleIsTyped, ReceivablesAssumption DEF Init, TypeOK, InvoiceStatus, Bill, Bills
<1>3. PaymentsFit /\ AllocationsFunded
  BY DEF Init, PaymentsFit, PaymentFits, AllocationsFunded, AllocationFunded, Idle
<1>4. ASSUME NEW i \in Invoices
      PROVE  PaymentsFor(i) = 0 /\ bill[i].paid = 0 /\ allocated[i].given = 0 /\ Total[i] \in Nat
  <2>1. \A p \in Payments : Paying(i)[p] = 0
    BY DEF Init, Paying
  <2> QED
    BY <2>1, PaymentsAreSummed, SumOfZeros, FinitelyManyPayments, ReceivablesAssumption DEF Init, Bill
<1> QED
  BY <1>1, <1>2, <1>3, <1>4 DEF BillsInv, PaidByItsPayments, PaidWasGiven

\* No step disturbs the invariant of the bills.
LEMMA BillsStep ==
  ASSUME BillsInv, [Next]_vars
  PROVE  BillsInv'
<1>1. BooksInv'
  BY StepKeeps, ReceivablesAssumption DEF BillsInv
<1>2. CASE Next
  <2>1. PICK r \in Requests : Step(r)
    BY <1>2 DEF Next
  <2>2. ASSUME NEW i \in Invoices, StartPost(r, i) PROVE BillsInv'
    BY <1>1, <2>2, StartPostKeepsBills
  <2>3. ASSUME NEW p \in Payments, StartPayment(r, p) PROVE BillsInv'
    BY <1>1, <2>3, StartPaymentKeepsBills
  <2>4. ASSUME NEW p \in Payments, AutoAllocate(r, p) PROVE BillsInv'
    <3>1. FifoPlan(Amount[p]) \in Seq(Items)
      BY FifoPlanTyped, ReceivablesAssumption DEF BillsInv
    <3> QED
      BY <1>1, <2>4, <3>1, StartAllocationKeepsBills DEF AutoAllocate
  <2>5. ASSUME NEW p \in Payments, NEW plan \in Slips, AllocateByHand(r, p, plan) PROVE BillsInv'
    <3>1. plan \in Seq(Items)
      BY ReceivablesAssumption DEF Items
    <3> QED
      BY <1>1, <2>5, <3>1, StartAllocationKeepsBills DEF AllocateByHand
  <2>6. ASSUME NEW p \in Payments, StartReverse(r, p) PROVE BillsInv'
    BY <1>1, <2>6, StartReverseKeepsBills
  <2> QED
    BY <1>1, <2>1, <2>2, <2>3, <2>4, <2>5, <2>6, CommitPostKeepsBills, CommitPaymentKeepsBills,
       ReadNextKeepsBills, WriteNextKeepsBills, CommitAllocationKeepsBills, CommitReverseKeepsBills,
       AbortKeepsBills DEF Step
<1>3. CASE UNCHANGED vars
  <2>1. \A i : Funds(i)' = Funds(i) /\ PaymentsFor(i)' = PaymentsFor(i)
    BY <1>3, PaymentsForStays DEF vars, Funds
  <2>2. TypeOK' /\ PaymentsFit' /\ AllocationsFunded'
    BY <1>3, <2>1 DEF vars, books, BillsInv, TypeOK, InvoiceStatus, RequestType, Idle, PaymentsFit, PaymentFits,
                      AllocationsFunded, AllocationFunded, NextItem
  <2>3. PaidByItsPayments' /\ PaidWasGiven'
    BY <1>3, <2>1 DEF vars, BillsInv, PaidByItsPayments, PaidWasGiven, Unwound
  <2> QED
    BY <1>1, <2>2, <2>3 DEF BillsInv
<1> QED
  BY <1>2, <1>3

\* The inductive invariant of the bills: what requests have read and written so
\* far is covered by payments and allocations, and a payment's invoice is as it
\* read it.
THEOREM BillsAreKept == Spec => []BillsInv
BY BillsInitially, BillsStep, PTL DEF Spec

\* An invoice that no allocation or reversal touched is paid by exactly the
\* payments taken for it and never overpaid, however many of them overlap: the
\* lock on its row makes each count the ones before it (payment.create).
THEOREM PaidWhatWasTaken == Spec => []PaidByItsPayments
<1>1. BillsInv => PaidByItsPayments
  BY DEF BillsInv
<1> QED
  BY <1>1, BillsAreKept, PTL

\* Allocations read an invoice before they lock it, and may undo each other;
\* none of it ever shows more paid than was taken for it or given to it by an item
\* of an allocation that committed (payment-allocation.service).
THEOREM PaidWasFunded == Spec => []PaidWasGiven
<1>1. BillsInv => PaidWasGiven
  BY DEF BillsInv
<1> QED
  BY <1>1, BillsAreKept, PTL

-----------------------------------------------------------------------------
(* The credit limit.                                                       *)

\* Nobody has asked or decided at first.
LEMMA CreditStarts ==
  ASSUME CreditInit
  PROVE  CreditInv
<1>1. CreditTypeOK
  BY CreditAssumption DEF CreditInit, CreditTypeOK
<1> QED
  BY <1>1, CreditAssumption DEF CreditInit, CreditInv, AskedAboveStart, DecidesWhatWasMade, LimitWasGranted

\* A request for an increase is created above the limit that was read.
LEMMA AskingKeepsCredit ==
  ASSUME CreditInv, NEW r \in Increases, RequestIncrease(r) \/ CreateRequest(r)
  PROVE  CreditInv'
<1> USE DEF CreditInv
<1>1. CASE RequestIncrease(r)
  <2>1. PICK l \in Limits : l > limit /\ newLimit' = [newLimit EXCEPT ![r] = l]
    BY <1>1 DEF RequestIncrease
  <2>2. l \in Nat /\ l > StartLimit
    BY <2>1, CreditAssumption DEF Limits, CreditTypeOK, LimitWasGranted
  <2>3. CreditTypeOK'
    BY <1>1, <2>1, <2>2 DEF RequestIncrease, CreditTypeOK
  <2>4. AskedAboveStart' /\ DecidesWhatWasMade'
    BY <1>1, <2>1, <2>2 DEF RequestIncrease, CreditTypeOK, AskedAboveStart, DecidesWhatWasMade, Made
  <2>5. LimitWasGranted'
    BY <1>1, <2>1 DEF RequestIncrease, CreditTypeOK, LimitWasGranted
  <2> QED
    BY <2>3, <2>4, <2>5
<1>2. CASE CreateRequest(r)
  <2>1. CreditTypeOK'
    BY <1>2 DEF CreateRequest, CreditTypeOK, Made
  <2>2. AskedAboveStart' /\ DecidesWhatWasMade'
    BY <1>2 DEF CreateRequest, CreditTypeOK, AskedAboveStart, DecidesWhatWasMade, Made
  <2>3. LimitWasGranted'
    BY <1>2 DEF CreateRequest, CreditTypeOK, LimitWasGranted
  <2> QED
    BY <2>1, <2>2, <2>3
<1> QED
  BY <1>1, <1>2

\* Whoever decides reads a request.
LEMMA TakingUpKeepsCredit ==
  ASSUME CreditInv, NEW d \in Deciders, NEW r \in Increases, TakeUp(d, r)
  PROVE  CreditInv'
<1> USE DEF CreditInv
<1>1. PICK verb \in {"approve", "reject"} : decision' = [decision EXCEPT ![d] = [does |-> verb, request |-> r]]
  BY DEF TakeUp
<1>2. CreditTypeOK'
  BY <1>1 DEF TakeUp, CreditTypeOK
<1>3. DecidesWhatWasMade'
  BY <1>1 DEF TakeUp, CreditTypeOK, DecidesWhatWasMade, Made
<1>4. AskedAboveStart' /\ LimitWasGranted'
  BY DEF TakeUp, AskedAboveStart, LimitWasGranted
<1> QED
  BY <1>2, <1>3, <1>4

\* A decision writes the limit its request asked for, or leaves it.
LEMMA DecidingKeepsCredit ==
  ASSUME CreditInv, NEW d \in Deciders, ApproveRequest(d) \/ RejectRequest(d) \/ DropDecision(d)
  PROVE  CreditInv'
<1> USE DEF CreditInv
<1>1. CASE ApproveRequest(d) \/ RejectRequest(d)
  <2>1. decision[d] # Undecided
    BY <1>1 DEF ApproveRequest, RejectRequest, Undecided
  <2>2. PICK r \in Increases : r = decision[d].request
    BY <2>1 DEF CreditTypeOK
  <2>3. newLimit[r] \in Nat /\ newLimit[r] > StartLimit
    BY <2>1, <2>2 DEF CreditTypeOK, AskedAboveStart, DecidesWhatWasMade, Made
  <2>4. PICK status \in {"APPROVED", "REJECTED"} : approval' = [approval EXCEPT ![r] = status]
    BY <1>1, <2>2 DEF ApproveRequest, RejectRequest
  <2>5. decision' = [decision EXCEPT ![d] = Undecided] /\ UNCHANGED newLimit
    BY <1>1 DEF ApproveRequest, RejectRequest
  <2>6. limit' = limit \/ limit' = newLimit[r]
    BY <1>1, <2>2 DEF ApproveRequest, RejectRequest
  <2>7. CreditTypeOK'
    BY <2>3, <2>4, <2>5, <2>6 DEF CreditTypeOK, Made
  <2>8. AskedAboveStart' /\ DecidesWhatWasMade'
    BY <2>1, <2>2, <2>3, <2>4, <2>5 DEF CreditTypeOK, AskedAboveStart, DecidesWhatWasMade, Made
  <2>9. LimitWasGranted'
    <3>1. approval'[r] \in {"APPROVED", "REJECTED"} /\ newLimit'[r] = newLimit[r]
      BY <2>4, <2>5 DEF CreditTypeOK
    <3>2. CASE limit' = newLimit[r]
      BY <2>3, <3>1, <3>2, CreditAssumption DEF LimitWasGranted
    <3>3. CASE limit' = limit
      BY <2>4, <2>5, <3>3 DEF CreditTypeOK, LimitWasGranted
    <3> QED
      BY <2>6, <3>2, <3>3
  <2> QED
    BY <2>7, <2>8, <2>9
<1>2. CASE DropDecision(d)
  BY <1>2 DEF DropDecision, CreditTypeOK, AskedAboveStart, DecidesWhatWasMade, LimitWasGranted
<1> QED
  BY <1>1, <1>2

\* However requests, approvals and rejections of credit race, the limit is the
\* first one or what a decided request asked for, and never below the first one.
THEOREM LimitIsGranted == CreditSpec => []LimitWasGranted
<1>1. CreditInv /\ [CreditNext]_creditVars => CreditInv'
  <2> SUFFICES ASSUME CreditInv, [CreditNext]_creditVars PROVE CreditInv'
    OBVIOUS
  <2>1. CASE UNCHANGED creditVars
    BY <2>1 DEF creditVars, CreditInv, CreditTypeOK, AskedAboveStart, DecidesWhatWasMade, LimitWasGranted
  <2> QED
    BY <2>1, AskingKeepsCredit, TakingUpKeepsCredit, DecidingKeepsCredit DEF CreditNext
<1>2. CreditInv => LimitWasGranted
  BY DEF CreditInv
<1> QED
  BY <1>1, <1>2, CreditStarts, PTL DEF CreditSpec

-----------------------------------------------------------------------------
(* Cash sessions.                                                          *)

\* No session is open or under way at first.
LEMMA CashStarts ==
  ASSUME CashInit
  PROVE  CashInv
BY DEF CashInit, CashInv, CashTypeOK, OpenedUnseen, TogetherOnlyByRace

\* openSession looks for an open session of the branch.
LEMMA LookingKeepsCash ==
  ASSUME CashInv, NEW s \in Sessions, LookForOpen(s)
  PROVE  CashInv'
BY DEF LookForOpen, CashInv, CashTypeOK, OpenedUnseen, TogetherOnlyByRace

\* openSession creates one: those it overlaps saw none either.
LEMMA CreatingKeepsCash ==
  ASSUME CashInv, NEW s \in Sessions, CreateSession(s)
  PROVE  CashInv'
<1> USE DEF CashInv
<1>1. CashTypeOK'
  BY DEF CreateSession, CashTypeOK
<1>2. \A t \in Sessions : unseen[t] \subseteq unseen'[t] /\ (t # s /\ session[t] = "opening" => s \in unseen'[t])
  BY DEF CreateSession, CashTypeOK
<1>3. \A t \in Sessions \ {s} : session'[t] = session[t]
  BY DEF CreateSession, CashTypeOK
<1>4. session[s] = "opening" /\ session'[s] = "OPEN"
  BY DEF CreateSession, CashTypeOK
<1>5. OpenedUnseen'
  BY <1>2, <1>3, <1>4 DEF OpenedUnseen
<1>6. TogetherOnlyByRace'
  BY <1>2, <1>3, <1>4 DEF OpenedUnseen, TogetherOnlyByRace
<1> QED
  BY <1>1, <1>5, <1>6

\* closeSession finds an open session and closes it.
LEMMA ClosingKeepsCash ==
  ASSUME CashInv, NEW c \in Clerks, CloseSession(c) \/ \E s \in Sessions : FindOpen(c, s)
  PROVE  CashInv'
<1> USE DEF CashInv
<1>1. CASE CloseSession(c)
  BY <1>1 DEF CloseSession, CashTypeOK, OpenedUnseen, TogetherOnlyByRace
<1>2. CASE \E s \in Sessions : FindOpen(c, s)
  BY <1>2 DEF FindOpen, CashTypeOK, OpenedUnseen, TogetherOnlyByRace
<1> QED
  BY <1>1, <1>2

\* However many calls open and close sessions of a branch, two are open at
\* once only if each was being opened beside the other.
THEOREM SessionsMeetByRace == CashSpec => []TogetherOnlyByRace
<1>1. CashInv /\ [CashNext]_cashVars => CashInv'
  <2> SUFFICES ASSUME CashInv, [CashNext]_cashVars PROVE CashInv'
    OBVIOUS
  <2>1. CASE UNCHANGED cashVars
    BY <2>1 DEF cashVars, CashInv, CashTypeOK, OpenedUnseen, TogetherOnlyByRace
  <2> QED
    BY <2>1, LookingKeepsCash, CreatingKeepsCash, ClosingKeepsCash DEF CashNext
<1>2. CashInv => TogetherOnlyByRace
  BY DEF CashInv
<1> QED
  BY <1>1, <1>2, CashStarts, PTL DEF CashSpec
=============================================================================
