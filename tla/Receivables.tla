----------------------------- MODULE Receivables -----------------------------
(***************************************************************************)
(* What a retailer owes: its invoices, the payments taken for them, the    *)
(* allocation of payments to invoices, and the ledgers behind both.        *)
(*                                                                         *)
(* The invoices of one retailer, and of customers with no account.  A      *)
(* handler is cut where it has read something another transaction can      *)
(* change before it writes; what it has read is kept in `request`.  A row  *)
(* locked by a transaction stays locked until it commits or aborts.        *)
(* Voiding and cancelling enter nothing in the books; they and the stock   *)
(* an invoice moves are in SalesFulfilment.                                *)
(***************************************************************************)
EXTENDS Integers, Sequences, FiniteSets, SequencesExt, Functions

CONSTANTS
  Invoices,
  Payments,       \* idempotency keys of payment.create, one payment per key
  For,            \* For[p]: the invoice the request with key p names, or None
  ToAccount,      \* the payments whose request names the retailer
  Requests,       \* requests being served
  OnAccount,      \* the invoices with a retailerId
  Total,          \* Total[i]: grandTotal
  Issued,         \* the invoices ordered by createdAt
  Amount,         \* Amount[p]: what payment p is of
  Slips,          \* bound: the lists of items staff draw up for allocations
  MaxItems,       \* bound: items of allocations made or under way
  MaxReversals,   \* bound: reversals of an allocation
  Retailer,       \* the retailer's row, as something to lock
  None

ASSUME ReceivablesAssumption ==
  /\ OnAccount \subseteq Invoices
  /\ Total \in [Invoices -> Nat \ {0}]
  /\ Issued \in Seq(Invoices) /\ IsInjective(Issued) /\ Range(Issued) = Invoices
  /\ For \in [Payments -> Invoices \cup {None}]
  /\ ToAccount \subseteq Payments
  /\ Amount \in [Payments -> Nat \ {0}]
  /\ Slips \subseteq Seq([invoice : Invoices, amount : Int])
  /\ MaxItems \in Nat /\ MaxReversals \in Nat
  /\ Invoices \cap Payments = {}
  /\ None \notin Invoices \cup Payments
  /\ Retailer \notin Invoices \cup {None}

\* There is a sum over the payments.
ASSUME FinitelyManyPayments == IsFiniteSet(Payments)

VARIABLES
  invoice,      \* status of each invoice, and whether it was ever posted (postedAt)
  bill,         \* paidAmount, dueAmount and paymentStatus of each invoice
  payment,      \* status of each payment, and whether it has a retailer
  ledger,       \* the retailer's ledger entries of each invoice (INVOICE_DEBIT) and
                \* payment (PAYMENT_CREDIT): how many, and what balanceAfter missed
  receivable,   \* receivable[i]: RECEIVABLE_DEBIT entries of invoice i
  sales,        \* sales[i]: SALES_CREDIT entries of invoice i
  allocated,    \* history: how many allocations wrote each invoice, and the sum of
                \* what their items gave it (what an item took away is not counted)
  request       \* where each request stands and what it has read

books == <<ledger, receivable, sales>>

vars == <<invoice, bill, payment, books, allocated, request>>

Documents == Invoices \cup Payments

InvoiceStatus == {"DRAFT", "POSTED", "CREDIT_OPEN", "PAID"}

Bill(paid, due, paymentStatus) == [paid |-> paid, due |-> due, paymentStatus |-> paymentStatus]

Bills == [paid : Int, due : Int, paymentStatus : {"UNPAID", "PARTIALLY_PAID", "PAID"}]

\* What is not read yet.
Unread == Bill(0, 0, "UNPAID")

\* An amount of a list that nobody checks: of any sign.
Items == [invoice : Invoices, amount : Int]

\* What an allocation has written of an invoice, and given to it.
Writes == [written : BOOLEAN, bill : Bills, given : Nat]

Unwritten == [written |-> FALSE, bill |-> Unread, given |-> 0]

Idle == [at |-> "idle"]

\* "pay" and "post" hold their locks and have read the ledger; "allocate" is
\* about to read the invoice of item `next`, "write" has read it; "reverse" has
\* read which invoices it is going to overwrite.
RequestType ==
  {Idle}
    \cup [at : {"post"}, invoice : Invoices, seen : SUBSET Documents]
    \cup [at : {"pay"}, payment : Payments, paid : Int, seen : SUBSET Documents]
    \cup [at : {"allocate", "write"}, payment : Payments, hadRetailer : BOOLEAN,
          plan : Seq(Items), next : Nat, own : [Invoices -> Writes], read : Bills]
    \cup [at : {"reverse"}, payment : Payments, unwind : SUBSET OnAccount]

TypeOK ==
  /\ invoice \in [Invoices -> [status : InvoiceStatus, posted : BOOLEAN]]
  /\ bill \in [Invoices -> Bills]
  /\ payment \in [Payments -> [status : {"NONE", "RECORDED", "VOIDED"}, account : BOOLEAN]]
  /\ ledger \in [Documents -> [entries : Nat, missed : SUBSET Documents]]
  /\ receivable \in [Invoices -> Nat]
  /\ sales \in [Invoices -> Nat]
  /\ allocated \in [Invoices -> [times : Nat, given : Nat]]
  /\ request \in [Requests -> RequestType]

Init ==
  /\ invoice = [i \in Invoices |-> [status |-> "DRAFT", posted |-> FALSE]]
  /\ bill = [i \in Invoices |-> Bill(0, Total[i], "UNPAID")]
  /\ payment = [p \in Payments |-> [status |-> "NONE", account |-> FALSE]]
  /\ ledger = [d \in Documents |-> [entries |-> 0, missed |-> {}]]
  /\ receivable = [i \in Invoices |-> 0]
  /\ sales = [i \in Invoices |-> 0]
  /\ allocated = [i \in Invoices |-> [times |-> 0, given |-> 0]]
  /\ request = [r \in Requests |-> Idle]

Recorded(p) == payment[p].status # "NONE"

\* A payment goes to the account of its invoice's retailer, or of the retailer
\* its request names.
OfAccount(p) == For[p] \in OnAccount \/ p \in ToAccount

\* The rows a request has locked.
Locks(q) ==
  IF q.at = "post" THEN {q.invoice}
  ELSE IF q.at = "pay" THEN {For[q.payment]} \cup (IF OfAccount(q.payment) THEN {Retailer} ELSE {})
  ELSE IF q.at \in {"allocate", "write"} THEN {i \in Invoices : q.own[i].written}
  ELSE {}

Free(row) == row # None => \A r \in Requests : row \notin Locks(request[r])

Begin(r, q) == request[r].at = "idle" /\ request' = [request EXCEPT ![r] = q]

Continue(r, q) == request' = [request EXCEPT ![r] = q]

End(r) == request' = [request EXCEPT ![r] = Idle]

\* Documents with a ledger entry.
Entered == {d \in Documents : ledger[d].entries > 0}

\* A ledger entry for document d.  Its balanceAfter is the sum of the entries
\* its transaction read, those of `seen`, and its own amount; it misses the
\* entries that were committed in between.
Enter(d, seen) ==
  ledger' = [ledger EXCEPT ![d] = [entries |-> ledger[d].entries + 1, missed |-> Entered \ seen]]

-----------------------------------------------------------------------------
(* Invoices.                                                               *)

\* Mutant: posting an invoice that is posted already.
NotYetPaid(i) == invoice[i].status # "PAID"

Postable(i) == invoice[i].status = "DRAFT"

\* post, up to its read of the ledger; it locks the invoice, not the retailer.
StartPost(r, i) ==
  /\ Free(i)
  /\ Postable(i)
  /\ Begin(r, [at |-> "post", invoice |-> i, seen |-> Entered])
  /\ UNCHANGED <<invoice, bill, payment, books, allocated>>

\* The payment status is set to UNPAID, whatever a draft was paid before.
CommitPost(r) ==
  LET i == request[r].invoice IN
  /\ request[r].at = "post"
  /\ invoice' = [invoice EXCEPT ![i] =
       [status |-> IF i \in OnAccount THEN "CREDIT_OPEN" ELSE "POSTED", posted |-> TRUE]]
  /\ bill' = [bill EXCEPT ![i] = Bill(bill[i].paid, bill[i].due, "UNPAID")]
  /\ IF i \in OnAccount
     THEN /\ Enter(i, request[r].seen)
          /\ receivable' = [receivable EXCEPT ![i] = receivable[i] + 1]
          /\ sales' = [sales EXCEPT ![i] = sales[i] + 1]
     ELSE UNCHANGED books
  /\ End(r)
  /\ UNCHANGED <<payment, allocated>>

-----------------------------------------------------------------------------
(* Payments.                                                               *)

\* Mutant: what was paid before is not taken off.
OutstandingOfTotal(i) == Total[i]

Outstanding(i) == IF Total[i] > bill[i].paid THEN Total[i] - bill[i].paid ELSE 0

\* Mutant: the retailer is not locked.
OnlyInvoiceLocked(p) == Free(For[p])

RowsLocked(p) == Free(For[p]) /\ (OfAccount(p) => Free(Retailer))

\* The row of the idempotency key keeps a second request with the key waiting;
\* once the first has committed, it is given the payment that exists.
KeyUnused(p) ==
  /\ ~Recorded(p)
  /\ \A r \in Requests : request[r].at = "pay" => request[r].payment # p

\* create, up to its read of the ledger.  The status of the invoice is not
\* looked at.
StartPayment(r, p) ==
  /\ KeyUnused(p)
  /\ RowsLocked(p)
  /\ For[p] # None => Amount[p] <= Outstanding(For[p])
  /\ Begin(r, [at |-> "pay", payment |-> p, seen |-> Entered,
               paid |-> IF For[p] = None THEN 0 ELSE bill[For[p]].paid])
  /\ UNCHANGED <<invoice, bill, payment, books, allocated>>

\* The invoice of payment p, when `paid` of it is recorded.
RecordOnInvoice(i, paid) ==
  LET settled == paid >= Total[i] IN
  /\ bill' = [bill EXCEPT ![i] =
       IF settled THEN Bill(paid, 0, "PAID") ELSE Bill(paid, Total[i] - paid, "PARTIALLY_PAID")]
  /\ invoice' = [invoice EXCEPT ![i] =
       [status |-> IF settled THEN "PAID" ELSE invoice[i].status, posted |-> invoice[i].posted]]

CommitPayment(r) ==
  LET q == request[r]
      p == q.payment
  IN
  /\ q.at = "pay"
  /\ payment' = [payment EXCEPT ![p] = [status |-> "RECORDED", account |-> OfAccount(p)]]
  /\ IF For[p] = None THEN UNCHANGED <<invoice, bill>> ELSE RecordOnInvoice(For[p], q.paid + Amount[p])
  /\ IF OfAccount(p) THEN Enter(p, q.seen) ELSE UNCHANGED ledger
  /\ End(r)
  /\ UNCHANGED <<receivable, sales, allocated>>

-----------------------------------------------------------------------------
(* Allocation of payments.                                                 *)

Unpaid(i) ==
  /\ i \in OnAccount
  /\ invoice[i].status \in {"POSTED", "CREDIT_OPEN"}
  /\ bill[i].paymentStatus \in {"UNPAID", "PARTIALLY_PAID"}

Planned(plan) == FoldLeft(LAMBDA sum, item : sum + item.amount, 0, plan)

\* What autoAllocate gives invoice i of what is left of a payment.
Share(left, i) == IF left < bill[i].due THEN left ELSE bill[i].due

Give(so, i) ==
  IF Unpaid(i) /\ Share(so.left, i) > 0
  THEN [plan |-> Append(so.plan, [invoice |-> i, amount |-> Share(so.left, i)]),
        left |-> so.left - Share(so.left, i)]
  ELSE so

\* Its loop over the unpaid invoices, the oldest first.
FifoPlan(amount) ==
  LET after[n \in 0..Len(Issued)] ==
        IF n = 0 THEN [plan |-> << >>, left |-> amount] ELSE Give(after[n - 1], Issued[n])
  IN after[Len(Issued)].plan

\* Bound.
MayAllocate(plan) ==
  Len(plan) + SumFunction([i \in Invoices |-> allocated[i].times])
    + SumFunction([r \in Requests |-> IF request[r].at \in {"allocate", "write"}
                                THEN Len(request[r].plan) ELSE 0]) <= MaxItems

\* allocatePayment of p between two items of its plan; `own` is what it has
\* written for the first ones, seen by others only once it commits.
Allocating(at, q, next, own, read) ==
  [at |-> at, payment |-> q.payment, hadRetailer |-> q.hadRetailer,
   plan |-> q.plan, next |-> next, own |-> own, read |-> read]

StartAllocation(r, p, plan) ==
  /\ Recorded(p)
  /\ Begin(r, [at |-> "allocate", payment |-> p, hadRetailer |-> payment[p].account,
               plan |-> plan, next |-> 1, own |-> [i \in Invoices |-> Unwritten], read |-> Unread])
  /\ plan # << >>
  /\ MayAllocate(plan)
  /\ UNCHANGED <<invoice, bill, payment, books, allocated>>

AutoAllocate(r, p) ==
  /\ payment[p].account
  /\ StartAllocation(r, p, FifoPlan(Amount[p]))

\* A plan drawn up by hand, for any invoices of any retailer, some of them twice
\* perhaps.  Only its total is looked at: an item may give more than the
\* payment when another takes from its invoice what was paid of it.
AllocateByHand(r, p, plan) ==
  /\ Planned(plan) <= Amount[p]
  /\ StartAllocation(r, p, plan)

NextItem(q) == q.plan[q.next]

\* A transaction sees what it has written itself.
Seen(q, i) == IF q.own[i].written THEN q.own[i].bill ELSE bill[i]

\* The invoice of the next item is read without a lock ...
ReadNext(r) ==
  LET q == request[r] IN
  /\ q.at = "allocate" /\ q.next <= Len(q.plan)
  /\ Continue(r, Allocating("write", q, q.next, q.own, Seen(q, NextItem(q).invoice)))
  /\ UNCHANGED <<invoice, bill, payment, books, allocated>>

\* Mutant: the whole payment is added to each invoice.
NewPaidOfWhole(q) == q.read.paid + Amount[q.payment]

NewPaid(q) == q.read.paid + NextItem(q).amount

\* An invoice whose paid amount an allocation has set; the status of the invoice
\* stays, and its payment status too when nothing is paid of it.
Allotted(i, paid, paymentStatus) ==
  Bill(paid, Total[i] - paid,
       IF paid >= Total[i] THEN "PAID" ELSE IF paid > 0 THEN "PARTIALLY_PAID" ELSE paymentStatus)

Gift(amount) == IF amount > 0 THEN amount ELSE 0

\* ... and updated from what was read.
WriteNext(r) ==
  LET q == request[r]
      i == NextItem(q).invoice
      write == [written |-> TRUE,
                bill |-> Allotted(i, NewPaid(q), q.read.paymentStatus),
                given |-> q.own[i].given + Gift(NextItem(q).amount)]
  IN
  /\ q.at = "write"
  /\ q.own[i].written \/ Free(i)
  /\ Continue(r, Allocating("allocate", q, q.next + 1, [q.own EXCEPT ![i] = write], Unread))
  /\ UNCHANGED <<invoice, bill, payment, books, allocated>>

\* A payment with no retailer takes the one of the first invoice; the ledger
\* gets no entry.
CommitAllocation(r) ==
  LET q == request[r] IN
  /\ q.at = "allocate" /\ q.next > Len(q.plan)
  /\ bill' = [i \in Invoices |-> Seen(q, i)]
  /\ allocated' = [i \in Invoices |->
       IF q.own[i].written
       THEN [times |-> allocated[i].times + 1, given |-> allocated[i].given + q.own[i].given]
       ELSE allocated[i]]
  /\ payment' = [payment EXCEPT ![q.payment] =
       [status |-> payment[q.payment].status,
        account |-> payment[q.payment].account \/ (~q.hadRetailer /\ q.plan[1].invoice \in OnAccount)]]
  /\ End(r)
  /\ UNCHANGED <<invoice, books>>

\* Bound.
MayReverse == Cardinality({p \in Payments : payment[p].status = "VOIDED"})
                + Cardinality({r \in Requests : request[r].at = "reverse"}) < MaxReversals

\* reverseAllocation: every invoice of the retailer that is paid at all.
StartReverse(r, p) ==
  /\ Recorded(p) /\ payment[p].account
  /\ Begin(r, [at |-> "reverse", payment |-> p,
        unwind |-> {i \in OnAccount : bill[i].paymentStatus \in {"PARTIALLY_PAID", "PAID"}}])
  /\ MayReverse
  /\ UNCHANGED <<invoice, bill, payment, books, allocated>>

CommitReverse(r) ==
  LET q == request[r] IN
  /\ q.at = "reverse"
  /\ \A i \in q.unwind : Free(i)
  /\ payment' = [payment EXCEPT ![q.payment] = [status |-> "VOIDED", account |-> payment[q.payment].account]]
  /\ bill' = [i \in Invoices |-> IF i \in q.unwind THEN Bill(0, Total[i], "UNPAID") ELSE bill[i]]
  /\ End(r)
  /\ UNCHANGED <<invoice, books, allocated>>

\* A crash of the server, a refusal by a later check of the transaction, or
\* two transactions waiting for each other's rows: PostgreSQL rolls one back.
Abort(r) ==
  /\ request[r].at # "idle"
  /\ End(r)
  /\ UNCHANGED <<invoice, bill, payment, books, allocated>>

-----------------------------------------------------------------------------

Step(r) ==
  \/ \E i \in Invoices : StartPost(r, i)
  \/ CommitPost(r)
  \/ \E p \in Payments :
       \/ StartPayment(r, p)
       \/ AutoAllocate(r, p)
       \/ \E plan \in Slips : AllocateByHand(r, p, plan)
       \/ StartReverse(r, p)
  \/ CommitPayment(r)
  \/ ReadNext(r)
  \/ WriteNext(r)
  \/ CommitAllocation(r)
  \/ CommitReverse(r)
  \/ Abort(r)

Next == \E r \in Requests : Step(r)

Spec == Init /\ [][Next]_vars

-----------------------------------------------------------------------------
(* Properties.                                                             *)

\* The books say what the documents say: an invoice on account has one debit,
\* one receivable and one sale once it is posted, and none before; a payment
\* taken on account has one credit, and no other payment has any.
LedgerIsDocumented ==
  /\ \A i \in Invoices :
       LET entries == IF invoice[i].posted /\ i \in OnAccount THEN 1 ELSE 0
       IN ledger[i].entries = entries /\ receivable[i] = entries /\ sales[i] = entries
  /\ \A p \in Payments :
       ledger[p].entries = IF Recorded(p) /\ OfAccount(p) THEN 1 ELSE 0

\* The balance written with a payment counts every payment entered before it
\* (it may miss an invoice posted meanwhile: posting does not lock the retailer).
PaymentsSeePayments == \A p \in Payments : ledger[p].missed \cap Payments = {}

PaymentsFor(i) == SumFunction([p \in Payments |-> IF Recorded(p) /\ For[p] = i THEN Amount[p] ELSE 0])

Unwound == \E p \in Payments : payment[p].status = "VOIDED"

\* An invoice no allocation wrote, and no reversal unwound, is paid by exactly
\* the payments taken for it, and never overpaid.
PaidByItsPayments ==
  \A i \in Invoices :
    allocated[i].times = 0 /\ ~Unwound =>
      bill[i].paid = PaymentsFor(i) /\ bill[i].paid <= Total[i]

\* However allocations, payments and reversals interleave, each writing what it
\* read a while ago, an invoice is never shown to be paid more than the
\* payments for it and the items of the allocations that committed gave it:
\* nothing is given twice, and nothing by a request that was rolled back.
\* (An allocation may give more than its payment is of, see AllocateByHand.)
PaidWasGiven == \A i \in Invoices : bill[i].paid <= PaymentsFor(i) + allocated[i].given

-----------------------------------------------------------------------------
(* What keeps the books right: the inductive invariant of FinanceProofs.     *)

BooksTypeOK ==
  /\ invoice \in [Invoices -> [status : InvoiceStatus, posted : BOOLEAN]]
  /\ payment \in [Payments -> [status : {"NONE", "RECORDED", "VOIDED"}, account : BOOLEAN]]
  /\ ledger \in [Documents -> [entries : Nat, missed : SUBSET Documents]]
  /\ receivable \in [Invoices -> Nat]
  /\ sales \in [Invoices -> Nat]
  /\ request = [r \in Requests |-> request[r]]

DraftsAreNotPosted == \A i \in Invoices : invoice[i].status = "DRAFT" => ~invoice[i].posted

\* A request in a transaction is about a document that still is as it read it.
Current(q) ==
  /\ q.at = "post" => q.invoice \in Invoices /\ invoice[q.invoice].status = "DRAFT"
  /\ q.at = "pay" => /\ q.payment \in Payments /\ ~Recorded(q.payment)
                     /\ OfAccount(q.payment) => Entered \cap Payments \subseteq q.seen
  /\ q.at \in {"allocate", "write", "reverse"} => q.payment \in Payments /\ Recorded(q.payment)
  /\ q.at \in {"allocate", "write"} => q.own = [i \in Invoices |-> q.own[i]]

RequestsAreCurrent == \A r \in Requests : Current(request[r])

\* No row is locked twice, and no idempotency key is held twice.
RowsLockedOnce ==
  \A r, s \in Requests : r # s =>
    /\ \A row \in Locks(request[r]) : row # None => row \notin Locks(request[s])
    /\ request[r].at = "pay" /\ request[s].at = "pay" => request[r].payment # request[s].payment

BooksInv ==
  /\ BooksTypeOK
  /\ DraftsAreNotPosted
  /\ RequestsAreCurrent
  /\ RowsLockedOnce
  /\ LedgerIsDocumented
  /\ PaymentsSeePayments

-----------------------------------------------------------------------------
(* What keeps the bills right: a request that is going to write what was   *)
(* paid has read no more than was paid for the invoice and given to it, and *)
(* one that holds the invoice's row has read what is there still.          *)

Funds(i) == PaymentsFor(i) + allocated[i].given

\* The invoice a payment holds is as it read it, and has room for its amount.
PaymentFits(q) ==
  q.at = "pay" /\ For[q.payment] # None =>
    q.paid = bill[For[q.payment]].paid /\ q.paid + Amount[q.payment] <= Total[For[q.payment]]

PaymentsFit == \A r \in Requests : PaymentFits(request[r])

\* An allocation writes no more than the funds and what it gives itself.
AllocationFunded(q) ==
  /\ q.at \in {"allocate", "write"} =>
       /\ q.next \in 1..(Len(q.plan) + 1)
       /\ \A i \in Invoices : q.own[i].written => q.own[i].bill.paid <= Funds(i) + q.own[i].given
  /\ q.at = "write" =>
       /\ q.next <= Len(q.plan)
       /\ q.read.paid <= Funds(NextItem(q).invoice) + q.own[NextItem(q).invoice].given

AllocationsFunded == \A r \in Requests : AllocationFunded(request[r])

BillsInv ==
  /\ TypeOK /\ BooksInv
  /\ PaymentsFit /\ AllocationsFunded
  /\ PaidByItsPayments /\ PaidWasGiven
=============================================================================
