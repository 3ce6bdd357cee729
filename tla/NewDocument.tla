------------------------------ MODULE NewDocument ------------------------------
(***************************************************************************)
(* One user filing something with one form.  A press makes the calls of    *)
(* the button one after the other, each once the last was answered, and    *)
(* the buttons stay disabled until the page has its answer, or gives up    *)
(* waiting: the server may serve a call nobody waits for any more.  After  *)
(* an error the form is still filled in and the user may press again.      *)
(***************************************************************************)
EXTENDS Forms, Integers

CONSTANTS MaxPresses, MaxLost

ASSUME FormAssumption == MaxPresses \in Nat /\ MaxLost \in Nat

VARIABLES
  form,     \* which form it is
  page,     \* "editing", "waiting" or "left"
  presses,  \* the presses so far, each with the call it has come to
  filed,    \* how many documents the first calls have filed
  lost,     \* how often the page gave up on a call
  undone    \* how often a later call of a press was refused

formVars == <<form, page, presses, filed, lost, undone>>

Forms ==
  [invoice |-> InvoiceForm, payment |-> PaymentForm, order |-> OrderForm, portalOrder |-> PortalOrderForm,
   quickReorder |-> QuickReorderForm, delivery |-> DeliveryForm, transfer |-> TransferForm,
   adjustment |-> AdjustmentForm, damage |-> DamageForm, count |-> CountForm, purchase |-> PurchaseForm,
   supplier |-> SupplierForm, retailer |-> RetailerForm, salesRep |-> SalesRepForm, route |-> RouteForm,
   branch |-> BranchForm, warehouse |-> WarehouseForm, product |-> ProductForm, partner |-> PartnerForm]

Filings ==
  [invoice |-> CreateInvoice, payment |-> CreatePayment, order |-> CreateOrder, portalOrder |-> PlaceOrder,
   delivery |-> CreateDelivery, transfer |-> CreateTransfer, adjustment |-> CreateAdjustment,
   damage |-> CreateDamage, count |-> StartCount, purchase |-> CreatePurchase, supplier |-> CreateSupplier,
   retailer |-> CreateRetailer, salesRep |-> CreateSalesRep, route |-> CreateRoute, branch |-> CreateBranch,
   warehouse |-> CreateWarehouse, product |-> CreateProduct, partner |-> CreatePartner]

FormInit ==
  /\ form \in DOMAIN Forms
  /\ page = "editing"
  /\ presses = << >>
  /\ filed = 0 /\ lost = 0 /\ undone = 0

\* Mutant: the button stays enabled.
AlwaysReady == page # "left"

\* A button is disabled while the page waits; a page that is left has none.
Ready == page = "editing"

Fields(filled) == Forms[form].asks \cup filled

\* With nothing more than it must have, or with everything it can take.
PressButton ==
  /\ Ready
  /\ Len(presses) < MaxPresses
  /\ \E button \in Forms[form].buttons, filled \in {{}, Forms[form].offers} :
       presses' = Append(presses, [button |-> button, filled |-> filled, step |-> 1, at |-> "sent"])
  /\ page' = "waiting"
  /\ UNCHANGED <<form, filed, lost, undone>>

Called(p) == presses[p].button[presses[p].step]

\* The pipe in front of the controllers knows every field of the request and
\* misses none, and a key is sent where one is wanted, which no form does.
WellFormed(filing, fields) ==
  /\ filing.dto.must \subseteq fields
  /\ fields \subseteq filing.dto.must \cup filing.dto.may
  /\ ~filing.keyed

\* Posting and paying what was just filed: the page copies what it was answered.
Takes(p) ==
  IF presses[p].step = 1 THEN WellFormed(Filings[Called(p)], Fields(presses[p].filled))
  ELSE Called(p) = "post"

Becomes(p, at) == presses' = [presses EXCEPT ![p].at = at]

Malformed(p) ==
  /\ presses[p].at = "sent"
  /\ ~Takes(p)
  /\ Becomes(p, "malformed")
  /\ UNCHANGED <<form, page, filed, lost, undone>>

Guard(p) == IF presses[p].step = 1 THEN Filings[Called(p)].guard ELSE "none"

\* A count is only started where none is active: the service looks, then creates.
LookForActive(p) ==
  /\ presses[p].at = "sent"
  /\ Takes(p) /\ Guard(p) = "active"
  /\ Becomes(p, IF filed = 0 THEN "looked" ELSE "refused")
  /\ UNCHANGED <<form, page, filed, lost, undone>>

Accept(p) ==
  /\ \/ presses[p].at = "sent" /\ Guard(p) # "active"
     \/ presses[p].at = "looked"
  /\ Takes(p)
  /\ Guard(p) = "code" => filed = 0
  /\ Becomes(p, "done")
  /\ filed' = IF presses[p].step = 1 THEN filed + 1 ELSE filed
  /\ UNCHANGED <<form, page, lost, undone>>

\* A field holds what the pipe or the database does not take, the code is taken, a
\* supplier is inactive, there is not enough stock: any call can be refused for
\* what it says or for the state of the data.
RefuseCall(p) ==
  /\ presses[p].at \in {"sent", "looked"}
  /\ Takes(p)
  /\ Becomes(p, "refused")
  /\ UNCHANGED <<form, page, filed, lost, undone>>

\* The answer to the press the page waits for.  Leaving the page, which the
\* router does a moment after the last answer, is taken as one with it.
Answered(p) ==
  /\ page = "waiting" /\ p = Len(presses)
  /\ \/ /\ presses[p].at = "done" /\ presses[p].step < Len(presses[p].button)
        /\ presses' = [presses EXCEPT ![p].step = @ + 1, ![p].at = "sent"]
        /\ UNCHANGED <<page, undone>>
     \/ /\ presses[p].at = "done" /\ presses[p].step = Len(presses[p].button)
        /\ page' = "left"
        /\ UNCHANGED <<presses, undone>>
     \/ /\ presses[p].at \in {"refused", "malformed"}
        /\ page' = "editing"
        /\ undone' = IF presses[p].step > 1 THEN undone + 1 ELSE undone
        /\ UNCHANGED presses
  /\ UNCHANGED <<form, filed, lost>>

\* A time-out, a network error, a server that fails after it has filed.
GiveUpWaiting ==
  /\ page = "waiting"
  /\ lost < MaxLost
  /\ page' = "editing" /\ lost' = lost + 1
  /\ UNCHANGED <<form, presses, filed, undone>>

FormNext ==
  \/ PressButton
  \/ \E p \in DOMAIN presses :
       Malformed(p) \/ LookForActive(p) \/ Accept(p) \/ RefuseCall(p) \/ Answered(p)
  \/ GiveUpWaiting

-----------------------------------------------------------------------------
(* Properties.                                                             *)

HasCode == \E button \in Forms[form].buttons : Filings[button[1]].guard = "code"

\* One press, one document: a second copy is filed only after an answer that
\* never came or a later call of the same press that was refused, and never of
\* what has a unique code.
DuplicatesAreExplained ==
  /\ filed <= 1 + lost + undone
  /\ HasCode => filed <= 1

\* The forms send the fields their DTOs list, whatever of what they offer is
\* filled in: no request is refused for a field that is unknown or missing, or for
\* want of a key, but those of three forms that cannot work as they are.  Orders
\* carry a price and a base quantity per line that their DTO does not know, and
\* payments and retailers' orders no key.
FormsAreRead ==
  \A p \in DOMAIN presses :
    presses[p].at = "malformed" => form = "order" \/ Called(p) \in {"payment", "portalOrder"}

-----------------------------------------------------------------------------
(* The inductive invariant of FrontEndProofs: every press that may have    *)
(* filed, but the one the page waits for, was given up or undone.          *)

PressOf(f) ==
  [button : Forms[f].buttons, filled : {{}, Forms[f].offers},
   step : Nat \ {0}, at : {"sent", "looked", "done", "refused", "malformed"}]

HasFiled == {p \in DOMAIN presses : presses[p].step > 1 \/ presses[p].at = "done"}

MayFile == {p \in DOMAIN presses : presses[p].step > 1 \/ presses[p].at \in {"sent", "looked", "done"}}

Awaited == IF page = "editing" THEN {} ELSE {Len(presses)}

FormInv ==
  /\ form \in DOMAIN Forms /\ page \in {"editing", "waiting", "left"}
  /\ presses \in Seq(PressOf(form))
  /\ \A p \in DOMAIN presses : presses[p].step \in DOMAIN presses[p].button
  /\ lost \in Nat /\ undone \in Nat
  /\ filed = Cardinality(HasFiled)
  /\ Cardinality(MayFile \ Awaited) <= lost + undone
  /\ HasCode => filed <= 1
  /\ FormsAreRead
===============================================================================
