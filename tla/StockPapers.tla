----------------------------- MODULE StockPapers -------------------------------
(* The documents of the warehouse, by layer; see SalesPapers.               *)
EXTENDS Papers

(* Transfers between branches. *)

TransferRoutes ==
  [view     |-> Route("inventory.view", "transfer"),
   confirm  |-> Route("inventory.transfer.ship", "transfer"),
   dispatch |-> KeyedRoute("inventory.transfer.ship", "transfer")]

TransferSteps ==
  Steps("confirm", {"DRAFT", "CONFIRMED"}, "CONFIRMED", "locked")
    \cup Steps("ship", {"CONFIRMED", "IN_TRANSIT"}, "IN_TRANSIT", "locked")
    \cup Steps("ship", {"RECEIVED"}, "RECEIVED", "locked")

\* The store acknowledges the receipt.
TransferElsewhere == {<<"IN_TRANSIT", "RECEIVED">>}

\* Mutant: a transfer is shipped without a key.
CallsWithoutKey == [confirm |-> Call("confirm"), ship |-> Call("dispatch")]

TransferCalls == [confirm |-> Call("confirm"), ship |-> CallWithKey("dispatch")]

TransferPage == [DRAFT |-> <<"confirm">>, CONFIRMED |-> <<"ship">>]

(* Purchase orders. *)

PurchaseRoutes ==
  [view    |-> Route("purchases.view", "purchase-order"),
   confirm |-> Route("purchases.confirm", "purchase-order"),
   cancel  |-> Route("purchases.confirm", "purchase-order"),
   receive |-> KeyedRoute("purchases.receive", "purchase-order")]

\* Mutant: confirming looks at the order first and writes it later.
ConfirmsBlindly ==
  Steps("confirm", {"DRAFT"}, "CONFIRMED", "blind")
    \cup Steps("cancel", {"DRAFT", "CONFIRMED"}, "CANCELLED", "locked")
    \cup Steps("receive", {"CONFIRMED"}, "PARTIALLY_RECEIVED", "locked")
    \cup Steps("receive", {"CONFIRMED", "PARTIALLY_RECEIVED"}, "RECEIVED", "locked")

\* A receipt is of a part of what was ordered or of all that remains.
PurchaseSteps ==
  Steps("confirm", {"DRAFT"}, "CONFIRMED", "locked")
    \cup Steps("cancel", {"DRAFT", "CONFIRMED"}, "CANCELLED", "locked")
    \cup Steps("receive", {"CONFIRMED"}, "PARTIALLY_RECEIVED", "locked")
    \cup Steps("receive", {"CONFIRMED", "PARTIALLY_RECEIVED"}, "RECEIVED", "locked")

\* Cancelling has no button: another client calls its route.
PurchaseCalls == [confirm |-> Call("confirm"), receive |-> CallWithKey("receive"), cancel |-> Call("cancel")]

PurchasePage ==
  [DRAFT |-> <<"confirm">>, CONFIRMED |-> <<"receive">>, PARTIALLY_RECEIVED |-> <<"receive">>]

(* Adjustments and damage reports. *)

AdjustmentRoutes ==
  [view    |-> Route("inventory.view", "none"),
   submit  |-> Route("inventory.adjust.create", "none"),
   approve |-> Route("inventory.adjust.approve", "none"),
   post    |-> Route("inventory.adjust.post", "none")]

CorrectionSteps ==
  Steps("submit", {"DRAFT"}, "SUBMITTED", "blind")
    \cup Steps("approve", {"SUBMITTED"}, "APPROVED", "blind")
    \cup Steps("post", {"APPROVED"}, "POSTED", "blind")

AdjustmentCalls == [submit |-> Call("submit"), approve |-> Call("approve"), post |-> Call("post")]

AdjustmentPage == [DRAFT |-> <<"submit">>, SUBMITTED |-> <<"approve">>, APPROVED |-> <<"post">>]

DamageRoutes ==
  [view    |-> Route("inventory.view", "none"),
   submit  |-> Route("inventory.adjust.create", "none"),
   approve |-> Route("inventory.adjust.approve", "none"),
   reject  |-> Route("inventory.adjust.approve", "none"),
   post    |-> Route("inventory.adjust.post", "none")]

DamageSteps == CorrectionSteps \cup Steps("reject", {"SUBMITTED", "APPROVED"}, "REJECTED", "blind")

DamageCalls ==
  [submit |-> Call("submit"), approve |-> Call("approve"), reject |-> Call("reject"), post |-> Call("post")]

DamagePage ==
  [DRAFT |-> <<"submit">>, SUBMITTED |-> <<"approve", "reject">>, APPROVED |-> <<"post">>]

(* Stock counts: reconciling makes an adjustment of what the count found and *)
(* submits, approves and posts it.                                           *)

CountRoutes ==
  [view      |-> Route("inventory.view", "none"),
   submit    |-> Route("inventory.adjust.create", "none"),
   reconcile |-> Route("inventory.adjust.post", "none")]

CountSteps ==
  Steps("submit", {"DRAFT"}, "SUBMITTED", "blind") \cup Steps("reconcile", {"SUBMITTED"}, "RECONCILED", "blind")

CountCalls == [submit |-> Call("submit"), reconcile |-> Call("reconcile")]

CountPage == [DRAFT |-> <<"submit">>, SUBMITTED |-> <<"reconcile">>]
===============================================================================
