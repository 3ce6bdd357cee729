----------------------------- MODULE SalesPapers -------------------------------
(***************************************************************************)
(* The documents of selling, as three layers of the program have them: the *)
(* routes (controller), the steps (service), and the buttons a page offers *)
(* for a status with the calls they make (page and client).                *)
(***************************************************************************)
EXTENDS Papers

(* Deliveries. *)

DeliveryRoutes ==
  [view     |-> Route("deliveries.view", "none"),
   dispatch |-> Route("deliveries.manage", "none"),
   complete |-> Route("deliveries.manage", "none"),
   cancel   |-> Route("deliveries.manage", "none")]

DeliverySteps ==
  Steps("dispatch", {"PENDING"}, "IN_TRANSIT", "blind")
    \cup Steps("complete", {"IN_TRANSIT"}, "DELIVERED", "blind")
    \cup Steps("cancel", {"PENDING", "IN_TRANSIT"}, "CANCELLED", "blind")

DeliveryCalls == [dispatch |-> Call("dispatch"), complete |-> Call("complete"), cancel |-> Call("cancel")]

DeliveryPage == [PENDING |-> <<"dispatch", "cancel">>, IN_TRANSIT |-> <<"complete", "cancel">>]

(* Invoices.  POSTED also stands for CREDIT_OPEN; a part payment leaves the *)
(* status as it is.  This page's call for a payment lacks the key its route *)
(* demands; payments are taken elsewhere, of invoices of any status.        *)

InvoiceRoutes ==
  [view   |-> Route("invoices.view", "invoice"),
   post   |-> Route("invoices.post", "invoice"),
   void   |-> Route("invoices.void", "invoice"),
   cancel |-> Route("invoices.create", "invoice"),
   pay    |-> KeyedRoute("payments.create", "invoice")]

Payable == {"DRAFT", "POSTED", "VOIDED", "CANCELLED"}

\* Asking for the status a document has is no error.
Repeats(statuses) == {[op |-> s, from |-> s, to |-> s, how |-> "locked"] : s \in statuses}

InvoiceSteps ==
  Steps("post", {"DRAFT"}, "POSTED", "locked")
    \cup {[repeat EXCEPT !.op = "post"] : repeat \in Repeats({"POSTED", "PAID", "VOIDED", "CANCELLED"})}
    \cup {[repeat EXCEPT !.op = "pay"] : repeat \in Repeats(Payable)}
    \cup Steps("pay", Payable, "PAID", "locked")
    \cup Steps("void", {"POSTED"}, "VOIDED", "blind")
    \cup Steps("cancel", {"DRAFT"}, "CANCELLED", "blind")

\* Cancelling has no button: another client calls its route.
InvoiceCalls == [post |-> Call("post"), void |-> Call("void"), pay |-> Call("pay"), cancel |-> Call("cancel")]

InvoicePage == [DRAFT |-> <<"post">>, POSTED |-> <<"pay", "void">>]

InvoiceElsewhere == Payable \X {"PAID"}

(* Orders. *)

OrderRoutes ==
  [view    |-> Route("sales-orders.view", "order"),
   cancel  |-> Route("sales-orders.create", "order"),
   status  |-> Route("sales-orders.create", "order"),
   convert |-> Route("invoices.create", "order-conversion")]

Progress ==
  Steps("PICKING", {"CONFIRMED"}, "PICKING", "locked")
    \cup Steps("PACKED", {"PICKING"}, "PACKED", "locked")
    \cup Steps("DELIVERED", {"DISPATCHED"}, "DELIVERED", "locked")
    \cup Repeats({"PICKING", "PACKED", "DISPATCHED", "DELIVERED"})

\* Mutant: only orders that are not picked yet can be cancelled.
CancelUnpicked ==
  Steps("cancel", {"CONFIRMED", "CANCELLED"}, "CANCELLED", "locked")

CancelOrder ==
  Steps("cancel", {"CONFIRMED", "PICKING", "PACKED", "CANCELLED"}, "CANCELLED", "locked")

ConvertConfirmed == Steps("convert", {"CONFIRMED"}, "INVOICED", "blind")

\* What a shopper ordered.  Any client may convert it to an invoice while it is
\* CONFIRMED, although no page offers that: the source is not looked at.  It is
\* dispatched whether its invoice is posted or not.
OnlineOrderSteps ==
  Progress \cup CancelOrder
    \cup ConvertConfirmed
    \cup Steps("DISPATCHED", {"PACKED", "INVOICED"}, "DISPATCHED", "locked")

\* An order that is not picked yet can be cancelled by who placed it, too: the
\* check comes first, and the order may be picked before the row is locked.
CancelledOutside == {"CONFIRMED", "PICKING", "PACKED"} \X {"CANCELLED"}

\* An order of the central warehouse is invoiced once it is packed, and leaves
\* with a posted invoice; "POSTED" and "SETTLED" are the INVOICED order whose
\* invoice is posted, or is paid, partly paid, voided or cancelled.
CentralOrderSteps ==
  Progress \cup CancelOrder
    \cup Steps("convert", {"CONFIRMED", "PACKED"}, "INVOICED", "blind")
    \cup Steps("DISPATCHED", {"POSTED"}, "DISPATCHED", "locked")

CentralElsewhere ==
  CancelledOutside \cup {<<"INVOICED", "POSTED">>, <<"INVOICED", "SETTLED">>, <<"POSTED", "SETTLED">>}

\* What a sales representative took is only turned into an invoice here; it is
\* cancelled by another client.
RepOrderSteps == CancelOrder \cup ConvertConfirmed

OrderCalls ==
  [PICKING |-> Call("status"), PACKED |-> Call("status"), DISPATCHED |-> Call("status"),
   DELIVERED |-> Call("status"), convert |-> Call("convert"), cancel |-> Call("cancel")]

OnlineOrderPage ==
  [CONFIRMED |-> <<"PICKING", "cancel">>, PICKING |-> <<"PACKED", "cancel">>,
   PACKED |-> <<"DISPATCHED", "cancel">>, DISPATCHED |-> <<"DELIVERED">>]

CentralOrderPage ==
  [CONFIRMED |-> <<"PICKING", "cancel">>, PICKING |-> <<"PACKED", "cancel">>,
   PACKED |-> <<"convert", "cancel">>, POSTED |-> <<"DISPATCHED">>, DISPATCHED |-> <<"DELIVERED">>]

RepOrderPage == [CONFIRMED |-> <<"convert">>]
===============================================================================
