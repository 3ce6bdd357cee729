--------------------------------- MODULE Staff ---------------------------------
(***************************************************************************)
(* Who may call a route: the permissions the seeded roles grant, and the   *)
(* two guards in front of the controllers.  PermissionsGuard compares the  *)
(* permissions in the token with those the route requires; ScopeGuard      *)
(* compares the branches and warehouses the request touches with the user's *)
(* role assignments.                                                       *)
(***************************************************************************)

Permissions ==
  {"users.view", "users.create", "users.update", "roles.manage",
   "branches.view", "branches.create", "branches.update",
   "warehouses.view", "warehouses.create", "warehouses.update",
   "suppliers.view", "suppliers.create", "suppliers.update",
   "purchases.view", "purchases.create", "purchases.confirm", "purchases.receive",
   "products.view", "products.create", "products.update", "batches.view", "batches.create",
   "inventory.view", "inventory.adjust.create", "inventory.adjust.approve", "inventory.adjust.post",
   "retailers.view", "retailers.create", "retailers.update", "sales_reps.view", "sales_reps.create",
   "invoices.view", "invoices.create", "invoices.post", "invoices.void",
   "payments.view", "payments.create", "retailer_ledger.view", "audit_logs.view", "dashboard.view",
   "routes.view", "routes.manage", "sales-orders.view", "sales-orders.create",
   "deliveries.view", "deliveries.manage",
   "inventory.transfer.create", "inventory.transfer.ship", "inventory.transfer.receive", "inventory.reserve"}

Buying == {"suppliers.view", "purchases.view", "purchases.create", "purchases.confirm", "purchases.receive"}

\* Mutant: warehouse managers approve as well.
GrantsMore ==
  [SUPER_ADMIN |-> Permissions, ADMIN |-> Permissions \ {"roles.manage"},
   BRANCH_MANAGER |-> {"inventory.view", "inventory.adjust.create", "inventory.adjust.approve"},
   WAREHOUSE_MANAGER |-> {"inventory.view", "inventory.adjust.create", "inventory.adjust.approve",
                          "inventory.adjust.post"},
   ACCOUNTANT |-> {}, SALES_REP |-> {}, STORE_STAFF |-> {}]

\* The seeded roles and what each is granted.
Grants ==
  [SUPER_ADMIN |-> Permissions,
   ADMIN |-> Permissions \ {"roles.manage"},
   BRANCH_MANAGER |->
     Buying \cup
     {"warehouses.view", "products.view", "batches.view",
      "inventory.view", "inventory.adjust.create", "inventory.adjust.approve",
      "retailers.view", "retailers.create", "retailers.update", "sales_reps.view", "sales_reps.create",
      "invoices.view", "invoices.create", "invoices.post", "invoices.void",
      "payments.view", "payments.create", "retailer_ledger.view", "dashboard.view", "branches.view"},
   WAREHOUSE_MANAGER |->
     Buying \cup
     {"warehouses.view", "products.view", "batches.view", "batches.create",
      "inventory.view", "inventory.adjust.create", "inventory.adjust.post", "branches.view"},
   ACCOUNTANT |->
     {"invoices.view", "payments.view", "payments.create", "retailer_ledger.view", "dashboard.view",
      "branches.view"},
   SALES_REP |-> {"retailers.view", "invoices.create", "payments.create", "products.view", "batches.view"},
   STORE_STAFF |-> {"products.view", "batches.view", "inventory.view", "invoices.create", "payments.create"}]

Roles == DOMAIN Grants

\* A document's own branch, and the branch at the other end of it where it has
\* one.  Each branch has one warehouse, called by the name of its branch.
Branches == {"home", "away"}

\* A role assignment: of the whole company, of a branch or of a warehouse.
Assignments == {<<"company", "all">>} \cup ({"branch", "warehouse"} \X Branches)

\* A member of staff: the roles they were assigned, and the places of those
\* assignments.  The token unites what the roles are granted, and ScopeGuard
\* looks at the places of all of them, whichever role came with which.
Seat(roles, places) == [roles |-> roles, places |-> places]

Seats == [roles : SUBSET Roles, places : SUBSET Assignments]

\* PermissionsGuard: the token carries what any of the roles is granted.
HasPermission(seat, permission) == \E role \in seat.roles : permission \in Grants[role]

\* "known": the warehouses whose own branch was looked up.
Target(branches, warehouses, known) == [branches |-> branches, warehouses |-> warehouses, known |-> known]

\* resolveTargets: the branches and warehouses of a document, by the scope its
\* route declares; orders have no warehouse, except that a conversion names one
\* in its body, as it is; supply orders are received at the store's branch and
\* otherwise worked at the source's.
Targets(scope) ==
  CASE scope \in {"order", "franchise-order"} -> Target({"home"}, {}, {})
    [] scope = "order-conversion" -> Target({"home"}, {"home"}, {})
    [] scope = "franchise-receipt" -> Target({"away"}, {}, {})
    [] scope \in {"invoice", "purchase-order"} -> Target({"home"}, {"home"}, {"home"})
    [] scope = "transfer" -> Target({"home", "away"}, {"home", "away"}, {"home", "away"})
    [] OTHER -> Target({}, {}, {})

\* canActivate: an assignment without branch and warehouse passes; a request
\* without a target is refused; the branch of a warehouse is reached through it,
\* and a warehouse through its branch, only where that branch was looked up.
InScope(seat, scope) ==
  LET places == seat.places
      targets == Targets(scope)
  IN \/ scope = "none"
     \/ <<"company", "all">> \in places
     \/ /\ targets.branches \cup targets.warehouses # {}
        /\ \A b \in targets.branches :
             \/ <<"branch", b>> \in places
             \/ b \in targets.known /\ <<"warehouse", b>> \in places
        /\ \A w \in targets.warehouses :
             \/ <<"warehouse", w>> \in places
             \/ w \in targets.known /\ <<"branch", w>> \in places

\* Both guards of a route.
Admits(route, seat) == HasPermission(seat, route.permission) /\ InScope(seat, route.scope)
===============================================================================
