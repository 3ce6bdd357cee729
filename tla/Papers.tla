-------------------------------- MODULE Papers ---------------------------------
(* How the route, the service and the page of a document are written down. *)
EXTENDS Sequences, FiniteSets, Staff

\* A route of a controller: what its guards ask for and whether its handler
\* insists on an Idempotency-Key.
Route(permission, scope) == [permission |-> permission, scope |-> scope, keyed |-> FALSE]

KeyedRoute(permission, scope) == [permission |-> permission, scope |-> scope, keyed |-> TRUE]

\* What a service does when asked for op.  "locked": under a row lock, at once;
\* "blind": it reads the status, and writes the new one whatever it is by then.
Steps(op, froms, to, how) == {[op |-> op, from |-> from, to |-> to, how |-> how] : from \in froms}

\* What a function of the client sends: to which route, with a key or without.
Call(route) == [route |-> route, key |-> FALSE]

CallWithKey(route) == [route |-> route, key |-> TRUE]
===============================================================================
