--------------------------- MODULE InventoryLedger ---------------------------
(***************************************************************************)
(* The stock ledger of one location and one product: the snapshot rows     *)
(* (one per batch and stock state), the movement log behind them, and the  *)
(* idempotency keys of the events posted so far.  Every operation below is *)
(* what one call does inside the database transaction of its caller, with  *)
(* the snapshot rows it touches locked.                                    *)
(*                                                                         *)
(* The movement log is kept as its net effect per row.  A missing snapshot *)
(* row and a row holding 0 behave the same in every operation (an outbound *)
(* movement is refused, an inbound one leaves its quantity), so a row that *)
(* does not exist is a row holding 0.                                      *)
(***************************************************************************)
EXTENDS Integers

CONSTANTS
  Lots,         \* batch ids of the product, and the value that stands for a null batchId
  StockStates,  \* the values of the StockState enum the client uses
  Opening       \* AVAILABLE stock per lot when the behaviour starts

ASSUME LedgerAssumption ==
  /\ Opening \in [Lots -> Nat]
  /\ "AVAILABLE" \in StockStates

VARIABLES
  snapshot,     \* snapshot[l][s]: baseQuantity of the row of lot l and state s
  moved,        \* moved[l][s]: sum of baseQuantityDelta over the movements of that row
  posted        \* idempotency keys of the InventoryEvents that carry one

ledgerVars == <<snapshot, moved, posted>>

-----------------------------------------------------------------------------

\* Movements of `items` in one stock state.
Movements(state, items) ==
  [l \in Lots |-> [s \in StockStates |-> IF s = state THEN items[l] ELSE 0]]

\* A movement pair: `items` leave one stock state and enter another.
MovementPair(from, to, items) ==
  [l \in Lots |-> [s \in StockStates |->
     IF s = from THEN - items[l] ELSE IF s = to THEN items[l] ELSE 0]]

\* The table rows after adding a delta to each.
Add(rows, delta) ==
  [l \in Lots |-> [s \in StockStates |-> rows[l][s] + delta[l][s]]]

Outbound(items) == [l \in Lots |-> - items[l]]

\* `quantity` of one lot and nothing of the others.
OfLot(lot, quantity) == [l \in Lots |-> IF l = lot THEN quantity ELSE 0]

-----------------------------------------------------------------------------

LedgerInit ==
  /\ snapshot = Movements("AVAILABLE", Opening)
  /\ moved = [l \in Lots |-> [s \in StockStates |-> 0]]
  /\ posted = {}

\* Each movement of an event: refused when it would take its row below zero.
ApplyMovements(delta) ==
  /\ \A l \in Lots : \A s \in StockStates : snapshot[l][s] + delta[l][s] >= 0
  /\ snapshot' = Add(snapshot, delta)
  /\ moved' = Add(moved, delta)

\* Mutant: postEvent without the lookup of the key.
PostEventAgain(key, delta) == ApplyMovements(delta) /\ posted' = posted \cup {key}

\* postEvent: a key that was already processed returns the existing event.
PostEvent(key, delta) ==
  IF key \in posted
  THEN UNCHANGED ledgerVars
  ELSE ApplyMovements(delta) /\ posted' = posted \cup {key}

\* reserveStock: writes both rows itself, then logs the movement pair.
\* Its event carries no idempotency key.
ReserveStock(items) ==
  /\ \A l \in Lots : snapshot[l]["AVAILABLE"] >= items[l]
  /\ snapshot' = Add(snapshot, MovementPair("AVAILABLE", "RESERVED", items))
  /\ moved' = Add(moved, MovementPair("AVAILABLE", "RESERVED", items))
  /\ UNCHANGED posted

\* Mutant: the movement back into AVAILABLE is not logged.
ReleaseStockUnlogged(items) ==
  /\ \A l \in Lots : snapshot[l]["RESERVED"] >= items[l]
  /\ snapshot' = Add(snapshot, MovementPair("RESERVED", "AVAILABLE", items))
  /\ moved' = Add(moved, Movements("RESERVED", Outbound(items)))
  /\ UNCHANGED posted

\* releaseStock: the reverse of reserveStock.
ReleaseStock(items) ==
  /\ \A l \in Lots : snapshot[l]["RESERVED"] >= items[l]
  /\ snapshot' = Add(snapshot, MovementPair("RESERVED", "AVAILABLE", items))
  /\ moved' = Add(moved, MovementPair("RESERVED", "AVAILABLE", items))
  /\ UNCHANGED posted

-----------------------------------------------------------------------------

LedgerTypeOK ==
  /\ snapshot \in [Lots -> [StockStates -> Nat]]
  /\ moved \in [Lots -> [StockStates -> Int]]

\* Every snapshot row is the opening stock plus the movements logged for it:
\* the rows reserveStock and releaseStock write themselves never drift from
\* the log that postEvent keeps.
SnapshotMatchesMovements ==
  snapshot = Add(Movements("AVAILABLE", Opening), moved)
=============================================================================
