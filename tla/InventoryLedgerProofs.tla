------------------------- MODULE InventoryLedgerProofs -------------------------
(***************************************************************************)
(* Facts about the operations of the stock ledger, for every set of lots   *)
(* and stock states.  The modules that use the ledger cite them.           *)
(***************************************************************************)
EXTENDS InventoryLedger, TLAPS

Rows == [Lots -> [StockStates -> Int]]

\* Adding a delta to rows gives rows.
LEMMA AddType ==
  ASSUME NEW rows \in Rows, NEW delta \in Rows
  PROVE  Add(rows, delta) \in Rows
BY DEF Add, Rows

\* Movements of quantities are rows.
LEMMA MovementsType ==
  ASSUME NEW state, NEW items \in [Lots -> Int]
  PROVE  Movements(state, items) \in Rows
BY DEF Movements, Rows

\* A movement pair of quantities is rows.
LEMMA MovementPairType ==
  ASSUME NEW from, NEW to, NEW items \in [Lots -> Int]
  PROVE  MovementPair(from, to, items) \in Rows
BY DEF MovementPair, Rows

\* Snapshot and log stay in step when both get the same delta.
LEMMA SameDelta ==
  ASSUME NEW base \in Rows, NEW log \in Rows, NEW delta \in Rows
  PROVE  Add(Add(base, log), delta) = Add(base, Add(log, delta))
BY DEF Add, Rows

\* The ledger starts with rows that match an empty log.
LEMMA LedgerInitRight ==
  ASSUME LedgerInit
  PROVE  LedgerTypeOK /\ SnapshotMatchesMovements
BY LedgerAssumption DEF LedgerInit, LedgerTypeOK, SnapshotMatchesMovements, Movements, Add

\* Applying the movements of an event keeps every row non-negative and in
\* step with the log.
LEMMA ApplyMovementsRight ==
  ASSUME LedgerTypeOK, SnapshotMatchesMovements,
         NEW delta \in Rows, ApplyMovements(delta)
  PROVE  LedgerTypeOK' /\ SnapshotMatchesMovements'
<1>1. snapshot \in Rows /\ moved \in Rows
  BY DEF LedgerTypeOK, Rows
<1>2. LedgerTypeOK'
  BY <1>1 DEF LedgerTypeOK, ApplyMovements, Add, Rows
<1>3. Movements("AVAILABLE", Opening) \in Rows
  BY LedgerAssumption, MovementsType
<1>4. Add(snapshot, delta) = Add(Movements("AVAILABLE", Opening), Add(moved, delta))
  BY <1>1, <1>3, SameDelta DEF SnapshotMatchesMovements
<1> QED
  BY <1>2, <1>4 DEF SnapshotMatchesMovements, ApplyMovements

\* postEvent, whether or not the key was processed before.
LEMMA PostEventRight ==
  ASSUME LedgerTypeOK, SnapshotMatchesMovements,
         NEW key, NEW delta \in Rows, PostEvent(key, delta)
  PROVE  /\ LedgerTypeOK' /\ SnapshotMatchesMovements'
         /\ posted' = posted \cup {key}
<1>1. CASE key \in posted
  BY <1>1 DEF PostEvent, ledgerVars, LedgerTypeOK, SnapshotMatchesMovements
<1>2. CASE key \notin posted
  BY <1>2, ApplyMovementsRight DEF PostEvent
<1> QED
  BY <1>1, <1>2

\* reserveStock and releaseStock, which write the rows themselves.
LEMMA ReserveStockRight ==
  ASSUME LedgerTypeOK, SnapshotMatchesMovements,
         "RESERVED" \in StockStates,
         NEW items \in [Lots -> Nat], ReserveStock(items)
  PROVE  LedgerTypeOK' /\ SnapshotMatchesMovements'
<1> DEFINE delta == MovementPair("AVAILABLE", "RESERVED", items)
<1>1. delta \in Rows
  BY MovementPairType
<1>2. \A l \in Lots : \A s \in StockStates : snapshot[l][s] + delta[l][s] >= 0
  BY LedgerAssumption DEF ReserveStock, MovementPair, LedgerTypeOK
<1>3. ApplyMovements(delta)
  BY <1>2 DEF ReserveStock, ApplyMovements
<1> QED
  BY <1>1, <1>3, ApplyMovementsRight

\* releaseStock keeps every row non-negative and in step with the log.
LEMMA ReleaseStockRight ==
  ASSUME LedgerTypeOK, SnapshotMatchesMovements,
         "RESERVED" \in StockStates,
         NEW items \in [Lots -> Nat], ReleaseStock(items)
  PROVE  LedgerTypeOK' /\ SnapshotMatchesMovements'
<1> DEFINE delta == MovementPair("RESERVED", "AVAILABLE", items)
<1>1. delta \in Rows
  BY MovementPairType
<1>2. \A l \in Lots : \A s \in StockStates : snapshot[l][s] + delta[l][s] >= 0
  BY LedgerAssumption DEF ReleaseStock, MovementPair, LedgerTypeOK
<1>3. ApplyMovements(delta)
  BY <1>2 DEF ReleaseStock, ApplyMovements
<1> QED
  BY <1>1, <1>3, ApplyMovementsRight
=============================================================================
