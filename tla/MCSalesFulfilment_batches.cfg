SPECIFICATION Spec
CONSTANTS
  o1 = o1  o2 = o2  b1 = b1  b2 = b2
  NoBatch = NoBatch  None = None
  Orders = {o1}
  Invoices = {i1}
  Requests = {r1}
  Lots = {b1, b2, NoBatch}
  StockStates = {"AVAILABLE", "RESERVED"}
  Opening <- TwoBatchOpening
  Rank <- TwoBatchRank
  Source <- RetailerOnly
  Tracked = TRUE
  MaxQuantity = 2
  MaxManual = 1
SYMMETRY Symmetry
INVARIANTS SnapshotMatchesMovements ReservedRowsAddUp
CHECK_DEADLOCK FALSE
