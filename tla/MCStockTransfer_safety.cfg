SPECIFICATION Spec
CONSTANTS
  b1 = b1  None = None
  Transfers = {t1, t2}
  Requests = {r1, r2}
  Lots = {b1}
  StockStates = {"AVAILABLE", "IN_TRANSIT"}
  Opening <- OneLotOpening
  MaxQuantity = 2
  MaxLost = 1
  MaxCrashes = 2
SYMMETRY Symmetry
INVARIANTS SentIsRegistered NeverStranded
PROPERTY CustodyKept
CHECK_DEADLOCK FALSE
