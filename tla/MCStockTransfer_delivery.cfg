SPECIFICATION FairSpec
CONSTANTS
  b1 = b1  None = None
  Transfers = {t1}
  Requests = {r1, r2}
  Lots = {b1}
  StockStates = {"AVAILABLE", "IN_TRANSIT"}
  Opening <- OneLotOpening
  MaxQuantity = 2
  MaxLost = 1
  MaxCrashes = 1
PROPERTIES EventuallyRegistered FullReceiptCloses
CHECK_DEADLOCK FALSE
