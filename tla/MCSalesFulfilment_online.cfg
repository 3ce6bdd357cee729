SPECIFICATION Spec
CONSTANTS
  o1 = o1  o2 = o2  b1 = b1  b2 = b2
  NoBatch = NoBatch  None = None
  Orders = {o1, o2}
  Invoices = {i1, i2}
  Requests = {r1, r2}
  Lots = {NoBatch}
  StockStates = {"AVAILABLE", "RESERVED"}
  Opening <- UntrackedOpening
  Rank <- UntrackedRank
  Source <- OnlineSource
  Tracked = FALSE
  MaxQuantity = 1
  MaxManual = 0
SYMMETRY Symmetry
INVARIANTS ConsumedExactlyOnce OpenOrdersHoldStock ShippedWasDeducted InvoiceStockEvents
PROPERTIES SettledIsFinal StockIsBooked
CHECK_DEADLOCK FALSE
