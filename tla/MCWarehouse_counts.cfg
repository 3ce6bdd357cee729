SPECIFICATION Spec
CONSTANTS
  p1 = p1  l1 = l1  l2 = l2
  None = None  NoOrder = NoOrder
  Lots = {l1}
  StockStates = {"AVAILABLE", "DAMAGED"}
  Opening <- OneLotOpening
  PurchaseOrders = {}
  ReceiptKeys = {}
  Products = {p1}
  ProductOf <- OneLot
  Conversion <- Pairs
  MaxOrdered = 2
  Adjustments = {a1, a2}
  Reports = {}
  Counts = {c1}
  Requests = {r1, r2}
  MaxCorrection = 2
SYMMETRY Symmetry
INVARIANT StockIsDocumented
CHECK_DEADLOCK FALSE
