SPECIFICATION Spec
CONSTANTS
  p1 = p1  l1 = l1  l2 = l2
  None = None  NoOrder = NoOrder
  Lots = {l1, l2}
  StockStates = {"AVAILABLE", "DAMAGED"}
  Opening <- TwoLotOpening
  PurchaseOrders = {po1}
  ReceiptKeys = {k1, k2}
  Products = {p1}
  ProductOf <- TwoLots
  Conversion <- Pairs
  MaxOrdered = 2
  Adjustments = {a1}
  Reports = {d1}
  Counts = {}
  Requests = {r1, r2}
  MaxCorrection = 1
SYMMETRY Symmetry
INVARIANTS PostedWasApproved PostedIsBooked ReceiptsWithinOrder
CHECK_DEADLOCK FALSE
