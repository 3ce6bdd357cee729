SPECIFICATION Spec
CONSTANTS
  o1 = o1  o2 = o2  s1 = s1  v1 = v1  v2 = v2  None = None
  Orders = {o1, o2}
  StoreOf <- OneStore
  Quantity <- OneEach
  Stores = {s1}
  Branches = {b1, b2}
  MayClose = {b1, b2}
  Invoices = {v1, v2}
  OrderOf <- OfTheFirst
  Here = {v1, v2}
  Actors = {a1}
  Requests = {r1, r2}
  Opening = 1
SYMMETRY Symmetry
INVARIANTS SupplyAddsUp DispatchedWasDeducted HistoryIsThePath SupplyFollowsSales
PROPERTY StoreKeepsItsBranch
CHECK_DEADLOCK FALSE
