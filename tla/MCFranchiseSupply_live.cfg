SPECIFICATION FairSpec
CONSTANTS
  o1 = o1  o2 = o2  s1 = s1  v1 = v1  v2 = v2  None = None
  Orders = {o1}
  StoreOf <- OneStore
  Quantity <- OneEach
  Stores = {s1}
  Branches = {b1}
  MayClose = {}
  Invoices = {}
  OrderOf <- OfTheFirst
  Here = {}
  Actors = {a1, a2}
  Requests = {r1, r2}
  Opening = 1
PROPERTIES RequestedIsReceived
CHECK_DEADLOCK FALSE
