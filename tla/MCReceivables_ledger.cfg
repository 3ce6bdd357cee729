SPECIFICATION Spec
CONSTANTS
  i1 = i1  i2 = i2  p1 = p1  p2 = p2  p3 = p3  p4 = p4
  None = None  Retailer = Retailer
  Invoices = {i1, i2}
  Payments = {p1, p2, p3, p4}
  For <- PaidFor
  ToAccount = {p3}
  Requests = {r1, r2}
  OnAccount = {i1, i2}
  Total <- Totals
  Issued <- IssuedInTurn
  Amount <- Amounts
  Slips <- Lists
  MaxItems = 2
  MaxReversals = 1
SYMMETRY Symmetry
INVARIANTS LedgerIsDocumented PaymentsSeePayments PaidByItsPayments PaidWasGiven
CHECK_DEADLOCK FALSE
