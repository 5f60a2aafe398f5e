SPECIFICATION Spec
CONSTANTS
  c1 = c1
  c2 = c2
  w1 = w1
  w2 = w2
  Workers = {w1, w2}
  Customers = {c1}
  InitLimit <- MCInitLimit
  Requests <- RacingRequests
  MaxRequests = 4
INVARIANTS
  BooksBalance
  NoDebtForgiven
  IInv
