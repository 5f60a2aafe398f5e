SPECIFICATION Spec
CONSTANTS
  c1 = c1
  c2 = c2
  w1 = w1
  w2 = w2
  Workers = {w1}
  Customers = {c1, c2}
  InitLimit <- MCInitLimit
  Requests <- SerialRequests
  MaxRequests = 5
INVARIANTS
  PaymentsAddUp
  StatusFollowsBalance
  VoidedOwesNothing
PROPERTIES
  DebtWithinLimit
