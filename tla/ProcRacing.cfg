SPECIFICATION FairSpec
CONSTANTS
  p1 = p1
  p2 = p2
  w1 = w1
  w2 = w2
  Workers = {w1, w2}
  Products = {p1, p2}
  Inactive = {}
  Threshold <- MCThreshold
  InitStock <- MCInitStock
  Scale = 1
  Requests <- RacingCalls
  MaxRequests = 5
INVARIANTS
  TypeOK
  IInv
  ItemsAreJournaled
  ReturnedWithinSold
  AlertsFollowStock
PROPERTIES
  LedgerSpec
  CallsEnd
