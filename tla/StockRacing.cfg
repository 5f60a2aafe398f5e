SPECIFICATION Spec
CONSTANTS
  p1 = p1
  p2 = p2
  p3 = p3
  w1 = w1
  w2 = w2
  Workers = {w1, w2}
  Products = {p1}
  Services = {}
  Threshold <- MCThreshold
  InitStock <- MCInitStock
  Trigger = TRUE
  Scale = 1
  Requests <- RacingRequests
  MaxRequests = 4
INVARIANTS
  TypeOK
  LastMoveIsStock
  SoldStockIsJournaled
  ReturnedWithinSold
