SPECIFICATION Spec
CONSTANTS
  p1 = p1
  p2 = p2
  p3 = p3
  w1 = w1
  w2 = w2
  Workers = {w1}
  Products = {p1}
  Services = {}
  Threshold <- MCThreshold
  InitStock <- MCInitStock
  Trigger = FALSE
  Scale = 1
  Requests <- TwoLines
  MaxRequests = 2
INVARIANTS
  LowStockIsAlerted
