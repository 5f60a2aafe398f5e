SPECIFICATION Spec
CONSTANTS
  p1 = p1
  p2 = p2
  w1 = w1
  w2 = w2
  Workers = {w1, w2}
  Products = {p1, p2}
  Inactive = {p2}
  Threshold <- MCThreshold
  InitStock <- MCInitStock
  Scale = 1
  Requests <- UnknownLine
  MaxRequests = 1
PROPERTIES
  SaleHasEveryLine
