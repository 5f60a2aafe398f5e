SPECIFICATION Spec
CONSTANTS
  p1 = p1
  p2 = p2
  p3 = p3
  w1 = w1
  w2 = w2
  Workers = {w1}
  Products = {p1, p2, p3}
  Services = {p3}
  Threshold <- MCThreshold
  InitStock <- MCInitStock
  Trigger = TRUE
  Scale = 1
  Requests <- SerialRequests
  MaxRequests = 5
INVARIANTS
  LowStockIsAlerted
  ReturnsAddUp
  ReturnsRestoreStock
  VoidsRestoreOnce
PROPERTIES
  LedgerSpec
  NoReturnOnVoided
