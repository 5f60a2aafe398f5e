SPECIFICATION Spec
CONSTANTS
    s1 = s1
    s2 = s2
    i1 = i1
    i2 = i2
    NoSale = NoSale
    Sales = {s1, s2}
    Items = {i1, i2}
    SaleItem <- MCSaleItem
    Paid <- MCPaid
    MaxOpenings = 2
    MaxElsewhere = 1
INVARIANTS
    SelectionFitsSale
    ReturnedWithinSold
    OneReturnPerOpening
CHECK_DEADLOCK FALSE
