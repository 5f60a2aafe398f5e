SPECIFICATION Spec
CONSTANTS
    Rows = {r1, r2}
    New = New
    MaxOpenings = 2
    MaxPosts = 2
    MaxEdits = 1
INVARIANTS
    OneWritePerOpening
    SentToItsRow
PROPERTY
    KeepsOthersEdits
SYMMETRY RowSymmetry
CHECK_DEADLOCK FALSE
