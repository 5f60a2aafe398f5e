SPECIFICATION ListSpec
CONSTANT
    MaxPage = 2
    MaxEntries = 2
INVARIANTS
    TablesAdmitWrites
    FiltersKeepRows
PROPERTY
    WritesAreShown
CHECK_DEADLOCK FALSE
