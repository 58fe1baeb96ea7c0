SPECIFICATION FairSpec
CONSTANTS
    NoFile = NoFile
    File = {f1, f2, f3}
    Cap = 3
    UidSpace = 4
    CountFirst = TRUE
    MaxOpens = 3
    MaxMsg = 1
INVARIANTS
    NoLostWakeup
    ListIsOfTheOpen
    ClosedHaveNoReports
PROPERTIES
    ReaderReturns
CHECK_DEADLOCK FALSE
