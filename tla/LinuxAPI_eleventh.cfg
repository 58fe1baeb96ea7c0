SPECIFICATION Spec
CONSTANTS
    NoFile = NoFile
    File = {f1, f2, f3}
    Cap = 2
    UidSpace = 5
    CountFirst = TRUE
    MaxOpens = 4
    MaxMsg = 1
SYMMETRY Files
INVARIANTS
    ListFits
CHECK_DEADLOCK FALSE
