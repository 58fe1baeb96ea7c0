SPECIFICATION FairSpec
CONSTANTS
    Process = {p1, p2}
    p1 = p1
    p2 = p2
    Cap = 2
    Shutdown = 2
    DLim = 100
    NLim = 32
    MaxSam = 1023
    Unit = 11
    Value <- MCValue
    Code = {"main", "sub"}
    Nap = 3
    MaxCuts = 2
    MaxRequests = 3
INVARIANTS FilterIsWhereAsked CoilsAreNotOpposed AutoAgrees ErrorsArePending
PROPERTY MotorRests
