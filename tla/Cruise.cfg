SPECIFICATION FairSpec
CONSTANTS
    Phases = 2
    Full = 2
    LimitSteps = 3
    StepsPerFull = 2
    Loitor = 1
    Width = 65536
    Way <- MCWay
    Point = {1, 2}
    Stay = {1}
    Home <- MCHome
    Dead <- MCDead
    PathLen = 3
    Config <- MCConfig
    MaxMoves = 2
    MaxCruise = 4
    MaxTimer = 3
INVARIANTS
    BusyIsDriven
    PositionIsTrue
    ReturnsToStart
    CruiseStaysOnPath
PROPERTIES
    CruiseArrives
    ComesToRest
CHECK_DEADLOCK FALSE
