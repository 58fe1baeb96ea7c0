SPECIFICATION FairSpec
CONSTANTS
    Reporter = Reporter
    Report = Report
    Release = Release
    SendErr = SendErr
    Handler = {Reporter, Report, Release, SendErr}
    Cap = 2
    MaxMoves = 4
    Button <- MCButton
    JitterDelay = 1
INVARIANTS
    DebounceIsArmed
    StatusIsLevel
    ReportIsPending
    RestIsReported
    DeadTimeIsKept
PROPERTIES
    ReportsAlternate
    PirComesBack
