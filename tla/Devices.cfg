SPECIFICATION FairSpec
CONSTANTS
    Message <- MCMessage
    MaxRequests <- MCMaxRequests
    Handler = {"error", "bell"}
    SendErr = "error"
    ReleaseBell = "bell"
    Cap = 1
    Sample = {500, 795, 900}
    MaxUpsets = 2
    Blocks = 2
    Step = 120
    MaxExport = 300
    MinExport = 180
    NumFirst = TRUE
INVARIANTS WidthsAreAsked
PROPERTIES AnswersAreTrue BellIsReleased FanSettles
