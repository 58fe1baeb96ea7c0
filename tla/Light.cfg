SPECIFICATION LightFairSpec
CONSTANTS
    DLim = 100
    NLim = 32
    MaxSam = 1023
    Unit = 11
    Sample <- MCSample
    Start = 60
    Sensitive <- MCSensitive
    BreakLimit = 100
    BreakTimes = 5
    Steps = 5
    MaxChanges = 2
PROPERTIES RecognisesTheLight ChangesWithTheLight ExtremesAreSilent
