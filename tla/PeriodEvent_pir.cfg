SPECIFICATION FairSpec
CONSTANTS
    NoHandler = NoHandler
    jitters = jitters
    reporter = reporter
    sampling = sampling
    report = report
    release = release
    light = light
    Cap = 2
    MaxPeriod = 2
    Handler <- PirHandlers
    Home <- PirHome
    OneShot <- PirOneShot
    Follow <- PirFollow
    TaskUse <- PirTaskUse
    IrqUse <- PirIrqUse
PROPERTIES
    EventsFire
CHECK_DEADLOCK FALSE
