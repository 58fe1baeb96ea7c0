SPECIFICATION Spec
CONSTANTS
    NoHandler = NoHandler
    jitters = jitters
    reporter = reporter
    sampling = sampling
    report = report
    release = release
    light = light
    Cap = 2
    MaxPeriod = 2
    Handler <- ButtonHandlers
    Home <- ButtonHome
    OneShot <- ButtonOneShot
    Follow <- ButtonFollow
    TaskUse <- ButtonTaskUse
    IrqUse <- ButtonIrqUse
INVARIANTS
    CallIsSafe
    ArmedIsInTable
PROPERTIES
    TablesAreBags
CHECK_DEADLOCK FALSE
