SPECIFICATION FairSpec
CONSTANTS
    l1 = l1
    l2 = l2
    Light = {l1, l2}
    Time <- MCTime
INVARIANTS
    OffIsDark
PROPERTIES
    ShowsWhatIsAsked
