SPECIFICATION Spec
CONSTANTS
    NoUser = NoUser
    User = {u1, u2, u3}
    MaxUser = 3
    RingSize = 14
    Threshold = 12
    Sizes = {1, 3}
    Followed = {}
SYMMETRY Users
INVARIANTS
    ReportsInOrder
    UnreadIsNotIdle
PROPERTIES
    OnlyLateAreEvicted
CHECK_DEADLOCK FALSE
