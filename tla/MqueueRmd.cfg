SPECIFICATION RmdSpec
CONSTANTS
    NoUser = NoUser
    User = {u1, u2, u3, u4}
    MaxUser = 3
    RingSize = 11
    Threshold = 4
    Sizes = {1, 2}
    Followed = {}
SYMMETRY Users
INVARIANTS
    RepliesInOrder
    NoReplyOverwritten
CHECK_DEADLOCK FALSE
