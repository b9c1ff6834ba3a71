CONSTANTS
    p1 = p1
    p2 = p2
    c1 = c1
    c2 = c2
    none = none
    Paths = {p1, p2}
    Clients = {c1}
    Size <- MCSize
    Offsets = {1}
    NoRange = none
    Uncacheable = {p2}
    NProviders = 2
    PollLimit = 2
    Word = 4
SPECIFICATION Spec
INVARIANT ReplyFaithful
INVARIANT ReplyInv
CHECK_DEADLOCK FALSE
