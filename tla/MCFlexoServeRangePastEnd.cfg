CONSTANTS
    p1 = p1
    p2 = p2
    c1 = c1
    c2 = c2
    none = none
    Paths = {p1}
    Clients = {c1}
    Size <- MCSizeOne
    Offsets = {3}
    NoRange = none
    Uncacheable = {}
    NProviders = 1
    PollLimit = 2
    Word = 8
SPECIFICATION Spec
INVARIANT ReplyFaithful
CHECK_DEADLOCK FALSE
