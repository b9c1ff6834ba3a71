CONSTANTS
    p1 = p1
    p2 = p2
    c1 = c1
    c2 = c2
    none = none
    Paths = {p1}
    Clients = {c1, c2}
    Size <- MCSizeOne
    Offsets = {1}
    NoRange = none
    Uncacheable = {}
    NProviders = 1
    PollLimit = 2
    Word = 4
SPECIFICATION Spec
INVARIANT PollTimeoutAnswered
CHECK_DEADLOCK FALSE
