CONSTANTS
    p1 = p1
    p2 = p2
    c1 = c1
    c2 = c2
    none = none
    Paths = {p1}
    Clients = {c1}
    Size <- MCSizeOne
    Offsets = {1}
    NoRange = none
    Uncacheable = {}
    NProviders = 2
    PollLimit = 2
    Word = 4
SPECIFICATION Spec
INVARIANT RecvTimeoutAnswered
CHECK_DEADLOCK FALSE
