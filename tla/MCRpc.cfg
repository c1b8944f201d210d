\* Two bridges, two queries each, a limit of one, every fault.
SPECIFICATION FairSpec
CONSTANTS
    c1 = c1
    c2 = c2
    None = None
    Clients = {c1, c2}
    Queries = {1, 2}
    Compatible = {c1}
    Supported = {1, 2}
    Limit = 1
    Faults = {"accept", "clone", "oversized", "panic"}
INVARIANTS
    StopClosesAll
    PermitsExact
    AnswersAreOwn
    ReplyComing
PROPERTIES
    StopReturns
    SessionsEnd
CHECK_DEADLOCK FALSE
