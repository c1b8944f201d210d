CONSTANTS
    c1 = c1
    c2 = c2
    driver = driver
    x = x
    y = y
    z = z
    b1 = b1
    b2 = b2
    rule = rule
    Connections = {c1, c2}
    Scheduled = {c1}
    Conns = {c1, c2}
    Driver = driver
    MaxClock = 1
    Resources = {1, 2, 3}
    Owner <- MCOwner
    Links = {1, 2, 3}
    LinkEnds <- MCLinkEnds
    Interval <- MCInterval
    PageLimit = 1
    DetailLimit = 1
    MaxConnections = 1
    MaxNow = 2
    MaxWrites = 2
    Nodes = {1, 2, 3, 4}
    Focus = 1
    LinkIds = {1, 2, 3}
    Depths = {2, 3}
    NodeLimits = {2, 4}
    EdgeLimits = {2, 3}
    Things = {x, y, z}
    KeptBy <- MCKeptBy
    Pairs <- MCPairs
    BindingIds = {b1, b2}
    Rules = {rule}
    Proposals <- MCProposals
    MaxCandidates = 2
    MaxMoment = 2
SPECIFICATION QueriesSpec
INVARIANTS ContextCurrent Paging TopologyExact RelationsFollow VersionsMatch
PROPERTY DueShown
CHECK_DEADLOCK FALSE
