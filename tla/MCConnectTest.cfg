SPECIFICATION CommandSpec
CONSTANTS
    Requests <- NoRequests
    Modes <- OneMode
    Stocked <- AllModules
    Faults <- LiveFaults
    MaxFaults = 1
    MaxItems = 2
    PageCap = 2
    RecordCap = 3
    DomainCap = 2
    WalkCap = 2
    RequestBudget = 4
    MaxSyncs = 1
INVARIANT RightEntryTested
CHECK_DEADLOCK FALSE
