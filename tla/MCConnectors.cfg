SPECIFICATION FairSpec
CONSTANTS
    Requests <- AllRequests
    Modes <- AllModes
    Stocked <- SomeModules
    Faults <- AllFaults
    MaxFaults = 2
    MaxItems = 3
    PageCap = 2
    RecordCap = 3
    DomainCap = 2
    WalkCap = 2
    RequestBudget = 4
    MaxSyncs = 2
INVARIANTS GapsKnown RequestsBounded DescriptorKept
PROPERTY Terminates
CHECK_DEADLOCK FALSE
