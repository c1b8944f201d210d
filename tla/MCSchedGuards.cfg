\* Two connections of one connector, every command and every fault.
SPECIFICATION Spec
CONSTANTS
    Connections = {1, 2}
    TypeOf <- AllGitHub
    Interval <- OneStep
    Commands = {"create", "manual", "purge", "sleep", "quit"}
    Faults = {"store", "context", "panic", "restart"}
    MaxPending = 1
    None = None
INVARIANTS
    SingleFlight
    FlagHeld
    ScheduledHasRow
PROPERTIES
    StopStartsNothing
CHECK_DEADLOCK FALSE
