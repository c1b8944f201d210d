\* Two connections with a flag each, no manual sync and no faults: progress.
SPECIFICATION FairSpec
CONSTANTS
    Connections = {1, 2}
    TypeOf <- OneEach
    Interval <- OneStep
    Commands = {"create", "purge", "sleep", "quit"}
    Faults = {}
    MaxPending = 1
    None = None
INVARIANTS
    NoResurrection
PROPERTIES
    CommandsFinish
    EveryConnectionSynced
CHECK_DEADLOCK FALSE
