\* A manual synchronisation against a purge.
SPECIFICATION Spec
CONSTANTS
    Connections = {1}
    TypeOf <- AllGitHub
    Interval <- OneStep
    Commands = {"manual", "purge"}
    Faults = {}
    MaxPending = 1
    None = None
INVARIANTS
    NoResurrection
