\* Two host processes, two bridges, everything that can happen.
SPECIFICATION Spec
CONSTANTS
    p1 = p1
    p2 = p2
    b1 = b1
    b2 = b2
    Procs = {p1, p2}
    Bridges = {b1, b2}
    Commands = {"interactive", "login", "bridge", "tray", "exit", "terminate", "poweroff"}
    Faults = {"crash", "kill", "start", "marker", "sync", "checkpoint"}
    None = None
SYMMETRY Symmetry
INVARIANTS
    TypeOK
    NoRevival
PROPERTIES
    CalledOffClean
