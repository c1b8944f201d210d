\* No fault and no power-off: everything that begins ends.
SPECIFICATION FairSpec
CONSTANTS
    p1 = p1
    p2 = p2
    b1 = b1
    b2 = b2
    Procs = {p1, p2}
    Bridges = {b1, b2}
    Commands = {"interactive", "bridge", "tray"}
    Faults = {}
    None = None
PROPERTIES
    QuitEnds
    BridgeAnswered
