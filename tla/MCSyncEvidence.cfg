\* One connection, one resource with two contents, two scopes, two modes:
\* the absence evidence, the tombstones, the versions and the changes.
SPECIFICATION Spec
CONSTANTS
    c1 = c1
    c2 = c2
    r1 = r1
    r2 = r2
    e1 = e1
    None = None
    Connections = {c1}
    Resources = {r1}
    Relations = {}
    Scopes = {s1, s2}
    Modes = {"full", "incremental"}
    Contents = {x, y}
    Cursors = {}
    Owner <- OneOwner
    Source <- EdgeSource
    Target <- EdgeSource
    MaxRuns = 4
INVARIANTS
    EvidenceSound
    TombstoneSound
    AbsenceDetected
    HistoryMatches
    ChangeRecorded
