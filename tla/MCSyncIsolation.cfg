\* Two connections with a resource each and a relation: interleaved tasks, purges
\* and cursors.
SPECIFICATION Spec
CONSTANTS
    c1 = c1
    c2 = c2
    r1 = r1
    r2 = r2
    e1 = e1
    None = None
    Connections = {c1, c2}
    Resources = {r1, r2}
    Relations = {e1}
    Scopes = {s1}
    Modes = {"full"}
    Contents = {x}
    Cursors = {k}
    Owner <- TwoOwners
    Source <- EdgeSource
    Target <- EdgeSource
    MaxRuns = 3
INVARIANTS
    NoOrphans
    CommitFresh
    CursorIsLastCommitted
PROPERTIES
    ClosedRunsSettled
    ImplementsAtomic
