SPECIFICATION Spec
CONSTANTS
    Paths = {p1, p2}
    Regenerated = {p1}
    Requests = {r1}
    Tasks = {t1, t2}
    Capacity = 1
    Generations = 2
    ReopenAttempts = 2
    FileId <- SharedId
    None = None
    MaxRenders = 5
    MaxFaults = 1
SYMMETRY Symmetry
INVARIANTS
    BodyWithItsHeaders
    OnDiskIsKept
    HeadersUnlessOutrun
    OneLoopPerPath
    WaitersHaveABuilder
CHECK_DEADLOCK FALSE
