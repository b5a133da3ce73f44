SPECIFICATION Spec
CONSTANTS
    Calls = {c1, c2, c3}
    None = None
    Threads = 1
INVARIANTS
    InFlightCounts
    InputShowsPending
PROPERTIES
    NewestWins
    NewestCommits
    CallsSettle
CHECK_DEADLOCK FALSE
