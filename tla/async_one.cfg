SPECIFICATION FairSpec
CONSTANTS
    Writers = {w1}
    Users = {u1}
    Awaiters = {a1}
    Readers = {r1}
    Handles = {h1, h2}
    None = None
    Parallel = FALSE
    Guarded = FALSE
    Untracked = FALSE
    Feedback = FALSE
    Starts = {"signal", "signal, ready", "memo, ready"}
    Disposing = TRUE
    MaxVersion = 3
    MaxWrites = 1
    MaxPauses = 1
INVARIANTS
    UpToDate
    FallbackShown
PROPERTIES
    WritesStand
    AwaitersFinish
CHECK_DEADLOCK FALSE
