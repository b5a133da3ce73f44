SPECIFICATION Spec
CONSTANTS
    Writers = {w1, w2}
    Users = {}
    Awaiters = {a1}
    Readers = {r1}
    Handles = {h1, h2, h3}
    None = None
    Parallel = TRUE
    Guarded = FALSE
    Untracked = FALSE
    Feedback = TRUE
    Starts = {"signal", "signal, ready"}
    Disposing = FALSE
    MaxVersion = 3
    MaxWrites = 0
    MaxPauses = 0
INVARIANTS
    NobodyLeftAsleep
    SuspenseEmpties
