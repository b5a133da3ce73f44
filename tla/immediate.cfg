SPECIFICATION Spec
CONSTANTS
    Sources = {a, b}
    Threads = {t1, t2}
    None = None
    MaxVersion = 1
    MaxPauses = 1
    MaxDepth = 3
INVARIANTS
    UpToDate
    KeptByLatest
SYMMETRY Symmetry
