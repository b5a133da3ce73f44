SPECIFICATION Spec
CONSTANTS
    Owners = {root, a}
    Fns = {f}
    Items = {n, m}
    Threads = {t1}
    None = None
    Root = root
    Pausable = {root}
    MaxDepth = 2
INVARIANTS
    NothingLeft
    CleanupOrder
    ItemsOwned
SYMMETRY Symmetry
CHECK_DEADLOCK FALSE
