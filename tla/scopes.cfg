SPECIFICATION Spec
CONSTANTS
    Owners = {o1, o2}
    Root = o1
    Subs = {s1, s2}
    Futures = {f1, f2}
    None = None
    MaxDepth = 3
INVARIANTS ScopesNest ReadsAttributed
