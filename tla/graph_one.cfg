SPECIFICATION Spec
CONSTANTS
    Signals = {"a", "flag"}
    Memos = {"half", "name", "both"}
    Effects = {"view"}
    Immediates = {"sum"}
    Threads = {t1}
    Values = {0, 1, 2}
    None = None
    Done = Done
    NextRead <- MixedRead
    Result <- MixedResult
    Batching = TRUE
    MaxSets = 2
INVARIANTS
    ReadsAreFresh
    EffectsUpToDate
    ImmediatesUpToDate
    NoNeedlessRun
