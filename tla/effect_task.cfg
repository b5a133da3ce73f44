SPECIFICATION Spec
CONSTANTS
    Sources = {a, b}
    Triggers = {b}
    Writers = {w1, w2}
    Nobody = Nobody
    MaxVersion = 2
    MaxPauses = 1
INVARIANTS
    AtRestUpToDate
    NeverAsleepOnFlag
PROPERTIES
    WritesAreSeen
    SignalResumesEffect
    DisposeEndsTask
CHECK_DEADLOCK FALSE
