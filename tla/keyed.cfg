SPECIFICATION Spec
CONSTANTS
    Keys = {k1, k2, k3, k4, k5}
    MaxUpdates = 2
SYMMETRY Symmetry
PROPERTIES
    ShowsItsItems
    EditsKeepOrder
