SPECIFICATION Spec
CONSTANTS
    Controllers = {c1, c2}
    Modes = {"live"}
    MaxOrders = 1
    Cancelling = FALSE
INVARIANT ReplayCountsFills
SYMMETRY Symmetry
CHECK_DEADLOCK FALSE
