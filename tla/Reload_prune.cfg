SPECIFICATION Spec
CONSTANTS
    Nodes = {n1, n2}
    Faults = {"users"}
    MaxFaults = 1
    MaxEdits = 1
SYMMETRY Symmetry
INVARIANT LinkHasLimiter
CHECK_DEADLOCK FALSE
