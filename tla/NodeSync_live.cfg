SPECIFICATION FairSpec
CONSTANTS
    None = None
    Users = {u1, u2}
    Limits = {l1}
    Ports = {p1}
    Keys = {k1, k2}
    Auxes = {a1, a2}
    Cycles = {c1}
    Lazy = FALSE
    Keyless = {}
    Faults = {"api", "dead", "die", "probe"}
    MaxFaults = 2
    MaxChanges = 2
    userReconcileEvery = 2
PROPERTY Converges
CHECK_DEADLOCK FALSE
