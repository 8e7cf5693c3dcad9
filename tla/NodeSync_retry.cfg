SPECIFICATION FairSpec
CONSTANTS
    None = None
    Users = {u1, u2}
    Limits = {l1}
    Ports = {p1}
    Keys = {k1, k2}
    Auxes = {a1}
    Cycles = {c1}
    Lazy = FALSE
    Keyless = {}
    Faults = {"unregistered"}
    MaxFaults = 1
    MaxChanges = 1
    userReconcileEvery = 2
PROPERTY FailedRebuildRetried
CHECK_DEADLOCK FALSE
