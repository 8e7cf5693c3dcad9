SPECIFICATION FairSpec
CONSTANTS
    None = None
    Users = {u1, u2, u3}
    Limits = {l1}
    Ports = {p1, p2}
    Keys = {k1}
    Auxes = {a1}
    Cycles = {c1}
    Lazy = TRUE
    Keyless = {u3}
    Faults = {"api", "listen", "die", "probe"}
    MaxFaults = 2
    MaxChanges = 2
    userReconcileEvery = 2
INVARIANT BoundRunnerHasUsers
PROPERTY Converges
CHECK_DEADLOCK FALSE
