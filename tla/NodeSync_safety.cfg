SPECIFICATION Spec
CONSTANTS
    None = None
    Users = {u1, u2}
    Limits = {l1, l2}
    Ports = {p1, p2}
    Keys = {k1}
    Auxes = {a1}
    Cycles = {c1}
    Lazy = FALSE
    Keyless = {}
    Faults = {"api", "unregistered", "dead", "skip", "die", "probe"}
    MaxFaults = 2
    MaxChanges = 2
    userReconcileEvery = 2
SYMMETRY Symmetry
INVARIANT LimiterMirrorsUserList
INVARIANT RegisteredIsAccounted
INVARIANT OnlyListedUsersServed
INVARIANT OpenListenerServesInfo
PROPERTY NoMassKick
CHECK_DEADLOCK FALSE
