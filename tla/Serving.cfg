SPECIFICATION ServingSpec
CONSTANTS
    Chunks = 3
    Sniffers = {"tls", "bittorrent"}
    Nameless = {"bittorrent"}
    SniffBudget = 1
    MaxUnits = 2
    IdleTimeout = 2
    OneWayTimeout = 1
    Tags = {t1, t2}
    ShadowTLS = {t1}
    Ports = {p1, p2}
    Adders = {a1, a2}
    Instances = {o1, o2, o3}
    NoOne = NoOne
    MaxFrontCalls = 3
    MaxExits = 1
    NoCounter = NoCounter
    Users = {u1}
    Conns = {c1, c2}
    MaxBytes = 2
    MinTraffic = 1
    MaxDeletes = 1
    MaxRebuilds = 1
    MaxLostReports = 1
    RetryCount = 3
    AttemptTimeout = 1
    CallTimeout = 3
    MaxVersion = 2
INVARIANT StreamIntact
INVARIANT RelayedInOrder
INVARIANT FrontReachesItsInbound
INVARIANT NeverOverBilled
PROPERTY LinkSettles
PROPERTY OnlyIdleIsCut
PROPERTY SessionReleased
PROPERTY FrontSettles
PROPERTY CountedIsBilled
PROPERTY OrphansPruned
PROPERTY OnlyCurrentAnswersApply
PROPERTY CycleReturns
CHECK_DEADLOCK FALSE
