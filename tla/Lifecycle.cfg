SPECIFICATION LifecycleSpec
CONSTANTS
    Nodes = {n1, n2}
    Faults = {"fetch", "core", "panic", "users", "addNode", "addUsers"}
    MaxFaults = 2
    MaxEdits = 2
    x1 = x1
    x2 = x2
    Nobody = Nobody
    DnsKeys = {"token", "email"}
    TlsNodes <- MCTlsNodes
    Deployments <- MCDeployments
    None = None
    Slots = {s1, s2, s3}
    Closers = {k1, k2}
INVARIANT InboundHasLimiter
INVARIANT NoReloadWindow
INVARIANT PairIsWhole
INVARIANT ServesAsConfigured
INVARIANT IssuedWithOwnCredentials
PROPERTY AcceptedEditIsLoaded
PROPERTY CleanReloadServesFile
PROPERTY StartsReturn
PROPERTY LoopContinues
PROPERTY LoopExits
CHECK_DEADLOCK FALSE
