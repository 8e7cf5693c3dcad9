SPECIFICATION ConnectionsSpec
CONSTANTS
    None = None
    Users = {u1}
    Conns = {m1, m2}
    Ips = {i1, i2}
    MaxLimit = 1
    MaxAlive = 1
    MaxUpdates = 1
    Speeds = {0, 2, 3}
    NodeLimit = 0
    LimitSpeed = 1
    LimitDuration = 1
    WarnTimes = 2
    MaxTime = 2
    MaxChanges = 2
    Nothing = Nothing
    Runners = {m1, m2}
    Clients = {v1, v2}
    Keyless = {v2}
    Callers = {i1, i2}
    Sessions = {k1}
    Protocols = {"mieru", "sudoku", "snell4", "snell6", "ssaead", "ssr", "trojanss"}
    MaxCalls = 5
    MaxFaults = 1
    Links = {m1, m2}
    MaxEngines = 2
    Profiles = {"narrow", "wide"}
    MinRecordPayload <- MCMinRecord
    MaxRecordPayload <- MCMaxRecord
    FirstProfile = "narrow"
    PanelConfigs <- MCConfigs
    DefaultMin = 1
    DefaultMax = 2
    BufSize = 2
    WriteSizes = {4}
SYMMETRY Symmetry
VIEW View
INVARIANT OnlineIsJustified
INVARIANT NoSpuriousReject
INVARIANT HeldWithinLimit
INVARIANT OrphanIsLate
INVARIANT EngineFollowsConfig
INVARIANT RecordsCarryTheWrite
PROPERTY IdentifiedIsKnown
PROPERTY ImplementsLazyListener
CHECK_DEADLOCK FALSE
