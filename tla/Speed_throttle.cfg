SPECIFICATION MCSpec
CONSTANTS
    None = None
    Users = {u1}
    Conns = {c1}
    Ips = {ip1, ip2}
    MaxLimit = 1
    MaxAlive = 1
    MaxUpdates = 1
    Speeds = {0, 2, 3}
    NodeLimit = 0
    LimitSpeed = 1
    LimitDuration = 1
    WarnTimes = 2
    MaxTime = 2
    MaxChanges = 0
CHECK_DEADLOCK FALSE
INVARIANT ThrottleInForce
