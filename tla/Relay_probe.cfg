SPECIFICATION RelaySpec
CONSTANTS
    MaxUnits = 2
    IdleTimeout = 2
    OneWayTimeout = 1
INVARIANT ProbeSeesOnlyTheSite
CHECK_DEADLOCK FALSE
