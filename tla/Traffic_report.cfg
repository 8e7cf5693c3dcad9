SPECIFICATION TrafficSpec
CONSTANTS
    NoCounter = NoCounter
    Users = {u1}
    Conns = {c1}
    MaxBytes = 2
    MinTraffic = 0
    MaxDeletes = 0
    MaxRebuilds = 0
    MaxLostReports = 1
PROPERTY FailedReportIsRetried
CHECK_DEADLOCK FALSE
