SPECIFICATION FairSpec
CONSTANTS
    IPs = {pub}
    PrivateIPs = {}
    Kinds = {"connect", "login"}
    Techniques = {"T1078"}
    Detections <- MCDetections
    Workers = {w1, w2}
    QueueSize = 1
    MonthsAhead = 0
    Faults = 1
    MaxMonth = 0
    MaxEvents = 2
INVARIANTS TypeOK OneFailureCostsOneRow TotalsMatch
PROPERTIES EventHandled ShutdownCompletes
CHECK_DEADLOCK FALSE
