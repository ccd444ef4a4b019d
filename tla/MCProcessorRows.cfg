SPECIFICATION Spec
CONSTANTS
    IPs = {pub, priv}
    PrivateIPs = {priv}
    Kinds = {"connect", "login"}
    Techniques = {"T1078"}
    Detections <- MCDetections
    Workers = {w1, w2}
    QueueSize = 1
    MonthsAhead = 2
    Faults = 0
    MaxMonth = 0
    MaxEvents = 2
INVARIANTS RowsPersisted
CHECK_DEADLOCK FALSE
