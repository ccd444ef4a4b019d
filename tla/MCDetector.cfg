SPECIFICATION Spec
CONSTANTS
    IPs = {a}
    Services = {"ssh", "smb"}
    Kinds = {"connect", "login", "scan"}
    Commands = {}
    Workers = {w1, w2}
    BruteForceThreshold = 2
    BruteForceWindow = 2
    ScanThreshold = 2
    ScanWindow = 1
    Skew = 1
    MaxQueue = 1
    MaxEvents = 4
    MaxTime = 4
SYMMETRY Symmetry
INVARIANTS TypeOK AlarmSound BurstCaught ScanCaught ExactInOrder
CHECK_DEADLOCK FALSE
