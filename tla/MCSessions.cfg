SPECIFICATION FairSpec
CONSTANTS
    Conns = {c1}
    Enabled = {"ssh", "ftp", "mysql", "redis", "smb", "http"}
    SensorRow = TRUE
    Faults = TRUE
    MaxChannels = 1
    MaxLog = 4
INVARIANTS TypeOK NoSessionLeft SessionOrder RecordAgrees
PROPERTIES PublishedWhileTracked ServeReturns BoundedStay
CHECK_DEADLOCK FALSE
