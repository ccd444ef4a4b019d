SPECIFICATION Spec
CONSTANTS
    Conns = {c1}
    Enabled = {"ftp", "smb"}
    SensorRow = FALSE
    Faults = FALSE
    MaxChannels = 0
    MaxLog = 3
INVARIANTS SessionFlushed
CHECK_DEADLOCK FALSE
