SPECIFICATION FairSpec
CONSTANTS
    Channels = {c1}
    Cap = 1
    ShellLines <- MCLines
    Requests <- MCRequests
    Saving = "reliable"
    MaxPackets = 5
PROPERTIES LeaveEndsSession
CHECK_DEADLOCK FALSE
