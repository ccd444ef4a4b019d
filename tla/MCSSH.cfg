SPECIFICATION FairSpec
CONSTANTS
    Channels = {c1, c2}
    Cap = 1
    ShellLines <- MCLines
    Requests <- MCRequests
    Saving = "failing"
    MaxPackets = 6
INVARIANTS TypeOK ReplayIsWhole CdAgrees
PROPERTIES LeaveNoticed
CHECK_DEADLOCK FALSE
