SPECIFICATION FairSpec
CONSTANTS
    CwdPaths <- MCPaths
    Plain = {"QUIT"}
    Limit = 1
    MaxCommands = 4
    MaxData = 2
INVARIANTS TypeOK ListenersAsTold Answered CwdAgrees
PROPERTIES LeaveNoticed
CHECK_DEADLOCK FALSE
