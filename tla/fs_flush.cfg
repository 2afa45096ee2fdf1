SPECIFICATION Spec
CONSTANTS
    NBLOCK = 9
    BY2BLK = 2
    FILE2BLK = 2
    NDIRECT = 1
    NINDIRECT = 3
    Long = {"long"}
    MaxPages = 8
    Hosts <- MCHosts
    OpenPath <- MCOpen
    RemovePath = {}
    DebugPath <- MCDebug
    NewSize = {3}
    Offset = {0, 2}
    TwinPath <- MCTwin
    MaxReq = 5
INVARIANT FlushedIsOnDisk
CHECK_DEADLOCK FALSE
