SPECIFICATION FairSpec
CONSTANTS
    Proc = {p1, p2}
    Born = {{p1}, {p1, p2}}
    NSlot = 2
    BY2PIPE = 2
    MaxN = 2
    MaxBytes = 3
    MaxCalls = 3
CHECK_DEADLOCK FALSE
INVARIANTS TypeOK ClosedIsClosed Fifo InBuffer
PROPERTIES CallsReturn
