CONSTANTS
    Sector = {s1, s2}
    Data = {d1, d2}
    QUEUE_SIZE = 2
    IdxMod = 8
    MaxCalls = 5
    MayErr = TRUE
    NoSector = NoSector
    NoData = NoData
SPECIFICATION FairSpec
CHECK_DEADLOCK FALSE
INVARIANTS Handshake CompletedCall OneOwner PanicOnlyOnError
PROPERTIES CallsReturn
