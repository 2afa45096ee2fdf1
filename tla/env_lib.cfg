CONSTANTS
    NENV = 3
    NASID = 4
    GenMod = 4
    Pri = {2}
    MaxGen = 3
    MayFail = TRUE
    QHead = QHead
    Null = Null
SPECIFICATION LibSpec
CHECK_DEADLOCK FALSE
INVARIANTS IInv SchedListIsRunnable RunningIsFirst PanicOnlyWhenIdle
PROPERTIES YieldGivesWay
