CONSTANTS
    NENV = 3
    NASID = 3
    GenMod = 5
    Pri = {1, 2}
    MaxGen = 4
    MayFail = FALSE
    QHead = QHead
    Null = Null
SPECIFICATION FairLibSpec
CHECK_DEADLOCK FALSE
INVARIANTS NobodyLost
PROPERTIES EveryoneRuns ImplementsRoundRobin
