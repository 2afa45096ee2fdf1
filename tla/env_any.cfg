CONSTANTS
    NENV = 3
    NASID = 3
    GenMod = 4
    Pri = {1}
    MaxGen = 3
    QHead = QHead
    Null = Null
SPECIFICATION Spec
CHECK_DEADLOCK FALSE
INVARIANTS SlotsAndAsids IdNamesEnv
PROPERTIES OnlyParentStops
