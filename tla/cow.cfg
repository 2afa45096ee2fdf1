\* Every layout of two segments is loaded; one program runs, forks and spawns.
SPECIFICATION Spec
CONSTANTS
    Env = {e1, e2, e3}
    Root = e1
    PAGE_SIZE = 2
    Image = {0, 1}
    StackVpn = 3
    LibVpn = 2
    Programs <- MCAll
    RunPrograms <- MCRun
    StoreAddr = {0, 2, 4, 6, 7}
    NPage = 16
    MaxNew = 2
    MaxStore = 2
INVARIANT SharedReadOnly
PROPERTY ImplementsCopies
PROPERTY StoresComplete
CHECK_DEADLOCK FALSE
