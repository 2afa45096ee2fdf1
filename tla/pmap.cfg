\* Two environments and fifteen pages: enough for two trees that share pages,
\* too few for all the tables they may ask for.
SPECIFICATION Spec
CONSTANTS
    Env = {e1, e2}
    NPages = 15
    Page <- MCPage
    NoPage = 0
    Vpn <- MCVpn
    UserVa <- MCUserVa
    WindowVa <- MCWindow
    PPT = 1
    UXSTACK <- MCStack
    RefMod = 16
INVARIANT RefCountsPointers
INVARIANT FreeIsUnused
INVARIANT NoLeak
INVARIANT TablesArePrivate
INVARIANT WindowShowsTables
VIEW View
CHECK_DEADLOCK FALSE
