\* Two environments and eight pages: they can share pages, and one of them
\* alone can use all pages before the other is made.
SPECIFICATION Spec
CONSTANTS
    Env = {e1, e2}
    NPages = 8
    Page <- MCPage
    NoPage = 0
    Vpn <- MCVpn
    UserVa <- MCUserVa
    PPT = 2
    RefMod = 16
INVARIANT CountedAndReached
INVARIANT WindowShowsTables
PROPERTY OneEntryChanges
VIEW View
CHECK_DEADLOCK FALSE
