\* Two files, a process and its child, a table of two open files: the table
\* is full, slots are used again while their last holders close.
SPECIFICATION Spec
CONSTANTS
    Client = {c1, c2}
    Root = c1
    File = {"long", "empty"}
    Initially <- Sizes
    NSlot = 2
    MAXFD = 3
    MaxSize = 2
    NBlock = 2
    MemFails = TRUE
    MaxCall = 4
INVARIANT HeldSlotIsBound
INVARIANT WindowIsFile
PROPERTY RequestIsAnswered
CHECK_DEADLOCK FALSE
