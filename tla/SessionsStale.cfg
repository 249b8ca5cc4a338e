SPECIFICATION Spec
CONSTANTS
    NumFds = 2
    NumClients = 2
    MaxAccepts = 3
    MaxQueue = 2
    WrapFd = 0
    Overlap = FALSE
INVARIANT ConnectionTested
CHECK_DEADLOCK FALSE
