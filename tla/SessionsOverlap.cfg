SPECIFICATION Spec
CONSTANTS
    NumFds = 2
    NumClients = 2
    MaxAccepts = 3
    MaxQueue = 2
    WrapFd = 0
    Overlap = TRUE
INVARIANT AcceptedWatched
CHECK_DEADLOCK FALSE
