SPECIFICATION FairSpec
CONSTANTS
    NumFds = 2
    NumClients = 2
    MaxAccepts = 2
    MaxQueue = 2
    WrapFd = 2
    Overlap = FALSE
INVARIANTS TypeOK OpenWatched ConnKnown HandlersFindConnection
PROPERTIES LossNoticed ExitEnds
CHECK_DEADLOCK FALSE
