SPECIFICATION FairSpec
CONSTANTS
    HeaderSize = 2
    Capacity = 4
    AllowedInvalid = 1
    MaxSent = 7
INVARIANTS TypeOK
PROPERTIES ImplementsLines
CHECK_DEADLOCK FALSE
