SPECIFICATION FairSpec
CONSTANTS
    QueueSize = 4
    MaxCommands = 11
INVARIANTS TypeOK Lossless
PROPERTIES ImplementsChannel InOrder EveryCommandDelivered
