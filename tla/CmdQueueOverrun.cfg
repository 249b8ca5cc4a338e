SPECIFICATION Spec
CONSTANTS
    QueueSize = 4
    MaxCommands = 11
INVARIANT OnlyFullQueueDrops
