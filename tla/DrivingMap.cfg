SPECIFICATION FairSpec
CONSTANTS
    Width = 3
    Height = 3
    ChunkSize = 21
    MaxBreaks = 22
    Draws <- SomeRock
INVARIANTS TypeOK CoreFree BreaksBounded CoreHit
PROPERTIES ShotEnds
