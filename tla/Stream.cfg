SPECIFICATION FairSpec
CONSTANTS
    Requests = {r1, r2}
    None = None
    MaxRecorders = 1
    BufferLen = 2
    Batch = 1
INVARIANTS
    TypeOK
    OnlyNewestLives
    LiveEdge
PROPERTIES
    SupersededStreamEnds
    NewStreamStarts
    ImplementsPlaybackSlot
CHECK_DEADLOCK FALSE
