SPECIFICATION FairSpec
CONSTANTS
    MaxLives = 2
INVARIANTS
    TypeOK
    OnlyTestedRuns
    PairingEndsFirst
PROPERTIES
    PairedStartsSoloist
    ExpiredIsDeleted
    ShutdownEnds
CHECK_DEADLOCK FALSE
