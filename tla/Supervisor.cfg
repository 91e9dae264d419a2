SPECIFICATION FairSpec
CONSTANTS
    MaxStarts = 3
INVARIANTS
    TypeOK
    CrashNotLost
PROPERTIES
    ImplementsSoloistLife
    SingleInstance
    CrashRestarts
    SessionRestored
    ShutdownCompletes
CHECK_DEADLOCK FALSE
