SPECIFICATION FairSpec
CONSTANTS
    MaxAttempts = 3
INVARIANTS
    TypeOK
    HealthTracksReady
PROPERTIES
    ImplementsAudioDaemon
    OneDaemon
    LossNoticed
    ShutdownEnds
CHECK_DEADLOCK FALSE
