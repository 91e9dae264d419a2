SPECIFICATION FairSpec
CONSTANTS
    MaxAttempts = 3
INVARIANTS
    TypeOK
    OnePump
PROPERTIES
    ImplementsAudioSource
    RecordingResumes
    ShutdownEnds
CHECK_DEADLOCK FALSE
