SPECIFICATION TelemetryFairSpec
CONSTANTS
    ChunkSize = 2
    BufferLen = 1
    MaxBytes = 4
    MaxRecorders = 2
    Modulus = 8
INVARIANTS
    TelemetryTypeOK
    SentAccounted
    BytesAccounted
    NeverOverreports
PROPERTIES
    StopClosedEndsPump
CHECK_DEADLOCK FALSE
