SPECIFICATION FairSpec
CONSTANTS
    Requests = {r1}
    None = None
    MaxRecorders = 2
    BufferLen = 1
    Batch = 1
PROPERTIES
    StreamFollowsRecorder
CHECK_DEADLOCK FALSE
