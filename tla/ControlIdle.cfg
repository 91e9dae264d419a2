SPECIFICATION FairSpec
CONSTANTS
    MaxEvents = 1
    MaxLines = 1
    MaxSubs = 2
    MaxConns = 1
    None = None
PROPERTIES
    SilentResubscribes
CHECK_DEADLOCK FALSE
