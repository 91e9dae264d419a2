SPECIFICATION FairSpec
CONSTANTS
    MaxEvents = 2
    MaxLines = 2
    MaxSubs = 2
    MaxConns = 2
    None = None
INVARIANTS
    TypeOK
    OneWriter
    EventOrder
PROPERTIES
    BrokenResubscribes
    ShutdownEnds
CHECK_DEADLOCK FALSE
