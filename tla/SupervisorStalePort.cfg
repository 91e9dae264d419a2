SPECIFICATION FairSpec
CONSTANTS
    MaxStarts = 3
PROPERTY
    SessionOpens
CHECK_DEADLOCK FALSE
