SPECIFICATION Spec
CONSTANTS
    MaxLives = 1
INVARIANTS
    UnpairedReported
CHECK_DEADLOCK FALSE
