SPECIFICATION Spec
CONSTANTS
    Requests = {r1, r2}
    None = None
    MaxRecorders = 1
    BufferLen = 1
    Batch = 1
SYMMETRY RequestSymmetry
INVARIANTS
    LastPlayIsCurrent
CHECK_DEADLOCK FALSE
