SPECIFICATION StartSpec
CONSTANTS
    RequestTimeout = 5
    InitializeTimeout = 20
CHECK_DEADLOCK FALSE
INVARIANTS InitializeGetsItsTime
