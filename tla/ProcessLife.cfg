SPECIFICATION RunSpec
CONSTANTS
    e1 = e1
    e2 = e2
    e3 = e3
    d1 = d1
    Events <- ThreeEvents
    Daemons <- OneDaemon
    Closer = Closer
    None = None
    MaxFaults = 2
    RequestTimeout = 5
    InitializeTimeout = 20
CHECK_DEADLOCK FALSE
INVARIANTS TypeOK LinesWhole StartTypeOK NoSubprocessLeft
PROPERTIES CloseWaitsForLog NewReturns LogReturns
