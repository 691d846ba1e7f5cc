SPECIFICATION Spec
CONSTANTS
    d1 = d1
    d2 = d2
    c1 = c1
    Daemons <- OneDaemon
    Conns <- OneConn
    None = None
    MaxSyncs = 1
CHECK_DEADLOCK FALSE
INVARIANTS WaitAfterCancel
