SPECIFICATION DrainSpec
CONSTANTS
    c1 = c1
    c2 = c2
    n1 = n1
    k1 = k1
    k2 = k2
    Calls <- OneCall
    Notifiers <- OneNotifier
    Closers <- OneCloser
    Reader = Reader
    None = None
    PipeCap = 3
    StdoutCap = 2
    MaxUnsolicited = 1
INVARIANTS ClosedReleases
PROPERTIES FirstCauseKept KeepsPromise ClosesReturn
