SPECIFICATION Spec
CONSTANTS
    c1 = c1
    c2 = c2
    n1 = n1
    k1 = k1
    k2 = k2
    Calls <- OneCall
    Notifiers <- NoNotifier
    Closers <- OneCloser
    Reader = Reader
    None = None
    PipeCap = 3
    StdoutCap = 2
    MaxUnsolicited = 0
INVARIANTS ReaderNeverPanics
