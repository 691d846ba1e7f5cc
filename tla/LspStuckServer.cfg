SPECIFICATION FairSpec
CONSTANTS
    c1 = c1
    c2 = c2
    n1 = n1
    k1 = k1
    k2 = k2
    Calls <- TwoCalls
    Notifiers <- NoNotifier
    Closers <- NoCloser
    Reader = Reader
    None = None
    PipeCap = 3
    StdoutCap = 2
    MaxUnsolicited = 0
PROPERTIES CallsReturn
