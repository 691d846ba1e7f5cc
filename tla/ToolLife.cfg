SPECIFICATION FairSpec
CONSTANTS
    o1 = o1
    l1 = l1
    f1 = f1
    Outlines <- OneOutline
    Lookups <- OneLookup
    Files <- OneFile
    None = None
    MaxEdits = 1
    MaxSyncs = 1
    StreamCap = 2
INVARIANTS TypeOK OpenedOnce AskedAfterOpen PositionsFit
PROPERTIES CallsFinish KeepsPromise
