SPECIFICATION Spec
CONSTANTS
    None = None
    OtherNames <- ProjectNames
    Beginnings <- ProjectBeginnings
    Cwd <- ProjectCwd
    Target <- ProjectTarget
    Lines <- TwoLines
    Caps <- AllCaps
    DefaultMaxResults = 2
    MaxTyped = 4
    MaxSymbols = 3
    MaxItems = 3
INVARIANTS TypeOK NormalizeStable SpellingsAgree RoundTrips UrisAgree
           OutlineReadable NothingWithheld EventTellsResult
PROPERTIES ResolvesFirst
