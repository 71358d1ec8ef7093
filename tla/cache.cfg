SPECIFICATION CacheSpec
CONSTANTS
    Keys <- FourKeys
    Hashes = {1, 2, 3}
    HashOf <- FourHash
    Lists = {1, 2}
    Answers <- AllAnswers
    Denials <- BothDenials
    Caps = {0, 1, 3}
    StaleModes = {1}
    Floors = {3}
    Ceilings = {1}
    TypeSets = {{"A"}}
    Switches = {"rebind", "zero", "rr"}
    ConfigCap = 2
    FallbackTtl = 2
    DefaultCeiling = 5
    NegCeiling = 2
    DefaultNegTtl = 1
    U64Max = 2000
    InstantMax = 1000
    SnapRows = 2
    MaxTime = 4
    MaxSeq = 5
INVARIANTS
    RecencyIndexesMap
    WithinCap
    NeverAnotherName
    
    ServedUnderLiveList
    
PROPERTY RecentlyServedSurvives
