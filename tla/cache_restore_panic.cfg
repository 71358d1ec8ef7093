SPECIFICATION PlainSpec
CONSTANTS
    Keys <- TwoKeys
    Hashes = {1, 2, 3}
    HashOf <- OneHash
    Lists = {1}
    Answers <- PlainAnswers
    Denials <- NoDenials
    Caps = {}
    StaleModes = {0, 2000}
    Floors = {}
    Ceilings = {}
    TypeSets <- NoTypeSets
    Switches = {}
    ConfigCap = 2
    FallbackTtl = 2
    DefaultCeiling = 5
    NegCeiling = 2
    DefaultNegTtl = 1
    U64Max = 2000
    InstantMax = 1000
    SnapRows = 2
    MaxTime = 3
    MaxSeq = 3
INVARIANT RestoreNeverPanics
