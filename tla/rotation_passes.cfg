SPECIFICATION RotationSpec
CONSTANTS
    Sets = {"a", "b", "m"}
    FALLBACK_MIN_SAMPLE = 2
    FALLBACK_TRIP_RATE = 50
    FALLBACK_RECOVER_SAMPLE = 1
    COOLDOWN = 0
    MaxQueries = 0
    InitialConfigs <- NamesFirst
    RustChoices = {TRUE}
    Slots = {s1, s2}
    Operators <- MCOperators
    Lead <- MCLead
    Mute = {"m"}
    Order <- MCOrder
    MaxCommits = 2
SYMMETRY SlotSymmetry
INVARIANTS
    VerifiedAnswered
    MuteRolledBack
    IndexCountsCommits

    
CHECK_DEADLOCK FALSE
