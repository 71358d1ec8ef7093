SPECIFICATION ProgressSpec
CONSTANTS
    Queries = {"q1", "q2"}
    Caps = {1}
    Deadlines = {1, 2}
    MaxWait = 1
    Concurrent = TRUE
    Sets = {"a"}
    FALLBACK_MIN_SAMPLE = 1
    FALLBACK_TRIP_RATE = 50
    FALLBACK_RECOVER_SAMPLE = 1
    COOLDOWN = 1
    MaxQueries = 2
    InitialConfigs <- TwoConfigs
    RustChoices = {TRUE, FALSE}
INVARIANTS
    InflightIsHolders
    ReleasedUnlessCrossed
    FallbackNotStomped
PROPERTIES
    OverWindowOnlyIfWaited
    EveryQueryAdmitted
    RustGetsAnotherChance
