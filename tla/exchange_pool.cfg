SPECIFICATION Spec
CHECK_DEADLOCK FALSE
SYMMETRY CallSymmetry
CONSTANTS
    Calls = {c1, c2}
    N = 2
    Servers <- SomeServers
    Strategies = {"strict", "robin", "via", "solve", "all"}
    Timeout = 2
    Overrides = {0, 1}
    Deadlines = {3}
    MaxSamples = 2
INVARIANTS
    NoneMeansAllFailed
    FirstAnswerWins
    RaceNotHeldUp
    LadderLearns
