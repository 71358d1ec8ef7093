SPECIFICATION AppSpec
CONSTANTS
    triggerEnter = 7
    triggerExit = 4
    confirmSamples = 2
    dwell = 3
    cooldown = 2
    switchMargin = 15
    Signals = {3, 5, 9}
    Scores = {90, 100}
    MaxTime = 8
    MaxRun = 3
    Writers = {"w1"}
    Payloads <- ThreePayloads
    Blocks <- Lengths
    MaxBlocks = 3
    NoRecord = "none"
    MaxVersion = 2
    Size <- Shrinking
    MaxManagers = 2
    MaxServices = 2
    MaxScopes = 2
    MaxTuns = 2
    MaxCommands = 3
INVARIANTS
    TunServed
    ListGenuine
PROPERTIES
    CommitsSpaced
    ImplementsAtomicRecord
CHECK_DEADLOCK FALSE
