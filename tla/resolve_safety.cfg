SPECIFICATION Spec
CHECK_DEADLOCK FALSE
SYMMETRY ThreadSymmetry
CONSTANTS
    Threads = {t1, t2}
    Names = {"nas", "site", "lookalike", "garbled"}
    LocalNames = {"nas"}
    SixNames = {}
    LiteralNames = {"lookalike"}
    Catches <- SomeCatches
    InitGates = {"blocklist"}
    LiveSwitches = {"rebind", "blocklist"}
    Transports = {"doh", "crypt"}
    PoolOf <- TwoPools
    IsUdp <- Udp
    RelayOf <- Relay
    Kinds = {"private", "nxdomain", "invalid", "servfail"}
    MaxQueries = 2
    MaxConfig = 2
INVARIANTS
    PrivateOnlyIfOvertaken
    
    CountedOnce
    RowTrueUnlessCrossed
