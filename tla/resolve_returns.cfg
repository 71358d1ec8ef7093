SPECIFICATION Spec
CHECK_DEADLOCK FALSE
CONSTANTS
    Threads = {"t1", "t2"}
    Names = {"six"}
    LocalNames = {}
    SixNames = {"six"}
    LiteralNames = {}
    Catches <- SixCaught
    InitGates = {}
    LiveSwitches = {"v6Withheld", "dns64"}
    Transports = {"doh"}
    PoolOf <- OneDirect
    IsUdp <- DohOnly
    RelayOf <- DohRelay
    Kinds = {"public", "nodata"}
    MaxQueries = 2
    MaxConfig = 1
PROPERTY EveryQueryReturns
