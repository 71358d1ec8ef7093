SPECIFICATION SwitchSpec
CONSTANTS
    STOP_COUNTER_DELAY = 1
    PENDING_START_GRACE = 1
    Requests = {"on", "off", "revoke"}
    MaxCommands = 2
    PortBusy = {FALSE}
    Starts = {"plain"}
    Leftovers <- FreshOrKilled
PROPERTIES
    TunnelGetsPool
    
