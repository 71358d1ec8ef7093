SPECIFICATION Spec
CONSTANTS
    Calls = {c1}
    N = 2
    Servers <- OneDead
    Strategies = {"robin"}
    Timeout = 3
    Overrides = {0}
    Deadlines = {3}
    MaxSamples = 1
INVARIANTS DeadNeverStrands
CHECK_DEADLOCK FALSE
