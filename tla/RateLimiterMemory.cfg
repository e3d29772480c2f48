SPECIFICATION Spec
CONSTANTS
    None = None
    limited = limited
    free = free
    Keys = {limited, free}
    Requests = {r1, r2}
    Workers = 2
    Configs <- MCConfigs
    WindowSecs = 1
    SecTicks = 2
    RpmLimits = {1, 2}
    MaxTime = 4
    MaxHandled = 4
SYMMETRY Symmetry
CHECK_DEADLOCK FALSE
PROPERTY OnlyWindowKept
