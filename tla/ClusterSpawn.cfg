SPECIFICATION Spec
CONSTANTS
    Bases = {b1, b2}
    Dirs = {d1}
    PortBases = {0}
    MaxNodes = 2
    MaxRuns = 1
    Abrupt = TRUE
INVARIANT KillsAllOnExit
CHECK_DEADLOCK FALSE
