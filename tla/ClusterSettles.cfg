SPECIFICATION FairSpec
CONSTANTS
    Bases = {b1}
    Dirs = {d1}
    PortBases = {0}
    MaxNodes = 1
    MaxRuns = 2
    Abrupt = TRUE
INVARIANTS OneRunPerDir StatusIsLive
PROPERTIES PidIsHolders AnswersAreOurs Settles
CHECK_DEADLOCK FALSE
