SPECIFICATION Spec
CONSTANTS
    Bases = {}
    Dirs = {d1}
    PortBases = {0, 1}
    MaxNodes = 2
    MaxRuns = 2
    Abrupt = FALSE
INVARIANTS StateOfThisChain CleanExit
PROPERTY AnswersAreOurs
CHECK_DEADLOCK FALSE
