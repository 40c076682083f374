SPECIFICATION FairSpec
CONSTANTS
    Absent = Absent
    Bad = Bad
    Refused = Refused
    PixBuilt = FALSE
    Boots <- MCBoots
    Metrics <- MCMetrics
INVARIANTS
    EffectiveSettings
    PixStanzaUnreachable
    MetricsAlwaysServed
    OrderlyExit
PROPERTIES
    TermTearsDown
    TermEnds
CHECK_DEADLOCK FALSE
