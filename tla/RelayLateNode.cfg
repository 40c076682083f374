SPECIFICATION FairSpec
CONSTANTS
    Peers = {p1}
    Cuttable = {}
    MaxSessions = 1
    LegCap = 1
    NodeUpFirst = FALSE
    MaxGen = 1
PROPERTIES RepliesPickedUp
CHECK_DEADLOCK FALSE
