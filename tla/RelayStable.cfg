SPECIFICATION FairSpec
CONSTANTS
    Peers = {p1, p2}
    Cuttable = {p1}
    MaxSessions = 2
    LegCap = 2
    NodeUpFirst = TRUE
    MaxGen = 2
PROPERTIES StableSource RepliesPickedUp CutLinkDrains
CHECK_DEADLOCK FALSE
