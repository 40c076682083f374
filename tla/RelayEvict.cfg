SPECIFICATION Spec
CONSTANTS
    Peers = {p1, p2}
    Cuttable = {}
    MaxSessions = 1
    LegCap = 2
    NodeUpFirst = FALSE
    MaxGen = 2
SYMMETRY PeerSymmetry
INVARIANTS TableBounded NoDetachedWorker ForwardWorkerOutlivesSession
CHECK_DEADLOCK FALSE
