SPECIFICATION FairSpec
CONSTANTS
    QueueCap = 2
    MinDelay = 1
    MaxDelay = 2
    StallDelay = 1
    MaxInstant = 100
    MaxDatagrams = 3
    MaxTime = 6
INVARIANTS TypeOK BuffersBounded NeverEarly ReorderOnlyInWindow
PROPERTIES LinkSpec EventuallyLeaves
CHECK_DEADLOCK FALSE
