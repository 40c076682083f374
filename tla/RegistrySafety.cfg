SPECIFICATION FairSpec
CONSTANTS
    Hosts = {h1}
    Ports = {1, 2}
    Posts = {1, 2}
    Deletes = {3, 4}
    Clients = {c1}
    MaxListeners = 2
INVARIANTS ListedIsLive OkMeansClosed
PROPERTY NoOrphanSocket
CHECK_DEADLOCK FALSE
