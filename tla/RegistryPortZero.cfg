SPECIFICATION Spec
CONSTANTS
    Hosts = {h1}
    Ports = {1, 2}
    Posts = {1, 2}
    Deletes = {3, 4}
    Clients = {}
    MaxListeners = 2
INVARIANT PortZeroClosesAll
CHECK_DEADLOCK FALSE
