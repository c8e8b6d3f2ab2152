SPECIFICATION Spec
CONSTANTS
    p1 = p1
    p2 = p2
    h1 = h1
    h2 = h2
    Peers = {p1, p2}
    Hosts = {h1, h2}
    Sockets = {s1, s2}
    None = None
    MaxResets = 1
CONSTRAINT OwnHost
INVARIANTS
    FirstDatagramSuitsServer
PROPERTIES
    ImplementsService
    ResetReturns
    StopEndsLoop
CHECK_DEADLOCK FALSE
