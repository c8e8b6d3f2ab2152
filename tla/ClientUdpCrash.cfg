SPECIFICATION Spec
CONSTANTS
    Peers = {p1}
    Hosts = {h1}
    Sockets = {s1, s2}
    None = None
    MaxResets = 0
INVARIANTS
    NeverCrashes
CHECK_DEADLOCK FALSE
