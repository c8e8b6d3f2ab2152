SPECIFICATION Spec
CONSTANTS
    Conns = {c1, c2}
    MaxResets = 2
INVARIANTS
    CipherNotNewerThanServer
PROPERTIES
    ResetReturns
    SetupEnds
CHECK_DEADLOCK FALSE
