CONSTANTS
    MaxTime = 1
    Addrs = {a1, a2}
    Dialable = {a1}
    Conns = {c1, c2}
    Writers = {w1}
    None = None
SPECIFICATION LiveSpec
INVARIANTS
    TableMatchesReaders
    NoConnLeaks
PROPERTIES
    GoroutinesEnd
    
CHECK_DEADLOCK FALSE
