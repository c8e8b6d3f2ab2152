CONSTANTS
    MaxTime = 2
    Addrs = {a1}
    Dialable = {}
    Conns = {c1}
    Writers = {w1}
    None = None
SPECIFICATION LiveSpec
PROPERTIES ExtendedDeadlineCounts
CHECK_DEADLOCK FALSE
