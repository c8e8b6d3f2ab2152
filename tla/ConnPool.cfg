SPECIFICATION Spec
CONSTANTS
    Conns = {c1, c2, c3}
    Addrs = {a1, a2}
    MaxConnCount = 2
    None = None
SYMMETRY Symmetry
INVARIANTS
    EntryIsServed
    ServedIsListed
CHECK_DEADLOCK FALSE
