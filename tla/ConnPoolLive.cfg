SPECIFICATION Spec
CONSTANTS
    Conns = {c1, c2}
    Addrs = {a1, a2}
    MaxConnCount = 1
    None = None
PROPERTIES
    RoomIsMade
    StopDrains
CHECK_DEADLOCK FALSE
