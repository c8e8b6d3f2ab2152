SPECIFICATION Spec
CONSTANTS
    Conns = {c1}
    MaxResets = 0
PROPERTIES
    AssociationIsHeld
CHECK_DEADLOCK FALSE
