SPECIFICATION Spec
CONSTANTS
    Callers = {g1, g2, g3}
    PerRequest = 2
    LastTick = 4
INVARIANTS
    TypeOK
    NoSlotWasted
PROPERTIES
    Spaced
    NotEarly
CHECK_DEADLOCK FALSE
