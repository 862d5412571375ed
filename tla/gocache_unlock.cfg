SPECIFICATION Spec
CONSTANTS
    Users = {g1, g2}
    Janitor = janitor
    Nobody = Nobody
    Keys = {k1}
    NoKey = NoKey
    Objects = {o1, o2}
    NoObject = NoObject
    Lifetimes <- SomeLifetimes
    DefaultExpiration = 1
    LastTick = 2
INVARIANTS
    LocksReleasedAsTaken
CHECK_DEADLOCK FALSE
