SPECIFICATION FairSpec
CONSTANTS
    Users = {g1}
    Janitor = janitor
    Nobody = Nobody
    Keys = {k1, k2}
    NoKey = NoKey
    Objects = {o1, o2}
    NoObject = NoObject
    Lifetimes <- SomeLifetimes
    DefaultExpiration = 1
    LastTick = 2
INVARIANTS
    TypeOK
    EvictedOnce
PROPERTIES
    OnlyExpiredRemoved
    CallsReturn
    JanitorStops
    ExpiredGoes
CHECK_DEADLOCK FALSE
