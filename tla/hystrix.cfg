SPECIFICATION Spec
CONSTANTS
    Commands = {c1, c2}
    MaxConcurrent = 1
    SleepWindow = 1
    VolumeThreshold = 1
    ErrorPercent = 50
    MaxUpdates = 1
    MaxRecorded = 1
    Shadowed = FALSE
SYMMETRY Symmetry
INVARIANTS
    TypeOK
    TicketOnce
    OneCircuit
    AnsweredWhenOver
PROPERTIES
    SingleTest
