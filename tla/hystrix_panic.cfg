SPECIFICATION Spec
CONSTANTS
    Commands = {c1}
    MaxConcurrent = 1
    SleepWindow = 1
    VolumeThreshold = 1
    ErrorPercent = 50
    MaxUpdates = 1
    MaxRecorded = 1
    Shadowed = TRUE
INVARIANTS
    NoPanic
