SPECIFICATION Spec
CONSTANTS
    UserCommands = {"GET", "WATCH", "MULTI", "EXEC"}
    MaxInFlight = 2
INVARIANTS
    IdleConnWatchesNothing
