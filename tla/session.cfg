SPECIFICATION FairSpec
CONSTANTS
    UserCommands = {"GET", "WATCH", "UNWATCH", "MULTI", "EXEC", "DISCARD", "SUBSCRIBE", "PSUBSCRIBE", "UNSUBSCRIBE", "MONITOR"}
    MaxInFlight = 2
INVARIANTS
    TypeOK
    PendingMatchesReplies
    IdleConnIsQuiet
    IdleConnHasNoMode
    NoVainWait
PROPERTIES
    CallsReturn
