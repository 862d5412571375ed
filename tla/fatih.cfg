SPECIFICATION FairSpec
CONSTANTS
    Threads = {g1, g2, g3}
    Conns = {c1, c2, c3, c4, c5}
    NoConn = NoConn
    InitialCap = 2
    MaxCap = 2
INVARIANTS
    TypeOK
    NoSocketLost
PROPERTIES
    ImplementsConnPool
    CloseReleasesAll
CHECK_DEADLOCK FALSE
