SPECIFICATION Spec
CONSTANTS
    Threads = {g1, g2, g3, g4}
    Conns = {c1, c2, c3, c4}
    NoThread = NoThread
    NoConn = NoConn
    MaxActive = 3
    MaxIdle = 2
    Wait = FALSE
    IdleTimeout = 1
    MaxConnLifetime = 1
    TestOnBorrow = FALSE
SYMMETRY Symmetry
INVARIANTS
    WithinMaxActive
    IdleNewestFirst
