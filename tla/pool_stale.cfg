SPECIFICATION Spec
CONSTANTS
    Threads = {g1, g2, g3}
    Conns = {c1, c2, c3}
    NoThread = NoThread
    NoConn = NoConn
    MaxActive = 2
    MaxIdle = 1
    Wait = FALSE
    IdleTimeout = 1
    MaxConnLifetime = 0
    TestOnBorrow = FALSE
PROPERTIES
    NoStaleBorrow
