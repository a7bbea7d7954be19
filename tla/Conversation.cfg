SPECIFICATION FairSpec
CONSTANTS
    c1 = c1
    c2 = c2
    r1 = r1
    r2 = r2
    k1 = k1
    k2 = k2
    f = f
    Calls = {c1, c2}
    Discards = {}
    Requests = {r1, r2}
    Bad = {r2}
    Leftover = Leftover
    Conns = {k1, k2, f}
    Foreign = {f}
    Window = 2
    MaxHandlers = 2
    MaxErrors = 1
    NoId = NoId
    NoConn = NoConn
CONSTRAINT OneSide
INVARIANT TypeOK
 
 
 
 
PROPERTY Promised
 
PROPERTY ReturnsToIdle
CHECK_DEADLOCK FALSE
