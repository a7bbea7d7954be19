SPECIFICATION Spec
CONSTANTS
    s1 = s1
    s2 = s2
    w1 = w1
    w2 = w2
    Streams = {s1, s2}
    Kind <- Http
    Capacity = 2
    Workers = {w1, w2}
    Poller = poller
    Acceptor = acceptor
    None = None
    JobKinds = {"call"}
    MayShutdown = FALSE
    MaxSent = 1
    MaxCalls = 1
    MaxPending = 2
SYMMETRY FullSymmetry
INVARIANT EventDataAlive
CHECK_DEADLOCK FALSE
