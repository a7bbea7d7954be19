SPECIFICATION FairSpec
CONSTANTS
    s1 = s1
    s2 = s2
    w1 = w1
    w2 = w2
    Streams = {s1, s2}
    Kind <- EventBroker
    Capacity = 2
    Workers = {w1}
    Poller = poller
    Acceptor = acceptor
    None = None
    JobKinds = {"call"}
    MayShutdown = FALSE
    MaxSent = 2
    MaxCalls = 1
    MaxPending = 2
PROPERTY Delivered
