CONSTANTS
    Threads = {t1, t2}
    MaxQueueSize = 2
    Capacity <- MCCapacity
    MaxPush = 3
SPECIFICATION FairSpec
PROPERTIES
    ShutdownReleases
