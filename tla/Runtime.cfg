SPECIFICATION FairSpec
CONSTANTS
    g1 = g1
    g2 = g2
    w1 = w1
    w2 = w2
    Main = main
    Listener = listener
    Globals = {g1}
    Workers = {w1, w2}
    Capacity <- SmallQueues
    MaxReceive = 3
    MaxStream = 1
INVARIANT TypeOK
INVARIANT OrderlyEnd
PROPERTY StoppedForGood
 
CHECK_DEADLOCK FALSE
