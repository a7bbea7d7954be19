CONSTANTS
    Threads = {t1, t2, t3}
    MaxQueueSize = 2
    Capacity <- MCCapacity
    MaxPush = 3
SPECIFICATION Spec
SYMMETRY ThreadSymmetry
INVARIANTS
    TypeOK
    ExclusiveSlot
    Fifo
    Conservation
PROPERTIES
    ImplementsFifo
    NoFalseRefusal
