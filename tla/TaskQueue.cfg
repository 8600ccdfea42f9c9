CONSTANTS
    Null = Null
    Threads = {t1, t2, t3}
    Capacity = 3
    MaxPush = 7
    Spare = 1
SPECIFICATION Spec
INVARIANTS
    QueueInv
    TakenOnce
    NoTaskLost
PROPERTIES
    NoOverwrite
    ImplementsFifo
SYMMETRY ThreadSymmetry
