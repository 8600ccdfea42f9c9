CONSTANTS
    Null = Null
    Threads = {t1, t2, t3}
    Capacity = 3
    MaxPush = 7
    Spare = 0
SPECIFICATION Spec
INVARIANT
    TakenOnce
SYMMETRY ThreadSymmetry
