CONSTANTS
    Objects = {a, b, c}
    MaxTick = 1
    MaxPeriod = 1
    MaxLate = 2
    MaxQueue = 3
    MaxItems = 3
    EraseInLoop = FALSE
    null = null
SPECIFICATION Spec
SYMMETRY ObjectSymmetry
INVARIANTS
    SchedulerInv
    RegistryAgrees
    NotLate
PROPERTIES
    NoUpdateAfterUnregister
    UpdatedOncePerFrame
