CONSTANTS
    Objects = {a, b, c}
    MaxTick = 1
    MaxPeriod = 1
    MaxLate = 2
    MaxQueue = 3
    MaxItems = 2
    EraseInLoop = TRUE
    null = null
SPECIFICATION Spec
PROPERTIES
    UpdatedOncePerFrame
