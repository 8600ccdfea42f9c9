CONSTANTS
    Objects = {a, b, c}
    MaxTick = 1
    MaxPeriod = 1
    MaxLate = 2
    MaxQueue = 2
    MaxItems = 3
    EraseInLoop = FALSE
    null = null
SPECIFICATION Spec
PROPERTIES
    NoStarvation
