CONSTANTS
    Main = main
    Workers = {w1}
    RingSize = 2
    MaxTasks = 4
    Quiesced = FALSE
    None = None
SPECIFICATION Spec
INVARIANT
    JobsNotNegative
