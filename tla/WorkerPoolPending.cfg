CONSTANTS
    Main = main
    Workers = {w1, w2}
    MaxPush = 3
    DrainedWait = FALSE
    None = None
SPECIFICATION Spec
INVARIANT
    PendingTasksFinished
