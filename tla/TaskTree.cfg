CONSTANTS
    Main = main
    Workers = {w1}
    RingSize = 2
    MaxTasks = 4
    Quiesced = TRUE
    None = None
SPECIFICATION Spec
INVARIANTS
    TreeInv
    WaitCoversSubtree
PROPERTIES
    AllTasksFinish
