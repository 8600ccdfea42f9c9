SPECIFICATION Spec
CONSTANTS
    a = a
    i1 = i1
    i2 = i2
    j1 = j1
    Blocks <- MCBlocks
    MaxAge = 2
    NoID = NoID
    Zero = a
    Pointers = {o1, o2, o3, o4}
    null = null
    MaxEntities = 3
    MaxRequests = 2
INVARIANTS TypeOK TreeConsistent IdsConserved Replica MapExact AttachedLive OfflineIsGone EventsFindItem
PROPERTIES ImplementsMirror FreshIds StaleObjectsGo
