SPECIFICATION Spec
CONSTANTS
    Objects = {s, i}
    Movers = {s}
    Workers = {main, render}
    Main = main
    null = null
    MaxActive = 2
    MaxEvents = 2
INVARIANTS TypeOK CrowExact NoneDangling UpdatedInTime DelegateOnce NoDefault
PROPERTIES WaitServed
