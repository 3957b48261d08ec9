SPECIFICATION FairSpec
CONSTANTS
    main = main
    child1 = child1
    child2 = child2
    Tasks <- AllTasks
    Main = main
    Values = {v1, v2}
    Empty = Empty
    Capacity = 2
INVARIANTS WindowExact NoStrandedWaiter
PROPERTIES FifoSpec CloseReleases
