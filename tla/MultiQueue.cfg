CONSTANTS
    phy = phy
    sock = sock
    stack = stack
    main = main
    Threads <- MCThreads
    Consumer = stack
    Resetters <- MCResetters
    NofQueues = 2
    Capacity <- MCCapacity
    Targets <- MCTargets
    Task = {x, y}
SPECIFICATION MultiQueueSpec
INVARIANTS WaitersCounted NoLostWakeUp ConsumerNotified ClearedAlone
PROPERTIES KeepsPromise
