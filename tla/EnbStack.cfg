CONSTANTS
    NofAssociations = 2
    MmeCapacity = 4
    GtpuCapacity = 2
    Threads <- StackThreads
    Queues <- StackQueues
    Capacity <- MCCapacity
    Task <- StackTask
    Associations <- MCAssociations
    MmeFails = {"refuses", "leaves", "breaks"}
    Failing = {1}
    Overload = FALSE
SPECIFICATION StackSpec
CHECK_DEADLOCK FALSE
INVARIANTS StackTypeOK ConnectedOnAnswer AssociationIsRead
PROPERTIES ConnectsAgain SocketServed EnbStopEnds
