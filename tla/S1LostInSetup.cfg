\* The MME may shut the association down before it answers.
CONSTANTS
    NofAssociations = 2
    MmeCapacity = 4
    GtpuCapacity = 2
    Threads <- StackThreads
    Queues <- StackQueues
    Capacity <- MCCapacity
    Task <- StackTask
    Associations <- MCAssociations
    MmeFails = {"leaves"}
    Failing = {1}
    Overload = FALSE
SPECIFICATION StackSpec
CHECK_DEADLOCK FALSE
PROPERTIES Reconnects
