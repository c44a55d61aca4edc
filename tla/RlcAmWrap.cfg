\* One-byte SDUs, more of them than there are sequence numbers; every fault.
CONSTANTS
    MOD = 4
    RLC_AM_WINDOW_SIZE = 2
    SduLen = 1
    QueueLen = 1
    PollPdu = 0
    PollPeriod = 2
    MaxRetx = 1
    SegHdr = 1
    RetxCap = 2
    MaxSdus = 5
    Grants <- MCGrants12
    Rooms <- MCRooms01
    PduCap = 2
    StatusCap = 1
    Faults <- MCAnyFault
SPECIFICATION Spec
INVARIANTS TypeOK RxWindowInv ReorderingInv NothingForgotten WindowsAgree
PROPERTIES ServiceSpec VrMsNeverBack
CHECK_DEADLOCK FALSE
