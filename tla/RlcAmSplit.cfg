\* SDUs sent in parts and cut again; PDUs and STATUS PDUs lost.
CONSTANTS
    MOD = 8
    RLC_AM_WINDOW_SIZE = 4
    SduLen = 2
    QueueLen = 2
    PollPdu = 1
    PollPeriod = 2
    MaxRetx = 1
    SegHdr = 2
    RetxCap = 1
    MaxSdus = 3
    Grants <- MCGrants34
    Rooms <- MCRooms2
    PduCap = 1
    StatusCap = 1
    Faults <- MCLoss
SPECIFICATION Spec
INVARIANTS TxWindowContiguous
PROPERTIES ServiceSpec
CHECK_DEADLOCK FALSE
