\* No data PDU is lost, STATUS PDUs are.
CONSTANTS
    MOD = 4
    RLC_AM_WINDOW_SIZE = 2
    SduLen = 1
    QueueLen = 2
    PollPdu = 0
    PollPeriod = 2
    MaxRetx = 1
    SegHdr = 1
    RetxCap = 2
    MaxSdus = 3
    Grants <- MCGrants12
    Rooms <- MCRooms2
    PduCap = 2
    StatusCap = 1
    Faults <- MCLostStatus
SPECIFICATION FairSpec
PROPERTIES EverythingDelivered
CHECK_DEADLOCK FALSE
