\* Two-byte SDUs over segments and concatenations, every fault of the MAC.
CONSTANTS
    UM_MOD = 6
    UM_WINDOW = 3
    SduLen = 2
    QueueLen = 2
    maximum_pdcp_sn = 1
    Grants <- MCGrants
    MaxSdus = 4
    PduCap = 2
    MaxLost = 1
    Faults <- MCAnyFault
    MaxReestablish = 1
    ReestablishAnyTime = FALSE
SPECIFICATION Spec
INVARIANTS TypeOK UmWindowInv HeldIsWaitedFor CountInSync OnlyTheLostIsLost
PROPERTIES ServiceSpec
CHECK_DEADLOCK FALSE
