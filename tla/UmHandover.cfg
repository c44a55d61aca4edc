\* A handover while PDUs are held back.
CONSTANTS
    UM_MOD = 6
    UM_WINDOW = 3
    SduLen = 2
    QueueLen = 2
    maximum_pdcp_sn = 1
    Grants <- MCGrants
    MaxSdus = 4
    PduCap = 2
    MaxLost = 1
    Faults <- MCAnyFault
    MaxReestablish = 1
    ReestablishAnyTime = TRUE
SPECIFICATION Spec
PROPERTY SnsReset
CHECK_DEADLOCK FALSE
