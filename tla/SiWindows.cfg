\* Two SI messages besides SIB1, whose windows follow one another; no room in some TTIs.
CONSTANTS
    NofWorkers = 2
    TtiMod = 20
    Ue <- MCUe1
    PagingCycle = 1
    PagingNb = 1
    ASN1_RRC_MAX_PAGE_REC = 1
    Carrier <- MCOneCarrier
    NofSi = 3
    Period <- MCPeriod3
    SiWindow = 10
    Collisions = TRUE
SPECIFICATION Spec
INVARIANTS SiInWindow StopDrains
PROPERTIES TransmitInSequence
