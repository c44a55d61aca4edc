\* Two UEs with the same paging subframe, room for one record in a message.
CONSTANTS
    NofWorkers = 2
    TtiMod = 10
    Ue <- MCUe2
    PagingCycle = 1
    PagingNb = 1
    ASN1_RRC_MAX_PAGE_REC = 1
    Carrier <- MCTwoCarriers
    NofSi = 1
    Period <- MCPeriod1
    SiWindow = 10
    Collisions = FALSE
SPECIFICATION FairSpec
INVARIANTS PagedAtOpportunity PageKept
PROPERTIES FirstIsPaged StopEnds
