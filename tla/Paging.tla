-------------------------------- MODULE Paging --------------------------------
(***************************************************************************)
(* Paging at the base station: add_paging_id, is_paging_opportunity and    *)
(* read_pdu_pcch of srsenb::rrc (srsenb/src/stack/rrc/rrc.cc).             *)
(*                                                                         *)
(* add_paging_id runs on the stack thread, the other two on PHY workers.   *)
(* paging_mutex guards the records and is taken to read the message that   *)
(* was assembled, not to write it: is_paging_opportunity is three steps,   *)
(* and what is read during the second is neither the old nor the new       *)
(* message.                                                                *)
(*                                                                         *)
(* A UE is its identity index, ueid in the code, of ten bits.  A message   *)
(* is the set of UEs in its paging record list; with one there is always   *)
(* etws_ind, which tells the UEs to read SIB10.                            *)
(***************************************************************************)
EXTENDS Integers, FiniteSets

CONSTANTS
    Ue,                     \* identity indices in use, of 0..1023
    PagingCycle,            \* T: default_paging_cycle, in frames
    PagingNb,               \* Nb: T times nB
    ASN1_RRC_MAX_PAGE_REC   \* 16

ASSUME PagingAssumption ==
    /\ Ue \subseteq 0..1023
    /\ PagingCycle \in Nat \ {0} /\ PagingNb \in Nat \ {0}
    /\ ASN1_RRC_MAX_PAGE_REC \in Nat \ {0}

VARIABLES
    pending_paging,     \* the UEs to page
    paging_tti,         \* the TTI byte_buf_paging was assembled for
    byte_buf_paging,    \* the message
    requested           \* UEs whose page is not sent yet

paging_vars == <<pending_paging, paging_tti, byte_buf_paging, requested>>

INVALID_TTI == -1
Torn == {-1}            \* a message that is being written

PagingInit ==
    /\ pending_paging = {} /\ requested = {}
    /\ paging_tti = INVALID_TTI
    /\ byte_buf_paging = {}

\* the page of a UE that has one already is dropped
AddPagingId(u) ==
    /\ u \notin pending_paging
    /\ pending_paging' = pending_paging \cup {u}
    /\ requested' = requested \cup {u}
    /\ UNCHANGED <<paging_tti, byte_buf_paging>>

------------------------------------------------------------------------------
(* The paging opportunities *)

PagingN == IF PagingCycle < PagingNb THEN PagingCycle ELSE PagingNb
PagingNs == IF PagingNb \div PagingCycle > 1 THEN PagingNb \div PagingCycle ELSE 1

SfPattern == << << 9,  4, -1, 0>>,
                <<-1,  9, -1, 4>>,
                <<-1, -1, -1, 5>>,
                <<-1, -1, -1, 9>> >>

PagingFrame(u) == (PagingCycle \div PagingN) * (u % PagingN)

PagingSf(u) ==
    LET i_s == (u \div PagingN) % PagingNs
    IN SfPattern[(i_s % 4) + 1][((PagingNs - 1) % 4) + 1]

IsOpportunity(u, tti) ==
    /\ (tti \div 10) % PagingCycle = PagingFrame(u)
    /\ PagingSf(u) = tti % 10

\* (faulty) the last records
CollectedLast(tti) ==
    {u \in pending_paging :
        /\ IsOpportunity(u, tti)
        /\ Cardinality({v \in pending_paging : v > u /\ IsOpportunity(v, tti)})
              < ASN1_RRC_MAX_PAGE_REC}

\* the first records, in the order of the map
Collected(tti) ==
    {u \in pending_paging :
        /\ IsOpportunity(u, tti)
        /\ Cardinality({v \in pending_paging : v < u /\ IsOpportunity(v, tti)})
              < ASN1_RRC_MAX_PAGE_REC}

\* (faulty) the records that found no room are removed with the others
RemovedAll(tti) == {u \in pending_paging : IsOpportunity(u, tti)}

\* ue_to_remove
Removed(tti) == Collected(tti)

------------------------------------------------------------------------------
(* is_paging_opportunity *)

\* the carriers after the first one send the same message
ExtraCarrier(tti) == tti = paging_tti /\ UNCHANGED paging_vars

NoPaging(tti) ==
    /\ tti # paging_tti
    /\ Collected(tti) = {}
    /\ paging_tti' = INVALID_TTI
    /\ UNCHANGED <<pending_paging, byte_buf_paging, requested>>

\* under paging_mutex; the message is pcch_msg, a local variable
Collect(tti) ==
    /\ tti # paging_tti
    /\ Collected(tti) # {}
    /\ pending_paging' = pending_paging \ Removed(tti)
    /\ paging_tti' = INVALID_TTI
    /\ UNCHANGED <<byte_buf_paging, requested>>

\* byte_buf_paging.clear() and the beginning of pack()
StartPacking ==
    /\ byte_buf_paging' = Torn
    /\ UNCHANGED <<pending_paging, paging_tti, requested>>

Packed(message, tti) ==
    /\ byte_buf_paging' = message
    /\ paging_tti' = tti
    /\ UNCHANGED <<pending_paging, requested>>

\* these UEs have been paged; some may have another page by now
Paged(ues) ==
    /\ requested' = requested \ (ues \ pending_paging)
    /\ UNCHANGED <<pending_paging, paging_tti, byte_buf_paging>>
===============================================================================
