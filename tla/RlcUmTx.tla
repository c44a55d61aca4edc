------------------------------- MODULE RlcUmTx -------------------------------
(***************************************************************************)
(* The transmitting half of an LTE unacknowledged-mode RLC entity:         *)
(* rlc_um_base::rlc_um_base_tx and rlc_um_lte::rlc_um_lte_tx in            *)
(* lib/src/upper/rlc_um_base.cc and rlc_um_lte.cc.                         *)
(*                                                                         *)
(* write_sdu and reestablish run on the stack thread, read_pdu on a PHY    *)
(* worker.  A PDU is what its header says of it: the number, whether its   *)
(* first and last bytes are borders of SDUs (FI), and its data cut at its  *)
(* LIs.                                                                    *)
(***************************************************************************)
EXTENDS RlcUmSn, RlcSdu

CONSTANTS
    QueueLen            \* tx_queue_length

ASSUME UmTxAssumption ==
    QueueLen \in Nat \ {0}

VARIABLES
    tx_sdu_queue,       \* SDUs waiting
    tx_sdu,             \* bytes left of the SDU being sent
    vt_us,              \* the next number
    pdu_list            \* PDUs at the MAC, not yet at the peer

um_tx_vars == <<tx_sdu_queue, tx_sdu, vt_us, pdu_list>>

UmTxInit ==
    /\ tx_sdu_queue = << >> /\ tx_sdu = << >>
    /\ vt_us = 0
    /\ pdu_list = << >>

SduQueueIsFull == Len(tx_sdu_queue) >= QueueLen

\* try_write_sdu; the PDCP entity has asked sdu_queue_is_full before
TryWriteSdu(id) ==
    /\ tx_sdu_queue' = Append(tx_sdu_queue, id)
    /\ UNCHANGED <<tx_sdu, vt_us, pdu_list>>

\* The bytes of data, which are in the order of the SDUs, cut where an SDU ends.
Cut(data) ==
    LET first   == data[1][1]
        UpTo(id) == Cardinality({k \in 1..Len(data) : data[k][1] <= id})
    IN [i \in 1..(data[Len(data)][1] - first + 1) |->
            SubSeq(data, UpTo(first + i - 2) + 1, UpTo(first + i - 1))]

\* (faulty) an SDU that continues one of the PDU before counts as aligned
HeaderAligned(sn, data) ==
    [sn |-> sn, start_aligned |-> TRUE,
     end_aligned |-> data[Len(data)][2] = SduLen, segments |-> Cut(data)]

\* The header of a PDU with these bytes: FI and LIs, one segment for each SDU.
Header(sn, data) ==
    [sn |-> sn, start_aligned |-> data[1][2] = 1,
     end_aligned |-> data[Len(data)][2] = SduLen, segments |-> Cut(data)]

(* build_data_pdu with a grant of g bytes behind the fixed header.  The SDU that
   goes first fills the PDU as far as it can; how many bytes of further SDUs fit
   depends on the room their LIs take and is left open. *)
BuildDataPdu(g) ==
    LET pending == Pending(tx_sdu, tx_sdu_queue)
        first   == IF tx_sdu # << >> THEN Len(tx_sdu) ELSE SduLen
    IN /\ pending # << >>
       /\ \E n \in 1..g :
            /\ n <= Len(pending)
            /\ n = g \/ n >= first
            /\ LET data == SubSeq(pending, 1, n)
                   id   == data[n][1]
               IN /\ tx_sdu' = Rest(id, data[n][2])
                  /\ tx_sdu_queue' = LeftOf(tx_sdu_queue, id)
                  /\ vt_us' = (vt_us + 1) % UM_MOD
                  /\ pdu_list' = Append(pdu_list, Header(vt_us, data))

(* reestablish: stop empties the queue and resets VT(US); the MAC has been reset,
   so nothing is on its way. *)
UmTxReestablish ==
    /\ tx_sdu_queue' = << >> /\ tx_sdu' = << >>
    /\ vt_us' = 0
    /\ pdu_list' = << >>
==============================================================================
