------------------------------ MODULE UmBearer ------------------------------
(***************************************************************************)
(* One direction of a data bearer on RLC UM: the PDCP and RLC entities of  *)
(* the sender (PdcpLte, RlcUmTx) and of the receiver (RlcUmRx, PdcpLte),   *)
(* and between them a MAC that loses, duplicates and reorders.             *)
(*                                                                         *)
(* The MAC is external; Faults says what a run lets it do.  HARQ holds a   *)
(* PDU back for a few TTIs, so that it is overtaken by one other at most,  *)
(* and no more than MaxLost PDUs are lost in a row.                        *)
(***************************************************************************)
EXTENDS RlcUmTx, RlcUmRx

CONSTANTS
    Grants,                 \* payload bytes of the grants
    PduCap,                 \* bound: PDUs in flight
    MaxLost,                \* PDUs lost in a row
    Faults,                 \* what the MAC does
    MaxReestablish,         \* bound: reestablishments
    ReestablishAnyTime      \* also while the reordering timer runs

ASSUME UmBearerAssumption ==
    /\ Grants \subseteq Nat \ {0} /\ PduCap \in Nat \ {0}
    /\ MaxLost \in Nat /\ MaxReestablish \in Nat
    /\ Faults \subseteq {"duplicate", "overtake"}
    /\ ReestablishAnyTime \in BOOLEAN

VARIABLES
    overtaken,              \* the oldest PDU in flight has been overtaken
    lost,                   \* PDUs lost in a row
    reestablished,          \* reestablishments so far
    arrived                 \* bytes taken into the window and not pushed out of it

mac_vars == <<overtaken, lost, reestablished, arrived>>
vars == <<um_tx_vars, um_rx_vars, pdcp_vars, mac_vars>>

Init ==
    /\ UmTxInit /\ UmRxInit /\ PdcpInit
    /\ overtaken = FALSE /\ lost = 0 /\ reestablished = 0
    /\ arrived = {}

------------------------------------------------------------------------------
(* pdcp_entity_lte::write_sdu: an SDU that finds the queue full takes no number. *)
Write ==
    /\ Len(written) < MaxSdus
    /\ ~SduQueueIsFull
    /\ PdcpWriteSdu
    /\ TryWriteSdu(Len(written) + 1)
    /\ UNCHANGED <<um_rx_vars, rx_st, pdcp_delivered, mac_vars>>

Read(g) ==
    /\ Len(pdu_list) < PduCap
    /\ BuildDataPdu(g)
    /\ UNCHANGED <<um_rx_vars, pdcp_vars, mac_vars>>

Data(pdu) == UNION {BytesIn(pdu.segments[i]) : i \in 1..Len(pdu.segments)}

\* What is held below the window that sn moves up.
PushedOut(sn) ==
    UNION {Data(rx_window[s]) :
              s \in {t \in DOMAIN rx_window :
                        RxModBase(sn, vr_uh) >= UM_WINDOW
                        /\ RxModBase(t, Next1(sn)) >= UM_WINDOW}}

Receive(pdu) ==
    /\ HandleDataPdu(pdu)
    /\ arrived' = IF Discarded(pdu.sn) THEN arrived
                  ELSE (arrived \cup Data(pdu)) \ PushedOut(pdu.sn)
    /\ UNCHANGED <<tx_sdu_queue, tx_sdu, vt_us, written, next_pdcp_tx_sn, tx_hfn,
                   reestablished>>

(* The MAC *)

Deliver ==
    /\ pdu_list # << >>
    /\ Receive(Head(pdu_list))
    /\ pdu_list' = Tail(pdu_list)
    /\ overtaken' = FALSE /\ lost' = 0

Duplicate ==
    /\ "duplicate" \in Faults
    /\ pdu_list # << >>
    /\ Receive(Head(pdu_list))
    /\ lost' = 0
    /\ UNCHANGED <<pdu_list, overtaken>>

Overtake ==
    /\ "overtake" \in Faults
    /\ Len(pdu_list) > 1 /\ ~overtaken
    /\ Receive(pdu_list[2])
    /\ pdu_list' = RemoveAt(pdu_list, 2)
    /\ overtaken' = TRUE
    /\ UNCHANGED lost

Lose ==
    /\ pdu_list # << >> /\ lost < MaxLost
    /\ pdu_list' = Tail(pdu_list)
    /\ lost' = lost + 1 /\ overtaken' = FALSE
    /\ UNCHANGED <<tx_sdu_queue, tx_sdu, vt_us, um_rx_vars, pdcp_vars, reestablished,
                   arrived>>

Reordering ==
    /\ ReorderingExpired
    /\ UNCHANGED <<um_tx_vars, written, next_pdcp_tx_sn, tx_hfn, mac_vars>>

------------------------------------------------------------------------------
(* Handover (ho_proc of the UE, handle_crnti_ce of the base station): the MAC is
   reset, then all PDCP entities are reestablished, then all RLC entities.  No
   PDU passes between the two ends' doing so. *)
Reestablish ==
    /\ reestablished < MaxReestablish
    /\ ReestablishAnyTime \/ ~reordering_running
    /\ next_pdcp_tx_sn' = 0 /\ tx_hfn' = 0
    /\ UmTxReestablish
    /\ UmRxReestablish(PdcpReset)
    /\ overtaken' = FALSE /\ lost' = 0
    /\ reestablished' = reestablished + 1
    /\ UNCHANGED <<written, arrived>>

Next ==
    \/ Write \/ \E g \in Grants : Read(g)
    \/ Deliver \/ Duplicate \/ Overtake \/ Lose
    \/ Reordering
    \/ Reestablish

Spec == Init /\ [][Next]_vars

------------------------------------------------------------------------------
\* Type correctness of the receiver and of the MAC.
TypeOK ==
    /\ UmRxTypeOK
    /\ vt_us \in UmSN /\ vr_ur_in_rx_sdu \in UmSN
    /\ overtaken \in BOOLEAN /\ lost \in 0..MaxLost
    /\ reestablished \in 0..MaxReestablish

(* Every SDU that comes out is deciphered with the COUNT it was ciphered with: the
   two HFNs stay together over the wrap of SN and over losses, as long as fewer
   SDUs are missing in a row than there are SNs. *)
Id(d) == d.sdu[1][1]

\* SDUs missing before the i-th that comes out, since the last or a reestablishment
Missing(i) ==
    LET id   == Id(pdcp_delivered[i])
        last == IF i = 1 THEN 0 ELSE Id(pdcp_delivered[i - 1])
    IN IF last > 0 /\ written[id] - written[last] = id - last
       THEN id - last - 1 ELSE written[id]

CountInSync ==
    \A i \in 1..Len(pdcp_delivered) :
        (\A j \in 1..i : Missing(j) <= maximum_pdcp_sn) =>
            pdcp_delivered[i].count = written[Id(pdcp_delivered[i])]

(* A reestablishment leaves both PDCP entities at COUNT 0. *)
SnsReset == [][reestablished' # reestablished => rx_st' = PdcpReset]_vars

(* The whole bearer implements LossyDelivery: an SDU is whole, in its place. *)
Place(d) == IF d.sdu = SduBytes(Id(d)) THEN Id(d) ELSE 0

Service == INSTANCE LossyDelivery WITH
    Sdu <- 0..MaxSdus,
    sent <- written,
    received <- [i \in 1..Len(pdcp_delivered) |-> Place(pdcp_delivered[i])]

ServiceSpec == Service!Spec

(* Only what is lost is lost: an SDU all of whose bytes have arrived is delivered,
   once the receiver holds nothing back.  Three exceptions, where the code drops more
   than it must: before the first SDU since a reestablishment is delivered,
   vr_ur_in_rx_sdu is not a number of this stream yet; of a PDU that the window
   pushes out the first loop drops SDUs that could be completed; and a number that
   vr_ur_in_rx_sdu has kept for a whole cycle of numbers, which takes as many bytes
   since the SDU delivered last, passes for that of the PDU before. *)
Delivered(id) == \E i \in 1..Len(pdcp_delivered) : pdcp_delivered[i].sdu = SduBytes(id)

OnlyTheLostIsLost ==
    rx_window = << >> =>
        \A id \in 1..Len(written) :
            /\ BytesIn(SduBytes(id)) \subseteq arrived
            /\ \E n \in 1..(id - 1) :
                  /\ Delivered(n) /\ written[id] - written[n] = id - n
                  /\ (id - n) * SduLen < UM_MOD
            => Delivered(id)
==============================================================================
