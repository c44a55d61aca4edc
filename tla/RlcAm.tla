-------------------------------- MODULE RlcAm --------------------------------
(***************************************************************************)
(* One direction of an acknowledged-mode bearer: the transmitting half of  *)
(* one rlc_am_lte entity (RlcAmTx), the receiving half of its peer         *)
(* (RlcAmRx), and between them a MAC that loses, duplicates and reorders.  *)
(*                                                                         *)
(* The MAC is external.  What it may do is taken from the traffic of       *)
(* lib/test/upper/rlc_stress_test.cc: it drops and duplicates PDUs in both *)
(* directions and delivers the PDUs of a TTI in another order; Faults says *)
(* which of these a run has.  HARQ holds a PDU back for a few TTIs only,   *)
(* so a data PDU is overtaken by at most one other, less than a window     *)
(* newer than itself.                                                      *)
(***************************************************************************)
EXTENDS RlcAmTx, RlcAmRx

CONSTANTS
    Grants,             \* payload bytes of the grants of the transmitter
    Rooms,              \* NACKs that the grants for a STATUS PDU hold
    PduCap, StatusCap,  \* bounds: PDUs in flight
    Faults              \* what the MAC does to PDUs

ASSUME RlcAmAssumption ==
    /\ Grants \subseteq Nat \ {0} /\ Rooms \subseteq Nat
    /\ PduCap \in Nat \ {0} /\ StatusCap \in Nat \ {0}
    /\ Faults \subseteq {"lose", "duplicate", "overtake", "lose status",
                        "duplicate status", "overtake status"}

VARIABLES
    overtaken,          \* the oldest PDU in flight has been overtaken
    status_list         \* STATUS PDUs in flight

vars == <<tx_vars, rx_vars, overtaken, status_list>>

tx_own == <<accepted, tx_sdu_queue, tx_sdu, tx_window, retx_queue, vt_a, vt_ms, vt_s,
            pdu_without_poll, poll_retx_timer, poll_callback, max_retx_attempted>>

Init ==
    /\ TxInit /\ RxInit
    /\ overtaken = FALSE
    /\ status_list = << >>

------------------------------------------------------------------------------
(* Steps of the transmitter *)

Write == WriteSdu /\ UNCHANGED <<rx_vars, overtaken, status_list>>

Read(g) ==
    /\ Len(pdu_list) < PduCap
    /\ ReadPdu(g)
    /\ UNCHANGED <<rx_vars, overtaken, status_list>>

PollExpires == PollRetxExpires /\ UNCHANGED <<rx_vars, overtaken, status_list>>

PollCallback == PollRetxCallback /\ UNCHANGED <<rx_vars, overtaken, status_list>>

(* Steps of the receiver *)

Reordering == ReorderingExpired /\ UNCHANGED <<tx_vars, overtaken, status_list>>

GetStatus(room) ==
    /\ Len(status_list) < StatusCap
    /\ GetStatusPdu(room)
    /\ UNCHANGED <<tx_vars, overtaken, status_list>>

SendStatus ==
    /\ ResetStatus
    /\ status_list' = Append(status_list, tx_status)
    /\ UNCHANGED <<tx_vars, overtaken>>

ProhibitExpires == StatusProhibitExpired /\ UNCHANGED <<tx_vars, overtaken, status_list>>

(* Steps of the MAC: data PDUs *)

Deliver ==
    /\ pdu_list # << >>
    /\ RxWritePdu(Head(pdu_list))
    /\ pdu_list' = Tail(pdu_list)
    /\ overtaken' = FALSE
    /\ UNCHANGED <<tx_own, status_list>>

Duplicate ==
    /\ "duplicate" \in Faults
    /\ pdu_list # << >>
    /\ RxWritePdu(Head(pdu_list))
    /\ UNCHANGED <<tx_vars, overtaken, status_list>>

Overtake ==
    /\ "overtake" \in Faults
    /\ Len(pdu_list) > 1 /\ ~overtaken
    /\ \/ ModBase(pdu_list[2].sn, pdu_list[1].sn) < RLC_AM_WINDOW_SIZE
       \/ ModBase(pdu_list[1].sn, pdu_list[2].sn) < RLC_AM_WINDOW_SIZE
    /\ RxWritePdu(pdu_list[2])
    /\ pdu_list' = RemoveAt(pdu_list, 2)
    /\ overtaken' = TRUE
    /\ UNCHANGED <<tx_own, status_list>>

Lose ==
    /\ "lose" \in Faults
    /\ pdu_list # << >>
    /\ pdu_list' = Tail(pdu_list)
    /\ overtaken' = FALSE
    /\ UNCHANGED <<tx_own, rx_vars, status_list>>

(* Steps of the MAC: STATUS PDUs, which write_pdu passes on to the transmitter *)

DeliverStatus ==
    /\ \E n \in 1..Len(status_list) :
          /\ n = 1 \/ "overtake status" \in Faults
          /\ HandleControlPdu(status_list[n])
          /\ status_list' = RemoveAt(status_list, n)
    /\ UNCHANGED <<rx_vars, overtaken>>

DuplicateStatus ==
    /\ "duplicate status" \in Faults
    /\ status_list # << >>
    /\ HandleControlPdu(Head(status_list))
    /\ UNCHANGED <<rx_vars, overtaken, status_list>>

LoseStatus ==
    /\ "lose status" \in Faults
    /\ status_list # << >>
    /\ status_list' = Tail(status_list)
    /\ UNCHANGED <<tx_vars, rx_vars, overtaken>>

Next ==
    \/ Write \/ \E g \in Grants : Read(g)
    \/ PollExpires \/ PollCallback
    \/ Reordering \/ \E room \in Rooms : GetStatus(room)
    \/ SendStatus \/ ProhibitExpires
    \/ Deliver \/ Duplicate \/ Overtake \/ Lose
    \/ DeliverStatus \/ DuplicateStatus \/ LoseStatus

Spec == Init /\ [][Next]_vars

(* The stack thread runs its timers and hands over what arrives, the MAC keeps
   granting while get_buffer_state is not zero, and not too little for ever, and
   what is sent again and again arrives: strong fairness of the deliveries against
   the losses. *)
Fairness ==
    /\ \A g \in Grants : WF_vars(Read(g))
    /\ WF_vars(PollExpires) /\ WF_vars(PollCallback)
    /\ WF_vars(Reordering) /\ WF_vars(ProhibitExpires)
    /\ WF_vars(\E room \in Rooms : GetStatus(room)) /\ WF_vars(SendStatus)
    /\ SF_vars(Deliver) /\ SF_vars(DeliverStatus)

FairSpec == Spec /\ Fairness

------------------------------------------------------------------------------
(* Type correctness of both halves and of what is in flight. *)
TypeOK ==
    /\ TxTypeOK /\ RxTypeOK
    /\ overtaken \in BOOLEAN
    /\ \A n \in 1..Len(pdu_list) : pdu_list[n].sn \in SN /\ pdu_list[n].p \in BOOLEAN
    /\ status_list \in Seq(StatusPdu)

(* Whole, once and in order: refinement of ReliableDelivery. *)
Service == INSTANCE ReliableDelivery WITH
    Sdu <- {SduBytes(id) : id \in 1..MaxSdus},
    sent <- [id \in 1..accepted |-> SduBytes(id)],
    received <- delivered

ServiceSpec == Service!Spec

(* Nothing is forgotten: a byte of an accepted SDU is with the transmitter until
   the receiver has it.  tx_window is the only copy of what was sent, and
   handle_control_pdu erases from it on the word of ACK_SN alone. *)

AtReceiver ==
    (UNION {BytesIn(delivered[i]) : i \in 1..Len(delivered)})
    \cup BytesIn(rx_sdu)
    \cup (UNION {BytesIn(rx_window[s]) : s \in DOMAIN rx_window})

AtTransmitter ==
    (UNION {BytesIn(SduBytes(tx_sdu_queue[i])) : i \in 1..Len(tx_sdu_queue)})
    \cup BytesIn(tx_sdu)
    \cup (UNION {BytesIn(tx_window[s].data) : s \in DOMAIN tx_window})

NothingForgotten ==
    \A id \in 1..accepted : BytesIn(SduBytes(id)) \subseteq AtReceiver \cup AtTransmitter

(* The windows agree: the transmitter's lower edge never passes the receiver's,
   and the receiver's lower edge never passes what was sent. *)
WindowsAgree ==
    /\ ModBase(vr_r, vt_a) <= ModBase(vt_s, vt_a)
    /\ ModBase(vt_s, vt_a) <= RLC_AM_WINDOW_SIZE

(* vr_ms, up to which STATUS PDUs report, only moves forward, and at most by a
   window: the reordering timer's expiry overwrites it with vr_x, which must not
   be a number already reported on. *)
VrMsNeverBack ==
    [][vr_ms' # vr_ms => ModBase(vr_ms', vr_ms) <= RLC_AM_WINDOW_SIZE]_vars

(* Every accepted SDU comes out: a lost acknowledgement cannot block the window,
   and a window stuck at its limit asks for a status until it gets one. *)
EverythingDelivered ==
    \A n \in 1..MaxSdus : (accepted >= n) ~> (Len(delivered) >= n)
==============================================================================
