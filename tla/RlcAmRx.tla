------------------------------- MODULE RlcAmRx -------------------------------
(***************************************************************************)
(* The receiving half of an LTE acknowledged-mode RLC entity:              *)
(* rlc_am_lte::rlc_am_lte_rx in lib/src/upper/rlc_am_lte.cc, and the       *)
(* STATUS PDUs its entity builds from it (build_status_pdu of the          *)
(* transmitting half of the same entity).                                  *)
(*                                                                         *)
(* write_pdu and the timer callbacks run on the stack thread; read_pdu,    *)
(* which builds the STATUS PDU, runs on a PHY worker.  get_status_pdu and  *)
(* reset_status lock the receiver's mutex one after the other, so the two  *)
(* are separate actions here and a PDU may be written between them.        *)
(*                                                                         *)
(* Data: a byte is <<sdu, k>>, the k-th byte of an SDU of SduLen bytes; it *)
(* carries what the LI and FI fields of the header say about the borders   *)
(* of SDUs.  A PDU segment is [so, data, lsf].                             *)
(***************************************************************************)
EXTENDS RlcAmSn, Sequences, SequencesExt, FiniteSets

VARIABLES
    vr_r, vr_mr, vr_x, vr_ms, vr_h,    \* receive state variables
    rx_window,                         \* SN -> payload of a complete PDU
    rx_segments,                       \* SN -> set of PDU segments
    rx_sdu,                            \* bytes of the SDU being reassembled
    poll_received, do_status,
    reordering_running,                \* reordering_timer.is_running()
    status_prohibit_running,           \* status_prohibit_timer.is_running()
    tx_status,                         \* STATUS PDU got and not yet reset, or none
    delivered                          \* SDUs handed to pdcp->write_pdu

rx_vars == <<vr_r, vr_mr, vr_x, vr_ms, vr_h, rx_window, rx_segments, rx_sdu,
             poll_received, do_status, reordering_running,
             status_prohibit_running, tx_status, delivered>>

none == [none |-> TRUE]

Byte == Nat \X Nat
Segment == [so : Nat, data : Seq(Byte), lsf : BOOLEAN]
DataPdu == [sn : SN, p : BOOLEAN, rf : BOOLEAN,
            so : Nat, lsf : BOOLEAN, data : Seq(Byte)]
StatusPdu == [ack_sn : SN, nacks : SUBSET SN]

RxInit ==
    /\ vr_r = 0 /\ vr_x = 0 /\ vr_ms = 0 /\ vr_h = 0
    /\ vr_mr = RLC_AM_WINDOW_SIZE
    /\ rx_window = << >>
    /\ rx_segments = << >>
    /\ rx_sdu = << >>
    /\ poll_received = FALSE /\ do_status = FALSE
    /\ reordering_running = FALSE /\ status_prohibit_running = FALSE
    /\ tx_status = none
    /\ delivered = << >>

RxBase(x) == ModBase(x, vr_r)

\* (faulty) upper edge included
InsideRxWindowClosed(sn, r, mr) == ModBase(sn, r) <= ModBase(mr, r)

InsideRxWindow(sn, r, mr) == ModBase(sn, r) < ModBase(mr, r)

\* (faulty) not updated by the number it points to
HighestAfterLate(sn) == IF RxBase(sn) > RxBase(vr_h) THEN Inc(sn) ELSE vr_h

\* vr_h after the arrival of sn
HighestAfter(sn) == IF RxBase(sn) >= RxBase(vr_h) THEN Inc(sn) ELSE vr_h

------------------------------------------------------------------------------
(* Reassembly *)

\* (faulty) the rest of an SDU replaces its beginning
TakeByteAlone(acc, b) ==
    IF b[2] = SduLen
    THEN [sdu |-> << >>, out |-> Append(acc.out, <<b>>)]
    ELSE [acc EXCEPT !.sdu = <<b>>]

\* One more byte of the in-sequence stream: an SDU is complete at its last.
TakeByte(acc, b) ==
    IF b[2] = SduLen
    THEN [sdu |-> << >>, out |-> Append(acc.out, Append(acc.sdu, b))]
    ELSE [acc EXCEPT !.sdu = Append(@, b)]

\* The payloads of the PDUs from vr_r up to, and without, r.
InSequenceBytes(win, r) ==
    FlattenSeq([i \in 1..RxBase(r) |-> win[(vr_r + i - 1) % MOD]])

\* (faulty) never stopped
StillReorderingAlways(r, mr) == reordering_running

\* The reordering timer is left running while vr_x is a number still awaited.
StillReordering(r, mr) ==
    /\ reordering_running
    /\ vr_x # r
    /\ InsideRxWindow(vr_x, r, mr) \/ vr_x = mr

\* (faulty) a poll on a discarded PDU goes unanswered
StatusOfDiscardedDeaf(status, p) == status

\* do_status after a PDU that is discarded, outside the window or a duplicate.
StatusOfDiscarded(status, p) == status \/ p

(* handle_data_pdu: status is do_status as the caller leaves it, segs the
   rx_segments it leaves. *)
HandleDataPdu(sn, p, data, segs, status) ==
    IF ~InsideRxWindow(sn, vr_r, vr_mr) \/ sn \in DOMAIN rx_window
    THEN /\ do_status' = StatusOfDiscarded(status, p)
         /\ rx_segments' = segs
         /\ UNCHANGED <<vr_r, vr_mr, vr_x, vr_ms, vr_h, rx_window, rx_sdu,
                        poll_received, reordering_running, delivered>>
    ELSE LET win   == [s \in DOMAIN rx_window \cup {sn} |->
                          IF s = sn THEN data ELSE rx_window[s]]
             h     == HighestAfter(sn)
             ms    == FirstNotIn(vr_ms, DOMAIN win)
             r     == FirstNotIn(vr_r, DOMAIN win)
             mr    == (vr_mr + RxBase(r)) % MOD
             taken == {s \in DOMAIN win : RxBase(s) < RxBase(r)}
             asm   == FoldLeft(TakeByte, [sdu |-> rx_sdu, out |-> delivered],
                               InSequenceBytes(win, r))
             still == StillReordering(r, mr)
             start == ~still /\ ModBase(h, r) > 0
         IN /\ vr_h' = h
            /\ vr_ms' = ms
            /\ vr_r' = r
            /\ vr_mr' = mr
            /\ poll_received' = (poll_received \/ p)
            /\ do_status' = (status \/ (p /\ \/ RxBase(sn) < RxBase(ms)
                                             \/ RxBase(sn) >= RxBase(vr_mr)))
            /\ rx_window' = [s \in DOMAIN win \ taken |-> win[s]]
            /\ rx_segments' = [s \in DOMAIN segs |->
                                  IF s \in taken THEN {} ELSE segs[s]]
            /\ rx_sdu' = asm.sdu
            /\ delivered' = asm.out
            /\ reordering_running' = (still \/ start)
            /\ vr_x' = IF start THEN h ELSE vr_x

------------------------------------------------------------------------------
(* PDU segments *)

SegEnd(s) == s.so + Len(s.data)

\* The list of segments, sorted by offset, after one more arrived.
Insert(S, seg) ==
    LET same == {s \in S : s.so = seg.so}
    IN IF \E s \in same : Len(s.data) >= Len(seg.data) THEN S
       ELSE (S \ same) \cup {seg}

\* Everything before s is there, and covers s up to its end.
Reached(S, s) ==
    \A t \in S : t.so <= s.so =>
        t.so = 0 \/ \E u \in S : u.so < t.so /\ SegEnd(u) >= t.so
Overlapped(S, s) == \E u \in S : u.so < s.so /\ SegEnd(u) >= SegEnd(s)

\* The segments that add_segment_and_check does not erase as overlapped.
Kept(S) == {s \in S : ~(Reached(S, s) /\ Overlapped(S, s))}

Complete(S) ==
    /\ \A s \in S : Reached(S, s)
    /\ \E s \in Kept(S) : s.lsf /\ \A t \in Kept(S) : t.so <= s.so

\* full_pdu: at each offset the byte of the first segment that has it.
FullPdu(S) ==
    LET last == CHOOSE s \in S : \A t \in S : SegEnd(t) <= SegEnd(s)
    IN [k \in 1..SegEnd(last) |->
          LET first == CHOOSE s \in S :
                  /\ s.so < k /\ k <= SegEnd(s)
                  /\ \A t \in S : t.so < k /\ k <= SegEnd(t) => s.so <= t.so
          IN first.data[k - first.so]]

(* handle_data_pdu_segment *)
HandleDataPduSegment(pdu) ==
    LET sn  == pdu.sn
        seg == [so |-> pdu.so, data |-> pdu.data, lsf |-> pdu.lsf]
        all == Insert(rx_segments[sn], seg)
    IN \/ /\ ~InsideRxWindow(sn, vr_r, vr_mr)
          /\ do_status' = StatusOfDiscarded(do_status, pdu.p)
          /\ UNCHANGED <<vr_r, vr_mr, vr_x, vr_ms, vr_h, rx_window, rx_segments,
                         rx_sdu, poll_received, reordering_running, delivered>>
       \/ /\ InsideRxWindow(sn, vr_r, vr_mr)
          /\ sn \in DOMAIN rx_segments
          /\ Complete(all)
          /\ HandleDataPdu(sn, FALSE, FullPdu(all),
                 [s \in DOMAIN rx_segments \ {sn} |-> rx_segments[s]],
                 do_status \/ pdu.p)
       \/ /\ InsideRxWindow(sn, vr_r, vr_mr)
          /\ sn \in DOMAIN rx_segments
          /\ ~Complete(all)
          /\ rx_segments' = [rx_segments EXCEPT ![sn] = Kept(all)]
          /\ do_status' = (do_status \/ pdu.p)
          /\ UNCHANGED <<vr_r, vr_mr, vr_x, vr_ms, vr_h, rx_window, rx_sdu,
                         poll_received, reordering_running, delivered>>
       \/ /\ InsideRxWindow(sn, vr_r, vr_mr)
          /\ sn \notin DOMAIN rx_segments
          /\ rx_segments' = [s \in DOMAIN rx_segments \cup {sn} |->
                                IF s = sn THEN {seg} ELSE rx_segments[s]]
          /\ vr_h' = HighestAfter(sn)
          /\ poll_received' = (poll_received \/ pdu.p)
          /\ do_status' = (do_status \/ (pdu.p /\ \/ RxBase(sn) < RxBase(vr_ms)
                                                  \/ RxBase(sn) >= RxBase(vr_mr)))
          /\ UNCHANGED <<vr_r, vr_mr, vr_x, vr_ms, rx_window, rx_sdu,
                         reordering_running, delivered>>

(* write_pdu with a data PDU *)
RxWritePdu(pdu) ==
    /\ IF pdu.rf THEN HandleDataPduSegment(pdu)
       ELSE HandleDataPdu(pdu.sn, pdu.p, pdu.data, rx_segments, do_status)
    /\ UNCHANGED <<status_prohibit_running, tx_status>>

(* timer_expired of the reordering timer *)
ReorderingExpired ==
    LET ms    == FirstNotIn(vr_x, DOMAIN rx_window)
        again == RxBase(vr_h) > RxBase(ms)
    IN /\ reordering_running
       /\ vr_ms' = ms
       /\ do_status' = (do_status \/ poll_received)
       /\ reordering_running' = again
       /\ vr_x' = IF again THEN vr_h ELSE vr_x
       /\ UNCHANGED <<vr_r, vr_mr, vr_h, rx_window, rx_segments, rx_sdu, poll_received,
                      status_prohibit_running, tx_status, delivered>>

------------------------------------------------------------------------------
(* STATUS PDUs *)

Missing == {s \in SN \ DOMAIN rx_window : RxBase(s) < RxBase(vr_ms)}

\* The last number received before `top`, vr_r when there is none.
AckSn(top) ==
    LET got == {s \in DOMAIN rx_window : RxBase(s) < RxBase(top)}
    IN IF got = {} THEN vr_r
       ELSE CHOOSE s \in got : \A t \in got : RxBase(t) <= RxBase(s)

(* get_status_pdu with a grant that holds `room` NACKs: the scan stops at the
   first missing number there is no room for, and drops every NACK when ACK_SN
   would be one of them. *)
StatusFor(room) ==
    IF Cardinality(Missing) <= room
    THEN [ack_sn |-> AckSn(vr_ms), nacks |-> Missing]
    ELSE LET over == CHOOSE m \in Missing :
                 Cardinality({s \in Missing : RxBase(s) < RxBase(m)}) = room
             fit  == {s \in Missing : RxBase(s) < RxBase(over)}
         IN [ack_sn |-> AckSn(over),
             nacks  |-> IF AckSn(over) \in fit THEN {} ELSE fit]

(* read_pdu up to and with rx.get_status_pdu: a grant one NACK short of a full
   window's NACKs is refused by build_status_pdu. *)
GetStatusPdu(room) ==
    /\ tx_status = none
    /\ do_status /\ ~status_prohibit_running
    /\ Cardinality(Missing) <= room \/ room + 1 < RLC_AM_WINDOW_SIZE
    /\ tx_status' = StatusFor(room)
    /\ UNCHANGED <<vr_r, vr_mr, vr_x, vr_ms, vr_h, rx_window, rx_segments, rx_sdu,
                   poll_received, do_status, reordering_running,
                   status_prohibit_running, delivered>>

(* the rest of build_status_pdu: rx.reset_status and the prohibit timer *)
ResetStatus ==
    /\ tx_status # none
    /\ do_status' = FALSE /\ poll_received' = FALSE
    /\ status_prohibit_running' = TRUE
    /\ tx_status' = none
    /\ UNCHANGED <<vr_r, vr_mr, vr_x, vr_ms, vr_h, rx_window, rx_segments, rx_sdu,
                   reordering_running, delivered>>

StatusProhibitExpired ==
    /\ status_prohibit_running
    /\ status_prohibit_running' = FALSE
    /\ UNCHANGED <<vr_r, vr_mr, vr_x, vr_ms, vr_h, rx_window, rx_segments, rx_sdu,
                   poll_received, do_status, reordering_running, tx_status, delivered>>

------------------------------------------------------------------------------
(* The receiver against any peer: every data PDU may arrive at any time.  The
   invariants of the window hold whatever the peer sends; what they are worth to
   a pair of entities is checked in RlcAm. *)

RxNext ==
    \/ \E pdu \in DataPdu : RxWritePdu(pdu)
    \/ ReorderingExpired
    \/ \E room \in Nat : GetStatusPdu(room)
    \/ ResetStatus
    \/ StatusProhibitExpired

RxSpec == RxInit /\ [][RxNext]_rx_vars

(* The receiver's variables have the types of the declarations in
   rlc_am_lte_rx. *)
RxTypeOK ==
    /\ vr_r \in SN /\ vr_mr \in SN /\ vr_x \in SN /\ vr_ms \in SN /\ vr_h \in SN
    /\ DOMAIN rx_window \subseteq SN
    /\ DOMAIN rx_segments \subseteq SN
    /\ poll_received \in BOOLEAN /\ do_status \in BOOLEAN
    /\ reordering_running \in BOOLEAN /\ status_prohibit_running \in BOOLEAN
    /\ tx_status \in StatusPdu \cup {none}

(* The receive window moves as one: its upper edge is a window above its lower
   edge, vr_ms and vr_h lie in it in that order, everything held lies below vr_h,
   the lower edge is the first number not received, and everything between
   vr_r and vr_ms that is not held was declared lost by the reordering timer. *)
RxWindowInv ==
    /\ vr_mr = (vr_r + RLC_AM_WINDOW_SIZE) % MOD
    /\ RxBase(vr_ms) <= RxBase(vr_h)
    /\ RxBase(vr_h) <= RLC_AM_WINDOW_SIZE
    /\ \A s \in DOMAIN rx_window : RxBase(s) < RxBase(vr_h)
    /\ vr_r \notin DOMAIN rx_window
    /\ vr_ms \notin DOMAIN rx_window

(* While the reordering timer runs, vr_x marks a number inside the window,
   above its lower edge and not above vr_h: its expiry cannot move vr_ms back
   below vr_r or past what was received. *)
ReorderingInv ==
    reordering_running => RxBase(vr_x) > 0 /\ RxBase(vr_x) <= RxBase(vr_h)
==============================================================================
