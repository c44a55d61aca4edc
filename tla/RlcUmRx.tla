------------------------------- MODULE RlcUmRx -------------------------------
(***************************************************************************)
(* The receiving half of an LTE unacknowledged-mode RLC entity:            *)
(* rlc_um_lte::rlc_um_lte_rx in lib/src/upper/rlc_um_lte.cc.  write_pdu,   *)
(* the timer callback and reestablish run on the stack thread.             *)
(*                                                                         *)
(* reassemble_rx_sdus is a loop over the numbers VR(UR) passes, with a     *)
(* loop over the segments of each PDU inside.  Where VR(UR) stops depends  *)
(* on the window only; what is delivered is a fold over the numbers on the *)
(* way, in a record of the members the loops use:                          *)
(*    sdu   rx_sdu            in    vr_ur_in_rx_sdu                         *)
(*    lost  pdu_lost          out   SDUs passed to the PDCP entity         *)
(***************************************************************************)
EXTENDS RlcUmSn, PdcpLte

VARIABLES
    vr_ur, vr_ux, vr_uh,    \* receive state variables
    rx_window,              \* SN -> PDU
    rx_sdu,                 \* bytes of the SDU being reassembled
    vr_ur_in_rx_sdu,        \* the number that gave rx_sdu its last bytes
    pdu_lost,
    reordering_running      \* reordering_timer.is_running()

um_rx_vars == <<vr_ur, vr_ux, vr_uh, rx_window, rx_sdu, vr_ur_in_rx_sdu, pdu_lost,
                reordering_running>>

UmRxInit ==
    /\ vr_ur = 0 /\ vr_ux = 0 /\ vr_uh = 0
    /\ rx_window = << >>
    /\ rx_sdu = << >> /\ vr_ur_in_rx_sdu = 0
    /\ pdu_lost = FALSE
    /\ reordering_running = FALSE

------------------------------------------------------------------------------
(* Reassembly *)

\* (faulty) a PDU lost before still counts
PassOnLost(r, sdu) == [r EXCEPT !.sdu = << >>, !.out = Append(@, sdu)]

PassOn(r, sdu) == [r EXCEPT !.sdu = << >>, !.out = Append(@, sdu), !.lost = FALSE]
Drop(r) == [r EXCEPT !.sdu = << >>, !.lost = FALSE]

\* The last segment of a PDU goes to rx_sdu, and out if it ends an SDU.
LastSegment(r, sn, pdu) ==
    LET whole == r.sdu \o Last(pdu.segments)
        r1    == [r EXCEPT !.sdu = whole, !.in = sn]
    IN IF ~pdu.end_aligned THEN r1
       ELSE IF r.lost /\ ~pdu.start_aligned THEN Drop(r1)
       ELSE PassOn(r1, whole)

\* The segments before the last of a PDU that VR(UR) is pushed past.
EdgeSegments(r, sn, pdu) ==
    LET TakeSegment(acc, seg) ==
            IF (acc.lost /\ ~pdu.start_aligned) \/ sn # Next1(acc.in)
            THEN Drop(acc) ELSE PassOn(acc, acc.sdu \o seg)
    IN FoldLeft(TakeSegment, r, Front(pdu.segments))

\* The PDUs VR(UR) is pushed past by the window: the first loop.
LowerEdgePdu(r, sn, pdu) ==
    LET headless == r.sdu = << >> /\ ~pdu.start_aligned
        r1       == EdgeSegments(r, sn, pdu)
    IN IF headless THEN r
       ELSE IF r1.sdu = << >> /\ ~pdu.start_aligned THEN r1
       ELSE LastSegment(r1, sn, pdu)

\* pdu_belongs_to_rx_sdu
PduBelongsToRxSdu(in, sn) == Next1(in) = sn \/ in = sn

\* Segments segs, each of which ends an SDU, of a PDU received in sequence.
LineSegments(r, sn, segs) ==
    LET TakeSegment(acc, seg) == [PassOn(acc, acc.sdu \o seg) EXCEPT !.in = sn]
    IN FoldLeft(TakeSegment, r, segs)

\* The PDUs received in sequence from VR(UR) on: the second loop.
InSequencePdu(r, sn, pdu) ==
    LET r1       == IF PduBelongsToRxSdu(r.in, sn) THEN r ELSE Drop(r)
        headless == r1.sdu = << >> /\ ~pdu.start_aligned
        several  == Len(pdu.segments) > 1
        middle   == IF headless THEN Tail(pdu.segments) ELSE pdu.segments
    IN IF headless /\ ~several THEN r1
       ELSE LastSegment(LineSegments(IF headless THEN Drop(r1) ELSE r1, sn, Front(middle)),
                        sn, pdu)

------------------------------------------------------------------------------
(* The way of VR(UR) *)

\* Numbers from x on, n of them.
From(x, n) == [i \in 1..n |-> (x + i - 1) % UM_MOD]

\* The first loop over n numbers from x on, with the PDUs of win.
PassEdge(win, r, x, n) ==
    LET Edge(acc, s) == IF s \in DOMAIN win THEN LowerEdgePdu(acc, s, win[s])
                        ELSE [acc EXCEPT !.sdu = << >>]
    IN FoldLeft(Edge, r, From(x, n))

\* ... and the second; only an expiry passes numbers that are missing.
PassLine(win, r, x, n) ==
    LET Line(acc, s) == IF s \in DOMAIN win THEN InSequencePdu(acc, s, win[s]) ELSE acc
    IN FoldLeft(Line, r, From(x, n))

Members == [sdu |-> rx_sdu, in |-> vr_ur_in_rx_sdu, lost |-> pdu_lost, out |-> << >>]

\* What the loops leave, and the SDUs for the PDCP entity, which is in state st.
Reassembled(r, st) ==
    /\ rx_sdu' = r.sdu /\ vr_ur_in_rx_sdu' = r.in /\ pdu_lost' = r.lost
    /\ PdcpWritePdus(st, r.out)

------------------------------------------------------------------------------
(* handle_data_pdu *)

Discarded(sn) ==
    \/ /\ RxModBase(sn, vr_uh) >= RxModBase(vr_uh - UM_WINDOW, vr_uh)
       /\ RxModBase(sn, vr_uh) < RxModBase(vr_ur, vr_uh)
    \/ sn \in DOMAIN rx_window

\* (faulty) left running for a number that VR(UR) has passed
StillReorderingLong(ur, uh, W) ==
    reordering_running /\ (InsideReorderingWindow(vr_ux, uh, W) \/ vr_ux = uh)

\* The reordering timer is left running for a VR(UX) ahead of VR(UR).
StillReordering(ur, uh, W) ==
    /\ reordering_running
    /\ RxModBase(vr_ux, uh) > RxModBase(ur, uh)
    /\ InsideReorderingWindow(vr_ux, uh, W) \/ vr_ux = uh

\* The window win with a PDU put into it.
WithPdu(win, pdu) == [s \in DOMAIN win \cup {pdu.sn} |-> IF s = pdu.sn THEN pdu ELSE win[s]]

HandleDataPdu(pdu) ==
    LET win   == WithPdu(rx_window, pdu)
        W     == DOMAIN rx_window \cup {pdu.sn}
        uh    == IF InsideReorderingWindow(pdu.sn, vr_uh, W) THEN vr_uh
                 ELSE Next1(pdu.sn)
        n1    == CatchUp(vr_ur, uh, W)
        ur1   == (vr_ur + n1) % UM_MOD
        W1    == LeftAfter(W, vr_ur, n1)
        n2    == InSequence(ur1, W1)
        ur2   == (ur1 + n2) % UM_MOD
        W2    == LeftAfter(W1, ur1, n2)
        still == StillReordering(ur2, uh, W2)
        start == ~still /\ RxModBase(uh, uh) > RxModBase(ur2, uh)
    IN IF Discarded(pdu.sn)
       THEN UNCHANGED <<um_rx_vars, rx_st, pdcp_delivered>>
       ELSE /\ vr_uh' = uh
            /\ vr_ur' = ur2
            /\ rx_window' = [s \in W2 |-> win[s]]
            /\ Reassembled(PassLine(win, PassEdge(win, Members, vr_ur, n1), ur1, n2), rx_st)
            /\ reordering_running' = (still \/ start)
            /\ vr_ux' = IF start THEN uh ELSE vr_ux

------------------------------------------------------------------------------
(* timer_expired.  VR(UR) moves up to VR(UX) and on to the first number missing;
   it is inside the window all the way (UmWindowInv), so that the calls of
   reassemble_rx_sdus run their second loop only. *)

\* How far VR(UR) moves.
ExpiryMoves ==
    IF RxModBase(vr_ur, vr_uh) < RxModBase(vr_ux, vr_uh)
    THEN ((vr_ux - vr_ur) % UM_MOD) + InSequence(vr_ux, DOMAIN rx_window)
    ELSE 0

MembersAtExpiry == [Members EXCEPT !.lost = TRUE, !.sdu = << >>]

\* What the expiry reassembles, and whether the timer is run again.
AtExpiry == PassLine(rx_window, MembersAtExpiry, vr_ur, ExpiryMoves)

UrAtExpiry == (vr_ur + ExpiryMoves) % UM_MOD
AgainAtExpiry == RxModBase(vr_uh, vr_uh) > RxModBase(UrAtExpiry, vr_uh)

ReorderingExpired ==
    /\ reordering_running
    /\ vr_ur' = UrAtExpiry
    /\ rx_window' = Restrict(rx_window,
                             LeftAfter(DOMAIN rx_window, vr_ur, ExpiryMoves))
    /\ Reassembled(AtExpiry, rx_st)
    /\ reordering_running' = AgainAtExpiry
    /\ vr_ux' = IF AgainAtExpiry THEN vr_uh ELSE vr_ux
    /\ UNCHANGED vr_uh

(* reestablish: the timer's callback is called if it runs, to pass on what can be
   reassembled, then everything is reset but vr_ur_in_rx_sdu; the callback may
   have run the timer again, which reset leaves alone.  The PDCP entity is in
   state st. *)
UmRxReestablish(st) ==
    /\ vr_ur' = 0 /\ vr_ux' = 0 /\ vr_uh' = 0
    /\ rx_window' = << >>
    /\ IF reordering_running
       THEN Reassembled([AtExpiry EXCEPT !.sdu = << >>, !.lost = FALSE], st)
       ELSE Reassembled([Members EXCEPT !.sdu = << >>, !.lost = FALSE], st)
    /\ reordering_running' = (reordering_running /\ AgainAtExpiry)

------------------------------------------------------------------------------
(* The receiver against any peer: PDUs of any numbers at any time, and a
   reestablishment at any time. *)
Pdu == [sn : UmSN, start_aligned : BOOLEAN, end_aligned : BOOLEAN,
        segments : Seq(Seq(Nat \X Nat))]

UmRxNext ==
    \/ \E pdu \in Pdu : HandleDataPdu(pdu)
    \/ ReorderingExpired
    \/ UmRxReestablish(PdcpReset)

UmRxSpec == UmRxInit /\ [][UmRxNext]_um_rx_vars

\* The receiver's variables have the types of rlc_um_lte_rx's members.
UmRxTypeOK ==
    /\ vr_ur \in UmSN /\ vr_ux \in UmSN /\ vr_uh \in UmSN
    /\ DOMAIN rx_window \subseteq UmSN
    /\ reordering_running \in BOOLEAN

(* VR(UR) is the first number missing: inside the window while PDUs are held, all
   of them above it and below VR(UH), and equal to VR(UH) otherwise. *)
UmWindowInv == IsWindow(vr_ur, vr_uh, DOMAIN rx_window)

(* What is held is waited for, and not for ever: while PDUs are held the reordering
   timer runs, for a VR(UX) above VR(UR) and not above VR(UH).  A reestablishment
   may leave it running for nothing. *)
HeldIsWaitedFor ==
    /\ DOMAIN rx_window # {} =>
          /\ reordering_running
          /\ RxModBase(vr_ur, vr_uh) < RxModBase(vr_ux, vr_uh)
          /\ RxModBase(vr_ux, vr_uh) <= UM_WINDOW
    /\ DOMAIN rx_window = {} /\ reordering_running => vr_ux = vr_ur
==============================================================================
