------------------------------- MODULE RlcAmTx -------------------------------
(***************************************************************************)
(* The transmitting half of an LTE acknowledged-mode RLC entity:           *)
(* rlc_am_lte::rlc_am_lte_tx in lib/src/upper/rlc_am_lte.cc (its STATUS    *)
(* PDUs are in RlcAmRx, whose state they read).                            *)
(*                                                                         *)
(* write_sdu runs on the stack thread and takes no lock; read_pdu runs on  *)
(* a PHY worker, handle_control_pdu and the timer callback on the stack    *)
(* thread, each in one critical section, hence one action each.  The poll  *)
(* timer is marked expired before its callback gets the mutex: a read_pdu  *)
(* may come in between.                                                    *)
(*                                                                         *)
(* A grant is counted in bytes of payload that fit behind the fixed header *)
(* of a PDU; a segment's longer header leaves SegHdr bytes less.  The room *)
(* that the LI fields of a concatenated PDU take is left open.             *)
(***************************************************************************)
EXTENDS RlcAmSn, Sequences, SequencesExt, FiniteSets

CONSTANTS
    QueueLen,           \* tx_queue_length
    PollPdu,            \* poll_pdu, 0: poll every PollPeriod-th PDU
    PollPeriod,         \* poll_periodicity (8 in the code)
    MaxRetx,            \* max_retx_thresh
    SegHdr,             \* what a segment header takes beyond a PDU header
    RetxCap             \* bound: retransmissions queued when the poll timer expires

ASSUME TxAssumption ==
    /\ QueueLen \in Nat \ {0} /\ MaxRetx \in Nat \ {0}
    /\ PollPdu \in Nat /\ PollPeriod \in Nat \ {0} /\ SegHdr \in Nat
    /\ RetxCap \in Nat \ {0}

VARIABLES
    accepted,           \* SDUs write_sdu has accepted: 1, 2, ..., accepted
    tx_sdu_queue,       \* their numbers, waiting
    tx_sdu,             \* bytes left of the SDU being sent
    tx_window,          \* SN -> [data, retx_count]
    retx_queue,         \* sequence of [sn, is_segment, so_start, so_end]
    vt_a, vt_ms, vt_s,  \* transmit state variables
    pdu_without_poll,
    poll_retx_timer,    \* "stopped", "running" or "expired"
    poll_callback,      \* the timer's callback waits for the mutex
    max_retx_attempted, \* rrc->max_retx_attempted was called
    pdu_list            \* data PDUs at the MAC, not yet at the peer

tx_vars == <<accepted, tx_sdu_queue, tx_sdu, tx_window, retx_queue, vt_a, vt_ms,
             vt_s, pdu_without_poll, poll_retx_timer, poll_callback,
             max_retx_attempted, pdu_list>>

TxInit ==
    /\ accepted = 0
    /\ tx_sdu_queue = << >> /\ tx_sdu = << >>
    /\ tx_window = << >> /\ retx_queue = << >>
    /\ vt_a = 0 /\ vt_s = 0 /\ vt_ms = RLC_AM_WINDOW_SIZE
    /\ pdu_without_poll = 0
    /\ poll_retx_timer = "stopped" /\ poll_callback = FALSE
    /\ max_retx_attempted = FALSE
    /\ pdu_list = << >>

TxBase(x) == ModBase(x, vt_a)

(* write_sdu of an SDU that try_write accepts; one that finds the queue full is
   dropped and changes nothing. *)
WriteSdu ==
    /\ accepted < MaxSdus
    /\ Len(tx_sdu_queue) < QueueLen
    /\ accepted' = accepted + 1
    /\ tx_sdu_queue' = Append(tx_sdu_queue, accepted + 1)
    /\ UNCHANGED <<tx_sdu, tx_window, retx_queue, vt_a, vt_ms, vt_s,
                   pdu_without_poll, poll_retx_timer, poll_callback,
                   max_retx_attempted, pdu_list>>

------------------------------------------------------------------------------
(* read_pdu *)

TxWindowFull == Cardinality(DOMAIN tx_window) >= RLC_AM_WINDOW_SIZE

WholeRetx(sn) == [sn |-> sn, is_segment |-> FALSE,
                  so_start |-> 0, so_end |-> Len(tx_window[sn].data)]

\* retransmit_random_pdu: the retx_queues it may leave
RandomRetx == IF DOMAIN tx_window = {} THEN {retx_queue}
              ELSE {Append(retx_queue, WholeRetx(sn)) : sn \in DOMAIN tx_window}

\* poll_required, given the counter, the timer and the queues as they stand
PollRequired(without_poll, timer, sdus, retxs) ==
    \/ PollPdu > 0 /\ without_poll > PollPdu
    \/ timer = "expired"
    \/ TxWindowFull
    \/ sdus = << >> /\ retxs = << >>
    \/ PollPdu = 0 /\ vt_s % PollPeriod = 0

\* Set poll bit: the counter only counts for a PollPdu
CountAfter(poll, without_poll) == IF poll \/ PollPdu = 0 THEN 0 ELSE without_poll
TimerAfter(poll, timer) == IF poll THEN "running" ELSE timer

(* build_data_pdu with a grant of g bytes.  The SDU that goes first fills the
   PDU as far as it can, more SDUs follow as far as their LIs leave room. *)
BuildDataPdu(g, retxs, without_poll, timer) ==
    LET pending == Pending(tx_sdu, tx_sdu_queue)
        first   == IF tx_sdu # << >> THEN Len(tx_sdu) ELSE SduLen
    IN /\ pending # << >>
       /\ tx_sdu # << >> \/ ~TxWindowFull
       /\ retx_queue' = retxs
       /\ \E n \in 1..g :
            /\ n <= Len(pending)
            /\ n = g \/ n >= first
            /\ LET data == SubSeq(pending, 1, n)
                   id   == data[n][1]
                   k    == data[n][2]
                   left == LeftOf(tx_sdu_queue, id)
                   poll == PollRequired(without_poll + 1, timer, left, retxs)
               IN /\ tx_sdu' = Rest(id, k)
                  /\ tx_sdu_queue' = left
                  /\ pdu_without_poll' = CountAfter(poll, without_poll + 1)
                  /\ poll_retx_timer' = TimerAfter(poll, timer)
                  /\ vt_s' = Inc(vt_s)
                  /\ tx_window' = [s \in DOMAIN tx_window \cup {vt_s} |->
                                      IF s = vt_s THEN [data |-> data, retx_count |-> 0]
                                      ELSE tx_window[s]]
                  /\ pdu_list' = Append(pdu_list,
                        [sn |-> vt_s, p |-> poll, rf |-> FALSE,
                         so |-> 0, lsf |-> FALSE, data |-> data])
       /\ UNCHANGED <<accepted, vt_a, vt_ms, poll_callback, max_retx_attempted>>

(* build_data_pdu has nothing to send, or no room in the window for it *)
NoDataPdu(retxs, without_poll, timer) ==
    /\ tx_sdu = << >>
    /\ tx_sdu_queue = << >> \/ TxWindowFull
    /\ retx_queue' = retxs
    /\ pdu_without_poll' = without_poll
    /\ poll_retx_timer' = timer
    /\ UNCHANGED <<accepted, tx_sdu_queue, tx_sdu, tx_window, vt_a, vt_ms, vt_s,
                   poll_callback, max_retx_attempted, pdu_list>>

DataPart(g, retxs, without_poll, timer) ==
    \/ BuildDataPdu(g, retxs, without_poll, timer)
    \/ NoDataPdu(retxs, without_poll, timer)

(* build_retx_pdu, the whole PDU fits.  The poll is decided while the PDU is
   still in retx_queue. *)
RetxWhole(retxs) ==
    LET sn   == Head(retxs).sn
        data == tx_window[sn].data
        poll == PollRequired(pdu_without_poll + 1, poll_retx_timer, tx_sdu_queue, retxs)
        more == tx_window[sn].retx_count + 1
    IN /\ retx_queue' = Tail(retxs)
       /\ pdu_without_poll' = CountAfter(poll, pdu_without_poll + 1)
       /\ poll_retx_timer' = TimerAfter(poll, poll_retx_timer)
       /\ tx_window' = [tx_window EXCEPT ![sn].retx_count =
                           IF more > MaxRetx THEN MaxRetx ELSE more]
       /\ max_retx_attempted' = (max_retx_attempted \/ more >= MaxRetx)
       /\ pdu_list' = Append(pdu_list, [sn |-> sn, p |-> poll, rf |-> FALSE,
                                        so |-> 0, lsf |-> FALSE, data |-> data])
       /\ UNCHANGED <<accepted, tx_sdu_queue, tx_sdu, vt_a, vt_ms, vt_s, poll_callback>>

(* build_segment with room for `room` bytes of the PDU *)
RetxSegment(retxs, room) ==
    LET retx == Head(retxs)
        data == tx_window[retx.sn].data
        poll == PollRequired(pdu_without_poll + 1, poll_retx_timer, tx_sdu_queue, retxs)
        end  == IF room < retx.so_end - retx.so_start
                THEN retx.so_start + room ELSE retx.so_end
    IN /\ retx_queue' = IF end \in {Len(data), retx.so_end} THEN Tail(retxs)
                        ELSE << [retx EXCEPT !.is_segment = TRUE, !.so_start = end] >>
                             \o Tail(retxs)
       /\ pdu_without_poll' = CountAfter(poll, pdu_without_poll + 1)
       /\ poll_retx_timer' = TimerAfter(poll, poll_retx_timer)
       /\ pdu_list' = Append(pdu_list,
             [sn |-> retx.sn, p |-> poll, rf |-> TRUE, so |-> retx.so_start,
              lsf |-> end = Len(data), data |-> SubSeq(data, retx.so_start + 1, end)])
       /\ UNCHANGED <<accepted, tx_sdu_queue, tx_sdu, tx_window, vt_a, vt_ms, vt_s,
                      poll_callback, max_retx_attempted>>

(* build_segment of a grant that its header fills: nothing is sent, but the poll
   has been decided and the timer re-armed; build_data_pdu has the grant. *)
RetxNoRoom(retxs, g) ==
    LET poll == PollRequired(pdu_without_poll + 1, poll_retx_timer, tx_sdu_queue, retxs)
    IN DataPart(g, retxs, CountAfter(poll, pdu_without_poll + 1),
                TimerAfter(poll, poll_retx_timer))

\* build_retx_pdu first drops the front of the queue up to a PDU still in the window
DropAcked(retxs) ==
    LET live == {i \in 1..Len(retxs) : retxs[i].sn \in DOMAIN tx_window}
    IN IF live = {} THEN << >>
       ELSE SubSeq(retxs, CHOOSE i \in live : \A j \in live : i <= j, Len(retxs))

\* "if tx_window is full and retx_queue empty, retransmit random PDU"
RetxAtGrant == IF TxWindowFull /\ retx_queue = << >> THEN RandomRetx ELSE {retx_queue}

ReadPdu(g) ==
    \E q \in RetxAtGrant :
        LET retxs == DropAcked(q)
            retx  == Head(retxs)
            whole == ~retx.is_segment /\ Len(tx_window[retx.sn].data) <= g
        IN \/ retxs # << >> /\ whole /\ RetxWhole(retxs)
           \/ retxs # << >> /\ ~whole /\ g > SegHdr /\ RetxSegment(retxs, g - SegHdr)
           \/ retxs # << >> /\ ~whole /\ g <= SegHdr /\ RetxNoRoom(retxs, g)
           \/ retxs = << >> /\ DataPart(g, retxs, pdu_without_poll, poll_retx_timer)

------------------------------------------------------------------------------
(* handle_control_pdu.  A flushed retx_queue holds no number twice, so
   retx_queue_has_sn never keeps one out. *)

\* (faulty) ACK_SN itself taken as acknowledged
CoveredInclusive(ack_sn) ==
    {i \in SN : TxBase(i) <= TxBase(ack_sn) /\ TxBase(i) < TxBase(vt_s)}

\* The numbers the loop visits, from vt_a up to ACK_SN or vt_s.
Covered(ack_sn) == {i \in SN : TxBase(i) < TxBase(ack_sn) /\ TxBase(i) < TxBase(vt_s)}

\* (faulty) update_vt_a not reset by a NACK
AckedPastNack(covered, nacked) == (covered \cap DOMAIN tx_window) \ nacked

\* Those it erases: up to the first NACK (update_vt_a).
Acked(covered, nacked) ==
    {i \in covered \cap DOMAIN tx_window : \A j \in nacked : TxBase(i) < TxBase(j)}

\* The order in which the loop meets the numbers of S.
InOrder(S) ==
    [n \in 1..Cardinality(S) |->
        CHOOSE i \in S : Cardinality({j \in S : TxBase(j) < TxBase(i)}) = n - 1]

HandleControlPdu(status) ==
    LET covered == Covered(status.ack_sn)
        nacked  == covered \cap status.nacks
        acked   == Acked(covered, nacked)
        again   == InOrder(nacked \cap DOMAIN tx_window)
        kept    == IF status.nacks # {} THEN << >> ELSE retx_queue
    IN /\ poll_retx_timer' = IF poll_retx_timer = "running" THEN "stopped"
                             ELSE poll_retx_timer
       /\ retx_queue' = kept \o [n \in 1..Len(again) |-> WholeRetx(again[n])]
       /\ tx_window' = [i \in DOMAIN tx_window \ acked |-> tx_window[i]]
       /\ vt_a' = (vt_a + Cardinality(acked)) % MOD
       /\ vt_ms' = (vt_ms + Cardinality(acked)) % MOD
       /\ UNCHANGED <<accepted, tx_sdu_queue, tx_sdu, vt_s, pdu_without_poll,
                      poll_callback, max_retx_attempted, pdu_list>>

------------------------------------------------------------------------------
(* The poll timer: step_all marks it expired, then calls timer_expired. *)
PollRetxExpires ==
    /\ poll_retx_timer = "running" /\ ~poll_callback
    /\ Len(retx_queue) < RetxCap
    /\ poll_retx_timer' = "expired"
    /\ poll_callback' = TRUE
    /\ UNCHANGED <<accepted, tx_sdu_queue, tx_sdu, tx_window, retx_queue, vt_a, vt_ms,
                   vt_s, pdu_without_poll, max_retx_attempted, pdu_list>>

PollRetxCallback ==
    /\ poll_callback
    /\ poll_callback' = FALSE
    /\ LET idle == retx_queue = << >> /\ tx_sdu_queue = << >>
       IN retx_queue' \in IF idle \/ TxWindowFull THEN RandomRetx ELSE {retx_queue}
    /\ UNCHANGED <<accepted, tx_sdu_queue, tx_sdu, tx_window, vt_a, vt_ms, vt_s,
                   pdu_without_poll, poll_retx_timer, max_retx_attempted, pdu_list>>

------------------------------------------------------------------------------
\* The transmitter's variables have the types of rlc_am_lte_tx's members.
TxTypeOK ==
    /\ accepted \in 0..MaxSdus
    /\ tx_sdu_queue \in Seq(1..MaxSdus)
    /\ tx_sdu \in Seq((1..MaxSdus) \X (1..SduLen))
    /\ DOMAIN tx_window \subseteq SN
    /\ \A s \in DOMAIN tx_window : tx_window[s].retx_count \in 0..MaxRetx
    /\ \A n \in 1..Len(retx_queue) :
          /\ retx_queue[n].sn \in SN
          /\ retx_queue[n].so_start \in Nat
          /\ retx_queue[n].so_end \in Nat
    /\ vt_a \in SN /\ vt_ms \in SN /\ vt_s \in SN
    /\ pdu_without_poll \in 0..PollPdu
    /\ poll_retx_timer \in {"stopped", "running", "expired"}
    /\ poll_callback \in BOOLEAN /\ max_retx_attempted \in BOOLEAN

(* tx_window holds exactly the numbers from vt_a up to vt_s, and vt_ms is a
   window above vt_a: an acknowledgement takes from the bottom, without holes. *)
TxWindowContiguous ==
    /\ DOMAIN tx_window = {s \in SN : TxBase(s) < TxBase(vt_s)}
    /\ vt_ms = (vt_a + RLC_AM_WINDOW_SIZE) % MOD
==============================================================================
