# A TLA+ verification project for srsRAN 20.10.1 with ETWS

The repository is a fork of srsRAN (`src/srsRAN`): a software LTE base station
(`srsenb`), a user equipment (`srsue`) and a core network (`srsepc`) over a
common library (`lib`), with an addition of its own, the broadcast of
earthquake and tsunami warnings (ETWS, SIB10) from the base station. This
directory holds TLA+ models of the parts whose correctness depends on the order
of events, the TLC runs that check them on small instances and the theorems
TLAPS proves about them.

Paths below are relative to `src/srsRAN/`.

## 1. Inventory

### Threads and how the parts meet

All programs have the same skeleton. A *stack thread* owns RRC, NAS, S1AP, PDCP
and the control side of MAC and RLC; other threads hand it closures through a
`multiqueue_handler`, and it calls `timer_handler::step_all` once per TTI. A
pool of *PHY workers* (three by default) each processes one TTI; a worker calls
straight into MAC, and through it into RLC (`read_pdu`) and, at the base
station, into RRC (`is_paging_opportunity`, `read_pdu_pcch`); at the UE it runs
part of the random-access procedure (`ra_proc::tb_decoded_ok`). The base station
has one *socket thread* (`rx_multisocket_handler`) that reads the sockets of
S1AP and GTP-U and enqueues what it reads; the stack thread registers sockets
with it under `socket_mutex` and a pipe. The *main thread* stops all of them. So
the state shared between threads is: RLC entities (one mutex per half of AM, the
receiver of UM), the timer handler (one mutex, partly used), the scheduler
(`sched_mutex`), the MAC's user map (a rwlock), the paging records
(`paging_mutex`), the UE's `ra_proc` (no lock but for its configuration), the
socket thread's tables (`socket_mutex`), RRC's queue of PDUs and commands, and
the task queues themselves.

### Components, their state and what makes them correct

| component | state | operations | correct when |
|---|---|---|---|
| RLC AM (`lib/src/upper/rlc_am_lte.cc`) | transmit window, retransmission queue, VT(A), VT(MS), VT(S), poll state; receive window, segments, VR(R), VR(MR), VR(X), VR(MS), VR(H), status flags; three timers | `write_sdu`, `read_pdu`, `write_pdu`, timer expiries, `stop`, `reestablish` | SDUs come out whole, once, in order; nothing is erased unacknowledged; a full window does not block for ever |
| RLC UM (`rlc_um_*.cc`) | VT(US), the SDU being sent; VR(UR), VR(UH), VR(UX), the PDUs held back, the SDU being put together, reordering timer | `write_sdu`, `read_pdu`, `write_pdu`, timer expiry, `reestablish` | SDUs come out whole, in order and never twice; only what was lost is missing; nothing is held back for ever |
| RLC TM, AM NR (`rlc_tm.cc`, `rlc_am_nr.cc`) | a queue | write, read | a queue and a stub |
| RLC bearer map (`rlc.cc`) | bearers under a rwlock | add, delete, suspend, resume | no PDU of a suspended bearer is taken or lost |
| PDCP (`pdcp_entity_lte.cc`, `pdcp_entity_nr.cc`) | COUNT of each direction, keys, NR reordering buffer | write, receive, `reestablish`, status transfer | the COUNT of both ends agrees across wrap and handover |
| timers (`lib/include/srslte/common/timers.h`) | `timer_list`, a priority queue of runs, the tick | `get_unique_timer`, `set`, `run`, `stop`, `clear`, `step_all` | each callback at its tick, once, never after `stop` |
| task queues (`multiqueue.h`, `task_scheduler.h`) | queues with capacities, `spin_idx`, count of waiting threads, condition variables | `push`, `try_push`, `wait_pop`, `reset` | no wake-up is lost, queues are served in turn, a reset ends and destroys nothing under a waiter |
| thread pool (`thread_pool.cc`, `tti_sempahore.h`) | worker states, FIFO of TTIs | push, start, finish, stop | TTIs are transmitted in order; stopping terminates |
| eNB stack and sockets (`enb_stack_lte.cc`, `network_utils.cc`, `enb.cc`) | the task being run, registered sockets, what `select` returned | tasks, registration, reading, stop | every open socket is read, S1 comes back after a loss, the eNB can be stopped |
| procedures and FSMs (`stack_procedure.h`, `fsm.h`) | one procedure's state and result | launch, step, react | a procedure completes once and its result is seen once |
| eNB broadcast, paging and ETWS (`srsenb/src/stack/rrc/rrc.cc`, `scheduler_carrier.cc`) | paging records, the assembled PCCH message, SI windows | `add_paging_id`, `is_paging_opportunity`, `read_pdu_pcch`, `bc_sched::dl_sched` | a page goes out at the UE's paging opportunity on every carrier; every SI message goes out in its window |
| eNB MAC scheduler (`srsenb/src/stack/mac/scheduler*.cc`) | PDCCH and PRB masks, HARQ processes, pending RARs, per-UE buffers | one result per TTI and carrier | no overlapping allocation; HARQ processes not reused while pending; RARs inside their window |
| eNB MAC (`mac.cc`, `ue.cc`) | user map, RNTI counter, contention identity of a user | RACH, Msg3, C-RNTI element, UE add and remove | an RNTI has one user; no use after removal |
| eNB RRC (`rrc_ue.cc`, `rrc_mobility.cc`, `rrc_bearer_cfg.cc`) | per-UE connection state, activity timer, handover FSM | connection setup, reestablishment, reconfiguration, release, handover | RRC, MAC, RLC, PDCP, GTP-U and S1AP agree on which UEs exist |
| eNB S1AP (`s1ap.cc`) | UE contexts by RNTI and by S1 id, S1 connection procedure, relocation timer | S1 setup, NAS transport, context setup and release, handover messages | contexts are unique and released once |
| eNB GTP-U (`gtpu.cc`) | tunnels per RNTI and bearer, forwarding tunnels | add, remove, forward, end marker | no packet before the end marker is overtaken |
| UE MAC (`srsue/src/stack/mac`) | random-access FSM, RNTIs, Msg3 buffer, HARQ entities, BSR and SR state | per-TTI steps, grants, RARs, contention resolution, reset | random access ends, with an RNTI no other UE has; a HARQ process delivers once |
| UE RRC, NAS (`srsue/src/stack`) | connection procedures, cell list, EMM state | procedures and timers | a procedure interrupted by another ends |
| MME, SPGW, HSS (`srsepc/src`) | EMM, ECM and GTP-C contexts, paging queue | attach, service request, detach, DDN | MME and SPGW agree on bearers |
| codecs, security, PHY signal processing, drivers, logging | - | pure functions, I/O | not a question of the order of events |

`PROJECT.json` lists all of them with their status.

### Which behaviours are hard

- *interleaving*: PHY workers and the stack thread meet in the RLC entity, in the
  timers, in the paging buffer and in the UE's random access, and several of these
  meetings are two critical sections long or have no lock at all;
- *blocking*: pushes into full queues, `wait_pop`, the semaphore of the TTIs,
  `socket_mutex` and the joins of a stop can wait for one another;
- *ordering and loss*: the MAC drops, repeats and reorders RLC PDUs; the air loses
  each message of random access; the MME shuts associations down;
- *timeouts*: a timer's callback runs after the timer was marked expired and
  before its owner's mutex is taken;
- *wrap-around*: sequence numbers, ticks, TTIs and COUNTs;
- *limits*: the windows, the queue of SDUs, the retransmission queue, the paging
  list, the task queues, the scheduler's masks;
- *failure of one step of several*: an allocation that fails after the record it
  is for was removed.

The hazards, each at its line and with the properties that watch it, are listed
in `PROJECT.json`.

## 2. Plan

Order: what carries every bit first (RLC AM and the timers it lives on), then
what this fork adds (ETWS: paging and system information), then outwards: the
other bearers, the queues that hold the stack together, the way into the cell.

Done:

1. `RlcSdu`, `RlcAmSn`, `RlcAmTx`, `RlcAmRx`, `RlcAm`, with the service
   `ReliableDelivery`; proofs `RlcSduProofs`, `RlcAmProofs` (section 3).
2. `Timers`, with the service `AlarmClock`; proofs `TimersProofs` (section 4).
3. `PhyWorkers`, `Paging`, `BcSched`, composed in `Broadcast`; proofs
   `BroadcastProofs` (section 5).
4. `RlcUmSn`, `RlcUmTx`, `RlcUmRx`, `PdcpLte`, composed in `UmBearer`, with the
   service `LossyDelivery`; proofs `UmBearerProofs` (section 6).
5. `MultiQueue`, with the service `BlockingQueues`; proofs `MultiQueueProofs`.
   `S1Setup` and `EnbStack`, which uses the queues by what they promise; proofs
   `EnbStackProofs` (section 7).
6. `RaProc`, `RaSched`, composed in `RandomAccess`; proofs `RandomAccessProofs`
   (section 8).

Next, in this order:

7. RNTI life cycle: MAC user map under its rwlock, `phy::rem_rnti` on
   `PhyWorkers`, RRC connection setup and release, S1AP contexts; service: all
   layers agree which UEs exist once the queues are empty. `RandomAccess` ends
   where it begins.
8. RLC AM: `stop` and `reestablish` as actions of both halves, the poll timer's
   re-arming race of `Timers` inside `RlcAm`, the LI fields of resegmented PDUs.
9. HARQ processes of the scheduler and of the UE against "delivered once".
10. Handover: `rrc_mobility`, status transfer of PDCP bearers on RLC AM, the
    forwarding tunnels of GTP-U and their end markers.
11. NAS against the MME; SPGW downlink notifications.

## 3. RLC acknowledged mode

`RlcAmTx` is `rlc_am_lte_tx`, `RlcAmRx` is `rlc_am_lte_rx`; every variable has the
member's name. An SDU is a sequence of bytes `<<id, n>>`, a PDU is the bytes it
carries with its sequence number, poll bit and, for a segment, offset and last
segment flag, so loss, duplication and mixing are visible in what is delivered.
`RlcSdu` has what both RLC modes do with SDUs when they build a PDU: the bytes
that wait, and what is left of them.
`RlcAm` joins one transmitter to one receiver over two channels and schedules:

| action | code |
|---|---|
| `Write` | `write_sdu` |
| `Read(g)` | one `read_pdu` with a grant of `g` bytes: retransmission, segment or new data |
| `GetStatus`, `SendStatus` | the two critical sections of `build_status_pdu`, between which a PDU may be written |
| `Deliver`, `Duplicate`, `Overtake`, `Lose` | `write_pdu` of a data PDU, and the MAC's faults (external) |
| `DeliverStatus`, `DuplicateStatus`, `LoseStatus` | `handle_control_pdu` and the same faults; a later STATUS PDU may be taken first |
| `PollExpires`, `PollCallback` | the poll timer is marked expired by `step_all`; its callback runs later |
| `Reordering`, `ProhibitExpires` | the receiver's two timers |

The peer of each half is the other half of the same code, so inputs are those the
program can send. Two assumptions about the MAC: it does not hold a PDU back
beyond one that a window lets through (`Overtake`, from HARQ retransmission), and
it does not corrupt.

| run | instance | question |
|---|---|---|
| `am_wrap` | 4 numbers, window 2, 5 SDUs, every fault | windows, acknowledgement, refinement of `ReliableDelivery` while numbers are reused |
| `am_split` | 8 numbers, window 4, three SDUs of two bytes, grants of three and four bytes, PDUs and STATUS PDUs lost | SDUs split over PDUs; PDUs of three and four bytes sent again in segments of one and two, with cuts that change and overlap, and put together; no hole in the transmit window with three PDUs outstanding |
| `am_live` | window 2, STATUS PDUs lost, grants of one and two bytes | every accepted SDU is delivered, also when a grant leaves no room for the header of a segment |

The bounds: `MOD` is twice the window as in the code (1024 and 512), and the
arithmetic depends on their ratio only, so that small numbers meet every relation
of the edges; `MaxSdus` is above `MOD` in `am_wrap`, so numbers come back, and
above the window in `am_live`, so it has to move; channels of one or two PDUs are
enough for one to be overtaken or duplicated across a change of the window (in
`am_split`, where the channel holds one, PDUs sent again arrive after later ones);
`RetxCap` bounds `retx_queue`, which has no bound in the code. No run reorders
STATUS PDUs, because of the divergence in section 9, and `am_live` loses no data
PDU, because of the one after it. No run has segments and numbers that come round
again at once (hazard of `rlc_am_lte.cc:1549`): that is beyond TLC's reach, and the
proofs, which hold for every SDU length and number space, speak of it.

*Fairness* (`am_live`): the stack thread runs its timers and hands over what
arrives (weak); the MAC grants while `get_buffer_state` is not zero, and not too little
for ever (weak, for each size of grant); a
channel that is used again and again delivers again and again (strong), which
HARQ aims at and no liveness is possible without.

*Proved*, the receiver alone (`RlcAmProofs`), for every `MOD`, window and SDU
length and whatever data PDUs the peer sends: the receiver's types, `RxWindowInv`
(the edges VR(R), VR(MS), VR(H), VR(MR) keep their order on the circle and
nothing is held outside the window) and `ReorderingInv` (VR(X) is above VR(R) and
not above VR(H) while the timer runs). The inductive invariant is the conjunction
of the three: the order of the edges needs the place of VR(X), because the
timer's expiry moves VR(MS) to it, and the place of VR(X) needs the order of the
edges, because VR(R) moves under it. The lemmas turn the remainders into
distances from an edge. Assumption: `SnAssumption` (two windows fit into `MOD`).

*Proved*, the bearer (`RlcAmProofs`), for every instance of the constants:
- `TypeOK`; the receiver's two invariants in composition; `VrMsNeverBack`. What
  they need is that every PDU of the transmitter is well formed, also one built
  from parts of two SDUs, resegmented or sent from a retransmission queue that
  names a number acknowledged since (`AmTypes`).
- `TxWindowContiguous`, in behaviours whose PDUs in flight never fill the circle
  of numbers (`WindowFits`). The number of entries of `tx_window` is the distance
  from `vt_a` to `vt_s`; a STATUS PDU, however old, erases a prefix.
- `WindowsAgree`, in behaviours where the transmitter keeps to its window
  (`WithinWindow`) and with STATUS PDUs in order. The inductive invariant
  (`Agreed`) counts PDUs without bound, a sequence number being a count modulo
  `MOD`: VT(A), VR(R), VR(H) and VT(S) stand for counts in this order, at most a
  window apart (`Edges`); a data PDU on its way, and the place of VT(S) when it was
  sent, are at most a window behind VR(H), the overtaken one too (`Sent`); a
  STATUS PDU was made when VR(R) stood for a count `k` between VT(A) and VR(R),
  and acknowledges nothing above `k` or names `k` as missing, and those sent later
  were made at higher counts (`Reported`). From the order of the counts follows
  that the distances the code computes are the true ones.
- `NothingForgotten` and `ServiceSpec`, the refinement of `ReliableDelivery`, under
  the same two hypotheses. All SDUs are one stream of bytes, and the inductive
  invariant (`DataInv`) gives every copy of a byte its place in it: the queue and
  what is left of the SDU being cut are the end of the stream (`SduStream`); the
  PDUs of `tx_window` follow one another up to there (`WindowStream`); reassembly
  and what it handed over are everything before the PDU that VR(R) waits for
  (`RxStream`); a PDU or segment in flight, in the receive window or among the
  segments held is what its number stands for, or a part of it (`InFlight`,
  `Held`). The retransmission queue needs a part of its own (`QueueOk`): an entry
  says how far the PDU reaches, and one that is overtaken by an acknowledgement
  stays in the queue, so it must be gone before its number stands for another
  PDU; it is, because entries are at most a window apart in age and reading
  drops the stale ones at the head. What the sequence numbers stand for is what
  `Agreed` says (`Numbers`). With `DataInv` no byte is lost: those before VR(R)
  are handed over or in reassembly, the others in `tx_window` or in the queue.
  And a step that moves VR(R) hands over what reassembly completes: the next
  SDUs of the stream, whole.
- That `WithinWindow` holds of every behaviour when SDUs are not split
  (`OneByteWindow`), and with it the agreement of the windows
  (`OneByteWindowsAgree`), `NothingForgotten` and the service (`OneByteService`)
  without a hypothesis on behaviours, which is the instance of `am_wrap`.

Reassembly is a fold over the PDUs from VR(R) on. What a fold computes is in
general induction over data; here the proof needs only that its value at each
position is the step applied to the one before (`FoldExists`, from the definition
of `MapThenFoldSet` and induction over `1..n` by the least counterexample). This
and the lemmas about the stream of bytes are in `RlcSduProofs`, for both modes.

The hypotheses are what the code needs: with an SDU partly sent, `build_data_pdu`
(`rlc_am_lte.cc:799`) does not look at the window, the end of that SDU may share
its PDU with the beginning of the next, and so on: nothing bounds the window. And
a STATUS PDU that is overtaken erases what was not acknowledged (section 9).
In `am_split`, where SDUs are split, every PDU holds the end of an SDU, so there are
no more than three, and every behaviour meets the hypothesis. `EverythingDelivered` is
model-checked.

## 4. Timers

`Timers` is `timer_handler`: `timer_list` as functions, the priority queue as the
set of its entries with the operator `<` of the code, `step_all` as a scan whose
steps are the iterations (`Discard`, `PopDue`, `Finish`) and the call of the
callback outside the mutex (`Trigger`, `CallbackReturns`). The stack thread may
use any timer between ticks and in callbacks; a PHY worker runs a timer of its
own in two steps, the decision and `run()`.

`timers_phy_guarded`: two timers, durations 1 and 3, six ticks: enough for a
timer to be run again, stopped, released and recycled while its old entries are
queued. It refines `AlarmClock` (a callback at each deadline, never missed), the
PHY worker asking `is_running()` first, as RLC does for `status_prohibit_timer`.

*Proved* (`TimersProofs`): `QueueCovers`, for any number of timers, with the wrap
of ticks, and for a PHY worker that asks or does not ask. The inductive invariant
adds that a free timer is not running and that the PHY worker's timer is active.
Assumption: `TimersAssumption` (durations `set` accepts).

*Proved* too: that `Timers` implements `AlarmClock` (`ClockSpecHolds`), if the PHY
worker asks (`PhyGuarded`) and under `TimeFits`: the ticks and timeouts do not
wrap, and no duration is exactly `MAX_TIMER_DURATION`. Without either the code is
wrong (section 9, `timers.h:246`, `236` and `76`). `ClockInv` keeps that no entry of
the queue, of whatever run, is behind the present tick, or at it between two ticks,
or so far ahead that `operator<` fails; so the top of the queue is an earliest
entry (`TopIsEarliest`), and when `step_all` ends at a top that is not due nothing
is. The timer that is being triggered is running and at its timeout, because the PHY
worker is only ever about to run one that is not running (`PhyTimerStill`).

## 5. Broadcast: paging, system information, ETWS

`PhyWorkers` is the receive loop (`txrx::run_thread`), the `thread_pool` and the
`tti_semaphore`; `Paging` the three functions of RRC; `BcSched` what `bc_sched`
makes of an SI message's state in a TTI. `Broadcast` composes them the way the
calls go: a worker that has a TTI takes `sched_mutex` and has every carrier
scheduled (`SchedCarrier`, with `ClearBuffer` and `PackMessage` for the part of
`is_paging_opportunity` that runs without `paging_mutex`), then copies the message
for each carrier (`ReadPduPcch`), encodes it from the carrier's shared buffer
(`EncodePdsch`) and waits for its turn (`Transmit`). The core network adds pages
at any time. A page is the UE's identity index; every message that has a record
carries `etws_ind`, so what is shown of pages holds of the warning indication.
SIB10 is one of the SI messages from 1 on.

| run | instance | question |
|---|---|---|
| `paging` | two workers, two carriers, two UEs in one paging subframe, one record per message | pages kept, sent when the UE listens, not starved; the stop ends |
| `si_windows` | two workers, SIB1 and two SI messages, one UE, failing allocations | SI messages in their windows, TTIs in sequence, the stop drains |

The bounds: 10 or 20 TTIs instead of 10240 leave the arithmetic of frames and
subframes and let every period and window come round and wrap; two workers give
every order of two TTIs, and the order of transmission is proved for any number;
one record per message is the limit of 16 with two UEs. One paging subframe per
frame, so that two are further apart than the workers, because of the divergence
at `rrc.cc:425` (section 9). Allocations that fail are left out of `paging`
because the code loses the pages then (a hazard of the list).

*Fairness* (`paging`): every thread runs (weak). That is enough although
`sched_mutex` may be granted to another worker again and again, because a worker
that overtakes waits in `tti_semaphore` for the one that has not been scheduled.
Nobody is assumed to page or to stop the program.

*Proved* (`BroadcastProofs`), for any number of workers, carriers, UEs and SI
messages, with failing allocations:
- `TransmitInSequence`, `StopDrains`, and that `Broadcast` implements `PhyWorkers`
  alone (`PhySpec`). The inductive invariant `PhyInv`: the queue holds exactly the
  workers with work, each once; the TTIs along it lead from the one sent last to
  the one to start next; once the receive loop has ended and the queue is empty
  nothing is added.
- `PagedAtOpportunity`, where two TTIs with paging subframes are never worked on
  at the same time (`PagingSfsApart`). By `PhyInv` the TTIs worked on are
  consecutive, so at most one worker has one of a paging subframe
  (`OnePagingWorker`); `PagingInv` says that `byte_buf_paging` and the buffers of
  its carriers are then that worker's: a message for its TTI, whole from `pack` to
  the encoding. `FewOpportunitiesApart`: one paging subframe in a frame and up to
  ten workers, or two and up to five, are apart whatever the cycle. With four they
  are not, and the code is wrong (section 9, `rrc.cc:425`).
- `PageKept`, if besides the message always finds room (`~Collisions`): when
  `alloc_paging` fails, `rrc.cc:420` has erased the records.
- `SiInWindow`, if the frame number wraps with the periods (`PeriodsFit`: it does
  for the periods of 8 to 512 frames and 1024 frame numbers) and a window is
  longer than a subframe. `SiInv` keeps that an open window was opened where its
  message's offset says, so that a TTI that is scheduled late or early measures
  from there. `HasPassed` lets the subframe after the window through; only
  subframes 9 send, and none of them is a whole window after a start, but for
  windows of one subframe.
Assumptions: `PhyWorkersAssumption`, `PagingAssumption`, `BroadcastAssumption`.

## 6. A data bearer on RLC UM

`RlcUmTx` is `rlc_um_lte_tx` (segmentation and concatenation), `RlcUmRx` is
`rlc_um_lte_rx`, `PdcpLte` the COUNT of `pdcp_entity_lte` at both ends. `RlcUmSn`
has the arithmetic of the window, and the two loops of `reassemble_rx_sdus` as
what they compute (the first number that stops them). An SDU is a sequence of
bytes `<<id, n>>` as in section 3; a PDU says, as its header does, where SDUs
begin and end in it.

| action | code |
|---|---|
| `Write` | `pdcp_entity_lte::write_sdu` with `try_write_sdu`; an SDU that finds the queue full takes no number |
| `Read(g)` | `build_data_pdu` with a grant of `g` bytes |
| `Deliver`, `Duplicate`, `Overtake`, `Lose` | `handle_data_pdu`, up to `pdcp_entity_lte::write_pdu` of what it completes, and the MAC's faults (external) |
| `Reordering` | the expiry of `t_reordering`: `timer_expired` |
| `Reestablish` | the handover of both ends: PDCP entities first, then RLC entities |

| run | instance | question |
|---|---|---|
| `um_bearer` | 6 numbers, window 3, four SDUs of two bytes, 2 PDCP numbers, every fault | window and timer; `CountInSync`; nothing dropped that was received; refinement of `LossyDelivery` |
| `um_handover` (violation) | the same, reestablished while PDUs are held back | whether PDCP is at COUNT 0 afterwards |

The bounds: the window is half of the numbers as in the code; four SDUs in up to
eight PDUs wrap both the RLC numbers and, twice, the PDCP numbers; grants of one
to three bytes give PDUs that begin and end inside SDUs and PDUs of two SDUs. The
MAC lets a PDU be overtaken by one other and loses one in a row: with losses of a
whole cycle of numbers no receiver can tell them apart. One reestablishment, at a
moment when the reordering timer does not run (`ReestablishAnyTime = FALSE`),
because of the finding that `um_handover` shows. Liveness is `HeldIsWaitedFor`, a
state property: a PDU that is held has a running timer, and the timer handler
triggers it.

*Proved* (`UmBearerProofs`). First, `UmWindowInv` and `HeldIsWaitedFor`, for every
window size, of the receiver against any peer (`UmRxSafe`) and of the bearer
(`UmBearerSafe`, where the PDUs' numbers are those of the transmitter and every
fault of the MAC is one of the receiver's steps). Everything is said as a place
on the circle of numbers that begins at the lower edge of the window; a PDU above
the window moves the edge, and with it every place. The loops are proved by the
least number at which they stop. `HeldIsWaitedFor` is part of the
inductive invariant because VR(UX) has to be ahead of VR(UR) for the expiry to
stay inside the window. Assumption: `UmSnAssumption` (two windows are the
numbers).

Then what comes out: every step of the bearer is a step of `LossyDelivery`
(`UmImplementsService`), the bearer is well typed (`UmTypeCorrect`), and COUNT is
rebuilt (`CountsStayInSync`). A sequence number does not say which PDU it is, so the
invariant does: PDUs have places 0, 1, 2, ... in the order they were built, a number
is a place modulo `UM_MOD`, and there is a function F from places to bytes, the
first byte of the PDU at each place. `UmAt` says that the bearer is accounted for by
F and a few places: the sender goes on with byte F[S]; the PDUs in flight have the
places from N to S-1, without N+1 when that one has overtaken N;
VR(UH) and VR(UR) stand at H and R, at most a window apart; the window holds
the PDUs of the places in K; `rx_sdu` is empty or exactly the bytes of F[R]'s SDU
before F[R]; all that was delivered ends before F[R]. None of H, R, K, F, S, N is in
the code: the invariant says that some exist, and each action's lemma names the
next ones. The lemmas about the two loops of `reassemble_rx_sdus` go segment by
segment (`EdgeSegments`, `LineSegments`), PDU by PDU (`LowerEdgePdu`,
`InSequencePdu`) and number by number (`PassEdge`, `PassLine`), each with the same
statement `Good`: what is left of an SDU is its beginning, and what goes out are
whole SDUs in order. The hypothesis of these theorems is `FewLost`: one more
than the PDUs that may be lost in a row is less than a window. With more, a PDU sent
after them has a number that the receiver takes for an old one, and TLC shows the
service broken; the instance that is checked has one loss and a window of three.

COUNT adds to `UmAt` that the receiving PDCP entity stands right after the COUNT of
the last SDU it delivered, as long as nowhere before it a whole round of PDCP numbers
was missing, which is what `CountInSync` excepts. The theorem also assumes that a reestablishment comes at a
moment when the reordering timer does not run, for `um_handover` shows that otherwise
it does not hold.

Last, that only what is lost is lost (`UmOnlyTheLostIsLost`, under the same two
hypotheses). `UmImplementsService` would hold of a receiver that delivers nothing;
this theorem says that an SDU comes out when all its bytes have arrived and the
window is empty, except where `OnlyTheLostIsLost` says that the code drops it
(section 9). The state says nothing of the PDUs that are gone, so `Reached` adds to
`UmAt` what became of each place. Every byte has a position in the stream (`Pos`), a
PDU holds the bytes from F[c] to before F[c + 1] (`DataIsBetween`), and of a PDU
either all bytes have arrived or not even its first (`ArrivedAt`). `Progress` is the
induction hypothesis of both loops of `reassemble_rx_sdus` at place x: of the SDUs
that end below x all are out that arrived whole and are near an SDU that is out
(`Done`); what arrived of the SDU that x goes on with is in `rx_sdu`; `pdu_lost` is
only set while every SDU out is a cycle of numbers back (`FarOff`); and
`vr_ur_in_rx_sdu` is the number of a place whose PDU does not end before the last SDU
out (`InAt`). The last two are what the check at 395 and `pdu_belongs_to_rx_sdu` read.
In an expiry the second loop runs over places where nothing arrived (`Gap`) before it
finds a PDU again; there `pdu_belongs_to_rx_sdu` can take a number for that of the
PDU before only if it is as old as a whole cycle, and by then the SDUs out are far
off. `SettledAt` keeps the answer for the SDUs written before a reestablishment: no
byte of theirs arrives any more. The last step is that with an empty window VR(UR) is
VR(UH), so every place that something arrived of lies below it.

## 7. Task queues and the threads of the base station's stack

`MultiQueue` is `multiqueue_handler`: a queue is a sequence of tasks with its
capacity, `pc` says where each thread is in the code, and the condition variables
are the sets of the threads that wait there.

| action | code |
|---|---|
| `Push`, `WakeFromFull`, `TryPush`, `NotifyEmpty` | `push` and `try_push`: blocked on `cv_full` or accepted, then `cv_empty.notify_one` without the mutex |
| `WaitPop`, `WakeFromEmpty`, `NotifyFull` | `wait_pop`: blocked on `cv_empty`, or the next task from `spin_idx` on, then `cv_full.notify_one` without the mutex |
| `Reset`, `WakeFromExit` | `reset`: stop, notify all, wait on `cv_exit` until nobody is counted, clear |
| `SpuriousWakeUp` | a condition variable may wake a thread by itself |

It implements `BlockingQueues`, the promise the rest of the stack relies on: a
push is accepted once and in order, blocks only while there is no room, is
dropped once the queues are stopped; tasks are taken in turn.

`EnbStack` puts the threads of `srsenb` on top of that promise: the stack thread
(`InitialLaunch`, `AddMmeSocket`, `AddGtpuSocket`, one `Run...Task` per kind of
task, `StopLayers`, `WriteExit`, `ResetQueues`), the socket thread (`Select`,
`SelectReturns`, `ServeMme`, `RemoveMme`, `ServeGtpu`, `ServePipe`), the PHY thread
(`PhyTick`), the main thread (`StopEnb`, `JoinStack`), and outside them the MME
and the kernel. `S1Setup` has the association with the MME as a function from
state to state: launch, setup request, answer, timeout, reconnection timer, loss by
a shutdown or by a read of no bytes. `socket_mutex` is held by the socket thread from
the return of `select` to the next one: `SocketMutexFree`. `RemoveMme` erases the
entry the loop over `active_sockets` stands on, so whether the loop goes on is a
choice (section 9).

| run | instance | question |
|---|---|---|
| `multi_queue` | four threads, queues of one and two places, spurious wake-ups, a reset by the consumer or another thread | wake-ups, the count of waiters, what a reset destroys; refinement of `BlockingQueues` with its fairness |
| `enb_stack` | four threads, two identities of associations, an MME that may be out of reach, shut down at any time after its answer, and on every second association refuse, leave before it answers or break off | who is connected is who answered; a loss is followed by a new attempt, and an attempt that nothing refuses by a connection; sockets are read; the stop ends |
| `s1_lost_in_setup` (violation) | an MME that shuts down before it answers | whether the connection comes back |

The bounds: two pushers and a queue of one place are enough for every race of one
notification with two that want the place; the invariants are proved for any
number. In `EnbStack` the queues of the PHY and of the main thread have one place
(that of the PHY has one in the code when the eNB is not in real time) and both fill;
the queue of S1AP has four, and fills with what a gone association sent before
the new one's messages; that of GTP-U has two and never holds more than one packet,
as `Overload = FALSE` keeps the senders behind the stack thread. No push of the socket
thread blocks in this run: with a queue of three places, or with `Overload = TRUE`,
one does, and the threads then wait for each other (section 9). Timers are abstracted
to "runs" and "expires at some tick". Deadlock is not checked in `enb_stack`, because
the stack may stop.

`ConnectedOnAnswer` is checked with messages of a gone association in the queue while
the next one is set up (the MME refuses, leaves or breaks off, and the setup's timeout
closes the socket before they are handled). `AssociationIsRead` is checked with
descriptors that come back while they are still registered, or in the set of `select`.
The three liveness properties have a premise, `SocketThreadGoesOn`: it is not so that from some moment
on the set of `select` holds a closed descriptor, or the socket thread waits in a read
of a socket without a message. The code allows both (section 9), the run reaches
both, and nothing the socket thread or a join with it owes is fulfilled then; that it
is fulfilled otherwise, whatever the MME did before, is what the properties say. Nor
does the connection come back in general: a setup that the MME refused or that lost
its association ends by its timeout and is not tried again, which is the finding of
`s1_lost_in_setup` (`Reconnects`). `ConnectsAgain` says what holds besides: an eNB that was
connected and lost its association starts to connect, and one that is connecting, or
waits for the reconnection timer, is connected in the end unless the setup's timeout
found no answer on its way.

*Fairness*: the threads run (weak); the stack thread takes tasks in turn, which is
what `BlockingQueues` promises (strong for each kind of task); the timers expire
and an MME that is tried again and again is reached at last (strong). Nobody is
assumed to send, to shut down or to stop. In `multi_queue` every thread
that has begun goes on, the consumer's `wait_pop` included (weak, the mutex included:
no action waits for it, as critical sections are single steps), and nobody is assumed
to push or to reset.

*Proved* (`MultiQueueProofs`), for any number of threads, queues and tasks and any
capacities: `WaitersCounted`, `NoLostWakeUp`, `ConsumerNotified`, `ClearedAlone`.
The inductive invariant `QueuesInv` is their conjunction with the types, with who
may be where in the code, and with `ResetWaitsForWoken`: each pop owes one
notification to its queue until it is sent, each notification wakes one thread,
and each thread woken takes one place or leaves it to the next, so the places
promised never fall below the places free. Assumption: `MultiQueueAssumption`.
On this invariant rests the safety part of the refinement, `QueuesAreBounded`: a
thread is blocked from the step in which it waits on `cv_full` to the one in which
it goes on after it was woken, and every step of the handler is one of
`BlockingQueues` or changes nothing it tells of (`Promised`).

*Proved* (`EnbStackProofs`), for any capacities and any number of associations:
`StackTypeOK`; `AssociationIsRead` (the pipe tells the socket thread of every
descriptor that is registered and not yet in its set, and what was sent on an
association that is gone is gone with it); `ConnectedOnAnswer` if the MME answers
in time (`"silent" \notin MmeFails`). The invariant `AnswerInv` counts answers: at
most one is asked for, in the kernel, in a blocked push or in the queue, it is of
the association opened last, and as long as it is, the procedure waits. An answer
that takes longer than the timeout refutes it (section 9). Assumption:
`StackAssumption`.

## 8. Random access

`RaProc` is `ra_proc` of the UE with what it uses of `mux` (Msg3) and the RNTIs
the MAC listens to, as functions from state to state; `RaSched` is `ra_sched` of
the base station, each pass of its loop an action. `RandomAccess` composes
several UEs and one cell:

| action | code |
|---|---|
| `Start`, `Reset` | `sr_proc::step` without PUCCH, `mac::reset` |
| `SendPrach` | `prach::is_ready_to_send`; UEs that choose the same preamble are one preamble to the cell |
| `RachDetected`, `PrachMissed` | `mac::rach_detected` and its task: RNTI, user, RAR |
| `DlSchedule` (`Discard`, `AllocRar`, `NoMoreRars`) | `ra_sched::dl_sched`, `alloc_rar` |
| `FindRar`, `TbDecodedOk` | `mac::get_dl_sched_rnti` finds the RAR; `ra_proc::tb_decoded_ok` some TTIs later, in another thread |
| `SendMsg3`, `HarqRetx`, `HarqMaxRetx` | `ul_harq` with `mux::msg3_get`; a retransmission restarts the contention timer, from a PHY worker |
| `Msg3Decoded`, `Msg3Lost` | `ue::process_pdu`, `process_ce` of the C-RNTI element, `rrc::upd_user` |
| `RrcTtiClock`, `ActivityTimerExpires` | RRC's queue; the removal of a user whose request did not come |
| `ContentionResolutionIdReceived`, `PdcchReceived` | the two ends of the contention at the UE |
| `TimerExpires`, `TimerCallback` | the contention timer is marked, its callback runs later |
| `NextTti` | the next TTI, with `ra_proc::step` of every UE |

`random_access`: two UEs, two preambles, two RNTIs; a cycle of twelve TTIs with
three PRACHs and windows of three TTIs, one less than the time between two PRACHs. A
TTI first schedules, then every thread does
what it does in any order, and what has a deadline (the detection of a preamble,
the decoding of a RAR) has not passed it. Two UEs may answer the same RAR, or
each its own; RA-RNTIs repeat after four TTIs, so every window has the RA-RNTI of
the PRACH before, and the RAR for that PRACH, with the same preamble number, may still wait while a
UE, reset or beginning anew, has sent the next; RNTIs are enough for both UEs or for two attempts of one, and
are not reused. `preambleTransMax` is one: a retry after that is a new procedure
of the same UE (two are beyond TLC's reach; the theorems hold for any number). The grid is full in the whole
windows of two of the PRACHs (`NoRoom`), not
in that of the one that straddles the end of the cycle: there the property fails (section
9), as it does with windows as long as the time between two PRACHs. `RarIsAnswer` is about the
RAR that the MAC finds in its window (`FindRar`), not about the one that the PHY hands
over some TTIs later: between the two a reset and a new start make it an answer to
an earlier preamble, and the code takes it (section 9). Left out: preambles given by the network (the base station sends none),
backoff (its RARs have none), PDCCH orders, the durations of timers and of HARQ.
There is no liveness here: everything may be lost for ever. The progress the code
owes is said as a state property, `ContentionEnds`.

*Proved* (`RandomAccessProofs`), for any number of UEs, preambles, RNTIs and TTIs:
`OneUePerRnti`. The inductive invariant follows an RNTI through the cell: it is
in one pending RAR, in one that is sent, or in neither and never again (`Apart`);
a UE whose temporary C-RNTI becomes its C-RNTI does so because the contention
identity of that RNTI is its own, and that identity is written once, when no UE
holds a grant for the RNTI any more, so one C-RNTI names one UE. A UE that had a
C-RNTI says so in Msg3 and keeps it.
`ContentionEnds` has an invariant of its own (`EndInSight` of every UE with the
grant its MAC holds), because the timer is started by the HARQ of Msg3, in another
thread than the one that waits.

`RarInTime` and `RarIsAnswer` fail for some constants (section 9); the theorems say
for which they hold. `FreeInTime`, for `RarInTime`: PRACHs come at a period that
divides the cycle, a preamble is detected within it and before its window ends, and
a window whose next TTI is in the next cycle has a TTI with room, because the test
that it has passed does not see that one; all others may be full from end to end.
Invariant (`KeepsTime`): the RARs wait in the order of their PRACHs, and one that
the scheduler will not see pass has waited through full TTIs only. `WindowsApart`,
for `RarIsAnswer`, in addition: the window is shorter than the period, which
leaves out the 10 and 10 TTIs of `sib.conf.example`, and fits the cycle. Invariant
(`AnswerInv`): a UE that waits for its RAR has sent its preamble no longer ago than a window
(`TriesInTime`); it is among those its preamble stands for on the air (`Heard`), and then among those
of every grant for that preamble and PRACH, pending or sent (`Answered`); and a RAR that
is sent belongs to a PRACH within its window, so of two with one RA-RNTI only the last one's is
heard. The run's constants
satisfy both.

## 9. Divergences between code and its comments

Shown by runs (`PROJECT.json`, "findings"): `um_handover`, `s1_lost_in_setup`.
Those below were met with the models while they were built and are described here
only; the runs above avoid them as said there.

RLC AM:
- `rlc_am_lte.cc:980`: ACK_SN of a STATUS PDU that was overtaken by a newer one is
  below `vt_a`, which is a large distance modulo 1024: the loop runs to `vt_s` and
  erases PDUs that were not acknowledged (comment at 1027).
  `rlc_stress_test.cc:276` reverses the order of PDUs.
- `rlc_am_lte.cc:966` and 540: `get_status_pdu` and `reset_status` lock the receiver
  separately. A poll that arrives in between is erased unanswered; any STATUS stops
  the peer's poll timer (POLL_SN is not looked at), and the PDU stays
  unacknowledged if nothing more is sent.
- `rlc_am_lte.cc:799`: while an SDU is partly sent, new PDUs are built although
  the window is full, against the comment above it; with a window of two this
  breaks the order of delivery. `am_split` keeps to a window that does not fill.
- `rlc_am_lte.cc:1659`: ACK_SN may also be in the NACK list, which line 1673
  means to exclude.

Timers:
- `timers.h:246`: `step_all` unlocks before `trigger()`; a timer that another
  thread runs again in between is triggered at once and its new run is lost
  (`timer_test.cc:84` expects the duration to be extended). `poll_retx_timer` is
  used that way.
- `timers.h:236`: `step_all` compares ticks as plain integers, although the queue
  is ordered "accounting for wrap around" (line 304): timers set across the wrap
  of 2^32 ms expire at once.
- `timers.h:76`: "timer durations above" `MAX_TIMER_DURATION` "are not supported",
  but that duration itself is not either: of two entries that far apart neither
  is before the other (306, 308), so that `step_all` may find the later one at the
  top and leave the other, which is due. TLC: `ClockSpec` fails with it.
- `timers.h:257`: `stop_all` takes no lock, so a PHY worker that has decided to run its
  timer does so after it (`StopAll` may come between the two).
- `timers.h:116`: a timer that is due and is stopped by the callback of another
  one of the same tick reports `is_expired()`; `timer_test.cc:137` says stopping
  "forbids the timer from getting expired".
- `timers.h:323`: a recycled entry of `timer_list` may report `is_expired()`
  before its first run, which `timer_test.cc:45` asserts it does not.

Paging and system information:
- `rrc.cc:425`: `byte_buf_paging` is written after `paging_mutex` was released and
  read later by `read_pdu_pcch`; with four paging subframes per frame, subframes 4
  and 5 are neighbours and the second message replaces the first.
- `rrc.cc:443`: a page added between the schedules of two carriers is sent on the
  second only and erased.
- `scheduler_carrier.cc:79`: a TTI before the window's start that is scheduled
  after it gives an interval of 10239 and closes the window.
- `enb_cfg_parser.cc:1471`: `parse_sib10` uses `warning_type` before the file has
  been read.

RLC UM and PDCP:
- `rlc_um_lte.cc:395`: after the loss of the very first PDUs, or a
  reestablishment, `vr_ur_in_rx_sdu` is not a number of this stream, and an SDU
  that was received whole is dropped; the loop at 381 drops SDUs that could still
  be completed when the window pushes PDUs out; and `pdu_belongs_to_rx_sdu` (643)
  takes a `vr_ur_in_rx_sdu` that is a whole cycle of numbers old for that of the PDU
  before. `OnlyTheLostIsLost` excepts the three.
- `rlc_um_lte.cc:690`: `timer_expired` may run the reordering timer again; `reset`
  leaves it running.
- `rrc_procedures.cc:960`: bearers are resumed before they are reestablished
  (972).
- With `t_reordering` 0 the timer is never set.
- `rlc_um_base.cc:297`: `read_pdu` looks at the queue under the mutex and builds the PDU
  after it was released, and `reset` (`rlc_um_lte.cc:222`) writes `vt_us` without it.
  `UmBearer.Read` is one step: SDUs written in between only join the queue. A
  reestablishment in between is left out: the worker then numbers a PDU without data, or
  leaves `vt_us` one above zero, and the receiver sees a number that brings nothing.

Task queues, sockets, S1:
- `network_utils.cc:616`: when GTP-U packets come faster than they are handled
  (`Overload = TRUE`) the socket thread blocks in `push` with `socket_mutex` held,
  while the stack thread waits for that mutex in `add_mme_socket`, or joins it in
  `stop`; TLC shows both. `multiqueue.h:24` calls pushes "non-blocking".
- An S1SetupResponse of an earlier association that waits in `mme_task_queue` over
  two timeouts marks a later one as connected.
- `network_utils.cc:594`: `remove_mme_socket` has no caller. When the stack thread
  closes the socket itself (the setup's timeout, a read of no bytes at `s1ap.cc:512`)
  the descriptor stays in `active_sockets` and in the set, and `select` returns EBADF
  at once, again and again, until the number is used again: no GTP-U packet is read,
  control messages are not either, and `enb::stop` waits for ever in the join of the
  socket thread. TLC: `SocketServed` and `EnbStopEnds` fail without their premise.
- `network_utils.cc:424`: `select` reports the MME's descriptor, the stack thread closes
  the socket and opens the next one, which gets the same number, and then the socket
  thread takes `socket_mutex` and calls `sctp_recvmsg`, which blocks until the new MME
  socket has a message. The stack thread waits for the mutex in `add_socket_handler`,
  before it sends the request the message would answer. TLC: likewise.
- `network_utils.cc:619`: `remove_socket_unprotected` erases the entry the range-for at
  610 stands on, which is undefined; the model lets the loop go on or end, a crash
  is not modelled.
- `s1ap.cc:782`: `handle_s1setupfailure` does nothing; the setup ends by its
  timeout, without a new attempt. `s1ap::stop` leaves `mme_connected` set.
- `multiqueue.h:224`: with a reset by another thread than the consumer (as in
  `queue_test.cc:165`) the queues may be cleared while `wait_pop` notifies one of
  them; of two resets at once only one is told of the last waiter.
- The UE never stops `task_sched`, and stops its stack before its PHY
  (`ue.cc:260`): with `sync_queue_size` 1 the PHY thread may stay blocked in a push.

Random access:
- `scheduler_carrier.cc:161`: the test that a window has passed lacks the modulo. A
  RAR that finds no room in a window that straddles TTI 10240 is not discarded
  ("If outside the window we discard it", line 147), holds up all others and is
  sent a cycle later; so is one whose window ends in the cycle's last TTI. TLC:
  `RarInTime` fails with `NoRoom` in that window.
- `scheduler_carrier.cc:187`: "try to scheduler next RAR with different RA-RNTI"
  tries the same front RAR again, for ever and with `sched_mutex` held, when there
  is no room in the PDCCH.
- `scheduler_carrier.cc:160`: the base station's window includes both ends, one TTI
  more than the UE's. With a window of the length of the PRACH's period (as in
  `sib.conf.example`: 10 and 10) a UE takes the RAR for the preamble of somebody
  else one period before; TLC: `RarIsAnswer` fails. The UE's `is_in_window` leaves out the
  first TTI of a window that straddles the wrap.
- `proc_ra.cc:400`: `tb_decoded_ok` does not look at the state. A RAR that is
  decoded after a reset or a retry is compared with the new preamble, and one for an
  earlier attempt with the same preamble number is taken. `RarIsAnswer` ends where the
  MAC finds the RAR; `OneUePerRnti` and `ContentionEnds` hold with the late ones too.
- `proc_ra.cc:572`: in a wrong state `contention_resolution_id_received` logs
  "Aborting", calls `response_error` and goes on.
- `proc_ra.cc:512`: after a preamble given by the network, `complete` takes over a
  stale `transmitted_crnti` or sets the C-RNTI to 0.
- `proc_ra.cc:554`: the timer's callback does not look at the state either: after
  the end of the contention it starts random access of a UE that is connected.
- `mux.cc:424`: when Msg3 cannot be built the contention timer is never started.
- `mac.cc:484`: "Ignoring RACH attempt. UE pool empty." is followed by a wait for
  the pool; `allocate_rnti` counts round at 60000 without a look at who is there.
- `rrc.cc:790`: a connection request and the removal by the Msg3 timer may be in
  the queue together: the UE is connected and then removed.

## 10. Not modelled

What is only model-checked: all liveness, which with ENABLED is beyond the prover
(`EverythingDelivered`, `FirstIsPaged`, `StopEnds`, `ConnectsAgain`, `SocketServed`,
`EnbStopEnds`, and `KeepsPromise` with the fairness of `BlockingQueues`, whose safety
part is proved). Every invariant and action property and every other refinement
that a passing run checks is also proved.

What is not modelled, in the modelled components: RLC AM's `stop`/`reestablish`,
`poll_byte`, NACKs of segments (this code never sends one) and the header
arithmetic; RLC UM of NR and of multicast; PDCP on RLC AM, its status transfer
and security; `time_elapsed()`; memory (reallocation of `timer_list`, buffers
that cannot be allocated); the contents of SIBs and their grouping into messages;
`phy::rem_rnti`; user data in the scheduler except for the room it takes; queues
added or erased while in use and the handler's `try_pop` (called by tests only); the M1-U socket, `remove_socket`, metrics; preambles given by
the network and backoff. Data races on single fields are taken as one of the
orders of the accesses.

Components that are not modelled are in `PROJECT.json` with the reason: codecs,
security and signal processing are not about the order of events (and are by far
the most lines of the repository); the others are in the plan.

## 11. Index of the properties and theorems

Each `MC...` module (`MCRlcAm`, `MCTimers`, `MCBroadcast`, `MCUmBearer`,
`MCMultiQueue`, `MCEnbStack`, `MCRandomAccess`) gives the constants of one
composed module the values its `.cfg` files choose, and holds the refinement
mappings that need values. "Proved" names the theorem; the other properties are
model-checked on the instances above.

| run | property | what it excludes | proved |
|---|---|---|---|
| `am_wrap` (and `um_bearer`) | `TypeOK` | STATUS PDUs or numbers that are malformed | `AmTypeCorrect` (`RxTypeCorrect`) |
| | `RxWindowInv`, `ReorderingInv` | edges that pass each other; a reordering timer for a number outside the window | `AmRxWindowCorrect`, `AmReorderingCorrect` (`RxWindowCorrect`, `ReorderingCorrect`) |
| | `NothingForgotten` | a PDU that nobody will acknowledge, send again or ask for | `NoByteForgotten`, `OneByteService` |
| | `WindowsAgree`, `VrMsNeverBack` | the two ends reading one number as two PDUs; a STATUS PDU that takes back what an earlier one reported | `WindowsStayAgreed`, `OneByteWindowsAgree` (`OneByteWindow`); `VrMsOnlyMovesOn` |
| `am_wrap`, `am_split` | `ServiceSpec` | an SDU lost, doubled or out of order (`ReliableDelivery`) | `AmImplementsService`, `OneByteService` (`DataHolds`) |
| `am_split` | `TxWindowContiguous` | a hole in the transmit window | `TxWindowCorrect` |
| `am_live` | `EverythingDelivered` | a window that stays blocked | |
| `timers_phy_guarded` | `QueueCovers` | a running timer without an entry in the queue | `NoTimerLost` |
| | `ClockSpec` | a callback too early, too late, missed or of a stopped run (`AlarmClock`) | `ClockSpecHolds` |
| `paging` | `PagedAtOpportunity`, `PageKept`, `FirstIsPaged` | a page in another UE's subframe; one erased and not sent; one starved by later ones | `PagedInTime`, `NoPageIsLost` (`FewOpportunitiesApart`) |
| | `StopEnds` | a worker that waits for ever at the stop | |
| `si_windows` | `SiInWindow` | an SI message where no UE looks for it | `SiIsInWindow` |
| | `StopDrains`, `TransmitInSequence` | TTIs given up or sent out of order | `StopIsClean`, `TransmittedInSequence` (and `PhyIsImplemented`) |
| `um_bearer` | `UmWindowInv`, `HeldIsWaitedFor` | a window that is none; PDUs held back with no timer running | `UmBearerSafe`, `UmRxSafe` |
| | `CountInSync` | a COUNT that is not the one of the sender | `CountsStayInSync` |
| | `OnlyTheLostIsLost`, `ServiceSpec` | an SDU dropped although it arrived; one doubled, mixed or out of order (`LossyDelivery`) | `UmOnlyTheLostIsLost`, `UmImplementsService` |
| `um_handover` | `SnsReset` (violated) | an SDU of the old cell that moves the new COUNT | |
| `multi_queue` | `WaitersCounted`, `ClearedAlone` | queues destroyed under a thread | `EveryWaiterCounted`, `ResetSafe` |
| | `NoLostWakeUp`, `ConsumerNotified` | a push or a pop that sleeps on what it could have | `PushesWoken`, `PopsWoken` |
| | `KeepsPromise` | a push lost or doubled, a queue starved, a reset that hangs (`BlockingQueues`) | |
| `enb_stack` | `StackTypeOK` | values outside their types | `StackTypeCorrect` |
| | `ConnectedOnAnswer`, `AssociationIsRead` | a connection marked by an earlier association's answer; one that nobody reads | `ConnectedOnAnswerHolds`, `AssociationIsReadHolds` |
| | `ConnectsAgain`, `SocketServed`, `EnbStopEnds` | a loss or an attempt that nobody follows up; a socket starved; a stop that hangs | |
| `s1_lost_in_setup` | `Reconnects` (violated) | an eNB without an MME for ever | |
| `random_access` | `RarInTime`, `RarIsAnswer` | a RAR out of its window; one taken for somebody else's preamble | `RarInTimeHolds`, `RarIsAnswerHolds` |
| | `OneUePerRnti` | two UEs with one C-RNTI | `OneUePerRntiHolds` |
| | `ContentionEnds` | a UE that waits for the end of a contention nobody will end | `ContentionEndsHolds` |
