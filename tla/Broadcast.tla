------------------------------ MODULE Broadcast ------------------------------
(***************************************************************************)
(* What every UE of a cell hears: system information and paging, from the  *)
(* paging requests of the core network to the transmission.  PHY workers   *)
(* (PhyWorkers) process several TTIs at a time; each calls                 *)
(* mac::get_dl_sched, which has its TTI scheduled on every carrier under   *)
(* sched_mutex (bc_sched, BcSched), where RRC assembles the paging message *)
(* (Paging), and after that copies the message for each carrier into a     *)
(* buffer of the carrier, from which the worker encodes it.  All workers   *)
(* share these buffers.                                                    *)
(*                                                                         *)
(* Nothing orders the workers before the transmission: a later TTI may be  *)
(* scheduled first.  RAR and user data are left out but for the room they  *)
(* take (Collisions).                                                      *)
(***************************************************************************)
EXTENDS PhyWorkers, Paging, FiniteSetsExt

CONSTANTS
    Carrier,            \* 0..(n - 1)
    NofSi, Period, SiWindow,
    Collisions          \* an allocation of the broadcast scheduler may fail

INSTANCE BcSched

ASSUME BroadcastAssumption ==
    /\ Carrier \subseteq Nat /\ 0 \in Carrier /\ Collisions \in BOOLEAN
    /\ NofSi \in Nat \ {0}
    /\ \A i \in Si : Period[i] \in Nat \ {0}
    /\ SiWindow \in {1, 2, 5, 10, 15, 20, 40}

VARIABLES
    pending_sibs,       \* carrier -> SI message -> its state
    sched_mutex,        \* its holder, 0: nobody
    sched_cc,           \* the carrier that is scheduled next, or now
    sched_step,         \* "carrier", "clear" or "pack"
    pcch_msg,           \* the message being assembled
    scheduled,          \* worker -> get_dl_sched has the result of its TTI
    pcch_grants,        \* worker -> carriers with a paging grant, until encoded
    pcch_unread,        \* those of them the message has not been read for
    pcch_payload_buffer,    \* carrier -> message, of common_buffers
    payload,            \* worker -> carrier -> the message it encoded
    bcch_grants         \* worker -> SI messages sent, as <<carrier, message>>

sched_vars == <<pending_sibs, sched_mutex, sched_cc, sched_step, pcch_msg>>
mac_vars == <<scheduled, pcch_grants, pcch_unread, pcch_payload_buffer, payload, bcch_grants>>
vars == <<phy_vars, paging_vars, sched_vars, mac_vars>>

Init ==
    /\ PhyInit /\ PagingInit
    /\ pending_sibs = [cc \in Carrier |-> [i \in Si |-> Idle]]
    /\ sched_mutex = 0 /\ sched_cc = 0 /\ sched_step = "carrier" /\ pcch_msg = {}
    /\ scheduled = [w \in Worker |-> FALSE]
    /\ pcch_grants = [w \in Worker |-> {}]
    /\ pcch_unread = [w \in Worker |-> {}]
    /\ pcch_payload_buffer = [cc \in Carrier |-> {}]
    /\ payload = [w \in Worker |-> [cc \in Carrier |-> {}]]
    /\ bcch_grants = [w \in Worker |-> {}]

------------------------------------------------------------------------------
(* The core network *)

Page(u) == AddPagingId(u) /\ UNCHANGED <<phy_vars, sched_vars, mac_vars>>

(* The workers, but for their work *)

Start == (StartWorker \/ LeaveLoop) /\ UNCHANGED <<paging_vars, sched_vars, mac_vars>>

BeginWork(w) == WaitToStart(w) /\ UNCHANGED <<paging_vars, sched_vars, mac_vars>>

EndWork(w) == Finished(w) /\ UNCHANGED <<paging_vars, sched_vars, mac_vars>>

StopPhy == Stop /\ UNCHANGED <<paging_vars, sched_vars, mac_vars>>

------------------------------------------------------------------------------
(* sched::dl_sched of a TTI that is not scheduled yet *)

(* The next carrier, or the end of the schedule. *)
CarrierDone(w) ==
    IF sched_cc + 1 \in Carrier
    THEN sched_mutex' = w /\ sched_cc' = sched_cc + 1 /\ UNCHANGED scheduled
    ELSE /\ sched_mutex' = 0 /\ sched_cc' = 0
         /\ scheduled' = [scheduled EXCEPT ![w] = TRUE]

\* alloc_paging
AllocPaging(w) ==
    \/ /\ pcch_grants' = [pcch_grants EXCEPT ![w] = @ \cup {sched_cc}]
       /\ pcch_unread' = [pcch_unread EXCEPT ![w] = @ \cup {sched_cc}]
    \/ Collisions /\ UNCHANGED <<pcch_grants, pcch_unread>>

NoAllocPaging == UNCHANGED <<pcch_grants, pcch_unread>>

(* update_si_windows and alloc_sibs *)
SiMessages(w) ==
    LET t    == worker_tti[w]
        cc   == sched_cc
        sent == {i \in Si : IsSent(Updated(pending_sibs[cc][i], i, t), i, t)}
    IN /\ pending_sibs' = [pending_sibs EXCEPT ![cc] =
                              [i \in Si |-> AfterTti(@[i], i, t)]]
       /\ \E room \in (IF Collisions THEN SUBSET sent ELSE {sent}) :
             bcch_grants' = [bcch_grants EXCEPT ![w] = @ \cup {<<cc, i>> : i \in room}]

(* bc_sched::dl_sched of one carrier, up to the assembly of a message *)
SchedCarrier(w) ==
    LET t == worker_tti[w]
    IN /\ worker_pc[w] = "working" /\ ~scheduled[w]
       /\ sched_mutex \in {0, w} /\ sched_step = "carrier"
       /\ SiMessages(w)
       /\ \/ ExtraCarrier(t) /\ AllocPaging(w) /\ CarrierDone(w) /\ UNCHANGED sched_step
          \/ NoPaging(t) /\ NoAllocPaging /\ CarrierDone(w) /\ UNCHANGED sched_step
          \/ /\ Collect(t) /\ NoAllocPaging
             /\ sched_mutex' = w /\ sched_step' = "clear"
             /\ UNCHANGED <<sched_cc, scheduled>>
       /\ pcch_msg' = IF sched_step' = "clear" THEN Collected(t) ELSE {}
       /\ UNCHANGED <<phy_vars, pcch_payload_buffer, payload>>

ClearBuffer(w) ==
    /\ sched_mutex = w /\ sched_step = "clear"
    /\ StartPacking
    /\ sched_step' = "pack"
    /\ UNCHANGED <<phy_vars, pending_sibs, sched_mutex, sched_cc, pcch_msg, mac_vars>>

PackMessage(w) ==
    /\ sched_mutex = w /\ sched_step = "pack"
    /\ Packed(pcch_msg, worker_tti[w])
    /\ AllocPaging(w)
    /\ CarrierDone(w)
    /\ sched_step' = "carrier" /\ pcch_msg' = {}
    /\ UNCHANGED <<phy_vars, pending_sibs, pcch_payload_buffer, payload, bcch_grants>>

------------------------------------------------------------------------------
(* The rest of get_dl_sched: read_pdu_pcch for the carriers, one by one *)

ReadPduPcch(w) ==
    /\ scheduled[w] /\ pcch_unread[w] # {}
    /\ LET cc == Min(pcch_unread[w])
       IN /\ pcch_payload_buffer' = [pcch_payload_buffer EXCEPT ![cc] = byte_buf_paging]
          /\ pcch_unread' = [pcch_unread EXCEPT ![w] = @ \ {cc}]
    /\ UNCHANGED <<phy_vars, paging_vars, sched_vars, scheduled, pcch_grants, payload,
                   bcch_grants>>

(* cc_worker::work_dl of the carriers, one by one.  What is in a buffer that no
   other worker is going to encode is forgotten. *)
EncodePdsch(w) ==
    /\ scheduled[w] /\ pcch_unread[w] = {} /\ pcch_grants[w] # {}
    /\ LET cc == Min(pcch_grants[w])
       IN /\ payload' = [payload EXCEPT ![w][cc] = pcch_payload_buffer[cc]]
          /\ pcch_grants' = [pcch_grants EXCEPT ![w] = @ \ {cc}]
          /\ pcch_payload_buffer' =
                [pcch_payload_buffer EXCEPT ![cc] =
                    IF \E v \in Worker \ {w} : cc \in pcch_grants[v] THEN @ ELSE {}]
    /\ UNCHANGED <<phy_vars, paging_vars, sched_vars, scheduled, pcch_unread, bcch_grants>>

(* The TTI goes on the air; the worker forgets it. *)
Transmit(w) ==
    /\ scheduled[w] /\ pcch_grants[w] = {}
    /\ WorkerEnd(w)
    /\ Paged(UNION {payload[w][cc] : cc \in Carrier})
    /\ scheduled' = [scheduled EXCEPT ![w] = FALSE]
    /\ payload' = [payload EXCEPT ![w] = [cc \in Carrier |-> {}]]
    /\ bcch_grants' = [bcch_grants EXCEPT ![w] = {}]
    /\ UNCHANGED <<sched_vars, pcch_grants, pcch_unread, pcch_payload_buffer>>

Work(w) ==
    \/ BeginWork(w) \/ SchedCarrier(w) \/ ClearBuffer(w) \/ PackMessage(w)
    \/ ReadPduPcch(w) \/ EncodePdsch(w) \/ Transmit(w) \/ EndWork(w)

\* the program has ended
Ended == stop_pc = "done" /\ UNCHANGED vars

Next ==
    \/ \E u \in Ue : Page(u)
    \/ Start \/ StopPhy
    \/ \E w \in Worker : Work(w)
    \/ Ended

Spec == Init /\ [][Next]_vars

(* Every thread runs; nobody has to stop the program or to page a UE. *)
Fairness ==
    /\ WF_vars(Start)
    /\ WF_vars(StopPhy /\ stop_pc # "running")
    /\ \A w \in Worker : WF_vars(Work(w))

FairSpec == Spec /\ Fairness

------------------------------------------------------------------------------
(* "Described in Section 7 of 36.304" (is_paging_opportunity): a UE is paged in
   its own subframe, when it listens, and a message is never sent half written.
   Between the schedule of a TTI and the encoding the worker of another TTI may
   assemble another message, in the same buffers. *)
PagedAtOpportunity ==
    \A w \in Worker, cc \in Carrier : \A u \in payload[w][cc] :
        u \in Ue /\ IsOpportunity(u, worker_tti[w])

(* No page is lost between the core network and the air: from the time it is
   taken out of pending_paging until it is sent, the UE is in the message of a
   carrier or in a buffer that is still to be read for one. *)
Carried(u, w) ==
    \E cc \in Carrier :
        \/ u \in payload[w][cc]
        \/ cc \in pcch_unread[w] /\ u \in byte_buf_paging
        \/ cc \in pcch_grants[w] \ pcch_unread[w] /\ u \in pcch_payload_buffer[cc]
        \/ sched_mutex = w /\ u \in pcch_msg

PageKept ==
    \A u \in requested : u \in pending_paging \/ \E w \in Worker : Carried(u, w)

(* An SI message is sent in its window only, where the UEs look for it, also when
   its window is opened or closed by a TTI out of turn. *)
SiInWindow ==
    \A w \in Worker, cc \in Carrier, i \in Si \ {0} :
        <<cc, i>> \in bcch_grants[w] =>
            (worker_tti[w] - WindowOffset(i)) % (10 * Period[i]) < SiWindow

(* The UE whose record comes first is not left behind: however often the others
   are paged, its record is sent in the end.  The others of its opportunity wait
   for as long as there are more records than fit. *)
FirstIsPaged ==
    \A u \in Ue :
        (\A v \in Ue : v < u => PagingFrame(v) # PagingFrame(u) \/ PagingSf(v) # PagingSf(u))
        => (u \in pending_paging ~> u \notin pending_paging \/ stop_pc # "running")

(* phy::stop ends: no worker waits for a TTI that is never sent. *)
StopEnds == stop_pc # "running" ~> stop_pc = "done"
==============================================================================
