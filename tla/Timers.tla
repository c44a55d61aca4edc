-------------------------------- MODULE Timers --------------------------------
(***************************************************************************)
(* srslte::timer_handler and its timers (lib/include/srslte/common/        *)
(* timers.h).                                                              *)
(*                                                                         *)
(* step_all runs on the stack thread, one call per TTI; it holds the       *)
(* handler's mutex except while it triggers a timer, whose callback may    *)
(* use every timer.  Only step_all and run lock; stop, set, clear and the  *)
(* queries do not.                                                         *)
(*                                                                         *)
(* The other users are taken from the RLC entities: between two ticks the  *)
(* stack thread does what it likes, a PHY worker (read_pdu) runs timers    *)
(* of its own, PhyTimers, under the mutex of the timer's owner, which the  *)
(* stack thread needs to touch those timers: status_prohibit_timer only    *)
(* when it is not running (PhyGuarded), poll_retx_timer at any time.       *)
(***************************************************************************)
EXTENDS Integers, FiniteSets

CONSTANTS
    NofTimers,          \* bound: length of timer_list
    PhyTimers,          \* identifiers of the timers a PHY worker runs
    PhyGuarded,         \* it does so only if not is_running()
    Durations,          \* durations in use
    TimeMod,            \* 2^32: ticks and timeouts are uint32_t
    LastTick,           \* bound: no tick after this one
    Operations          \* what the stack thread does: "stop", "clear"

TimerId == 0..(NofTimers - 1)

MAX_TIMER_DURATION == (TimeMod - 1) \div 4
MAX_TIMER_VALUE == (TimeMod - 1) \div 2

ASSUME TimersAssumption ==
    /\ NofTimers \in Nat \ {0} /\ PhyTimers \subseteq TimerId
    /\ PhyGuarded \in BOOLEAN
    /\ TimeMod \in Nat \ {0} /\ LastTick \in Nat
    /\ Durations \subseteq 1..MAX_TIMER_DURATION
    /\ Operations \subseteq {"stop", "clear"}

VARIABLES
    cur_time,
    active, running, duration, timeout,     \* timer_list
    running_timers,     \* the entries [id, timeout] of the priority queue
    pc,                 \* step_all: "idle", "scan" (locked), "due", "callback"
    due,                \* the timer being triggered
    phy                 \* the timer a PHY worker is about to run, or none

vars == <<cur_time, active, running, duration, timeout, running_timers, pc, due, phy>>

none == -1

Init ==
    /\ cur_time = 0
    /\ active = [t \in TimerId |-> FALSE]
    /\ running = [t \in TimerId |-> FALSE]
    /\ duration = [t \in TimerId |-> 0]
    /\ timeout = [t \in TimerId |-> 0]
    /\ running_timers = {}
    /\ pc = "idle" /\ due = 0 /\ phy = none

IsRunning(t) == active[t] /\ running[t] /\ timeout[t] > 0

------------------------------------------------------------------------------
(* timer_impl *)

\* (faulty) queued before timeout is assigned
EnqueueBefore(t, at) == running_timers \cup {[id |-> t, timeout |-> timeout[t]]}

Enqueue(t, at) == running_timers \cup {[id |-> t, timeout |-> at]}

Expiry(d) == (cur_time + d) % TimeMod

\* run() of an active timer with duration d
RunFor(t, d) ==
    LET at == Expiry(d)
    IN /\ timeout' = [timeout EXCEPT ![t] = at]
       /\ running_timers' = Enqueue(t, at)
       /\ running' = [running EXCEPT ![t] = TRUE]

\* stop(): running is false by the time is_expired() is asked
TimeoutAfterStop(t) ==
    IF active[t] /\ timeout[t] > 0 /\ timeout[t] <= cur_time THEN timeout[t] ELSE 0

------------------------------------------------------------------------------
(* The stack thread, between two ticks or in a callback *)

StackFree == pc \in {"idle", "callback"}

\* get_unique_timer: the first inactive entry of timer_list
GetUniqueTimer ==
    /\ StackFree
    /\ \E t \in TimerId :
          /\ ~active[t] /\ \A u \in TimerId : ~active[u] => t <= u
          /\ active' = [active EXCEPT ![t] = TRUE]
    /\ UNCHANGED <<cur_time, running, duration, timeout, running_timers, pc, due, phy>>

\* set(): a running timer is run again
Set(t, d) ==
    /\ StackFree /\ active[t] /\ phy # t
    /\ duration' = [duration EXCEPT ![t] = d]
    /\ IF IsRunning(t) THEN RunFor(t, d)
       ELSE UNCHANGED <<running, timeout, running_timers>>
    /\ UNCHANGED <<cur_time, active, pc, due, phy>>

Run(t) ==
    /\ StackFree /\ active[t] /\ t \notin PhyTimers /\ duration[t] > 0
    /\ RunFor(t, duration[t])
    /\ UNCHANGED <<cur_time, active, duration, pc, due, phy>>

Stop(t) ==
    /\ "stop" \in Operations
    /\ StackFree /\ active[t] /\ phy # t
    /\ running' = [running EXCEPT ![t] = FALSE]
    /\ timeout' = [timeout EXCEPT ![t] = TimeoutAfterStop(t)]
    /\ UNCHANGED <<cur_time, active, duration, running_timers, pc, due, phy>>

\* clear(), called by release() and by the destructor of unique_timer
Clear(t) ==
    /\ "clear" \in Operations
    /\ StackFree /\ active[t] /\ phy # t
    /\ running' = [running EXCEPT ![t] = FALSE]
    /\ timeout' = [timeout EXCEPT ![t] = TimeoutAfterStop(t)]
    /\ duration' = [duration EXCEPT ![t] = 0]
    /\ active' = [active EXCEPT ![t] = FALSE]
    /\ UNCHANGED <<cur_time, running_timers, pc, due, phy>>

\* stop_all() takes no lock; a PHY worker that has decided goes on to run() after it
StopAll ==
    /\ "stop" \in Operations
    /\ StackFree
    /\ running_timers' = {}
    /\ running' = [t \in TimerId |-> FALSE]
    /\ UNCHANGED <<cur_time, active, duration, timeout, pc, due, phy>>

------------------------------------------------------------------------------
(* A PHY worker: its decision to run a timer, then run() *)

PhyDecides(t) ==
    /\ phy = none /\ t \in PhyTimers
    /\ active[t] /\ duration[t] > 0
    /\ PhyGuarded => ~IsRunning(t)
    /\ phy' = t
    /\ UNCHANGED <<cur_time, active, running, duration, timeout, running_timers, pc, due>>

PhyRuns ==
    /\ phy # none /\ pc # "scan"
    /\ RunFor(phy, duration[phy])
    /\ phy' = none
    /\ UNCHANGED <<cur_time, active, duration, pc, due>>

------------------------------------------------------------------------------
(* step_all *)

\* timer_run::operator< : a leaves the queue before b
Before(a, b) ==
    IF b.timeout > a.timeout
    THEN b.timeout - a.timeout < MAX_TIMER_VALUE \div 2
    ELSE a.timeout - b.timeout > MAX_TIMER_VALUE \div 2

\* the entries that may be running_timers.top()
Tops == {e \in running_timers : \A f \in running_timers : ~Before(f, e)}

\* stopped, or run again since
Stale(e) == ~IsRunning(e.id) \/ e.timeout # timeout[e.id]

\* (faulty) one tick early
NotYetEarly(e) == cur_time + 1 < e.timeout

NotYet(e) == cur_time < e.timeout

Tick ==
    /\ pc = "idle" /\ cur_time < LastTick
    /\ cur_time' = (cur_time + 1) % TimeMod
    /\ pc' = "scan"
    /\ UNCHANGED <<active, running, duration, timeout, running_timers, due, phy>>

Discard ==
    /\ pc = "scan"
    /\ \E e \in Tops : Stale(e) /\ running_timers' = running_timers \ {e}
    /\ UNCHANGED <<cur_time, active, running, duration, timeout, pc, due, phy>>

PopDue ==
    /\ pc = "scan"
    /\ \E e \in Tops :
          /\ ~Stale(e) /\ ~NotYet(e)
          /\ running_timers' = running_timers \ {e}
          /\ due' = e.id
    /\ pc' = "due"
    /\ UNCHANGED <<cur_time, active, running, duration, timeout, phy>>

Finish ==
    /\ pc = "scan"
    /\ running_timers = {} \/ \E e \in Tops : ~Stale(e) /\ NotYet(e)
    /\ pc' = "idle"
    /\ UNCHANGED <<cur_time, active, running, duration, timeout, running_timers, due, phy>>

\* trigger() up to the callback
Trigger ==
    /\ pc = "due"
    /\ IF IsRunning(due)
       THEN /\ running' = [running EXCEPT ![due] = FALSE]
            /\ pc' = "callback"
       ELSE /\ pc' = "scan"
            /\ UNCHANGED running
    /\ UNCHANGED <<cur_time, active, duration, timeout, running_timers, due, phy>>

CallbackReturns ==
    /\ pc = "callback"
    /\ pc' = "scan"
    /\ UNCHANGED <<cur_time, active, running, duration, timeout, running_timers, due, phy>>

------------------------------------------------------------------------------
Next ==
    \/ GetUniqueTimer \/ StopAll
    \/ \E t \in TimerId : Run(t) \/ Stop(t) \/ Clear(t) \/ PhyDecides(t)
    \/ \E t \in TimerId, d \in Durations : Set(t, d)
    \/ PhyRuns
    \/ Tick \/ Discard \/ PopDue \/ Finish \/ Trigger \/ CallbackReturns

Spec == Init /\ [][Next]_vars

------------------------------------------------------------------------------
(* Types of timer_handler's members. *)
TypeOK ==
    /\ cur_time \in 0..(TimeMod - 1)
    /\ active \in [TimerId -> BOOLEAN] /\ running \in [TimerId -> BOOLEAN]
    /\ duration \in [TimerId -> Durations \cup {0}]
    /\ timeout \in [TimerId -> 0..(TimeMod - 1)]
    /\ running_timers \subseteq [id : TimerId, timeout : 0..(TimeMod - 1)]
    /\ pc \in {"idle", "scan", "due", "callback"}
    /\ due \in TimerId /\ phy \in PhyTimers \cup {none}

(* No running timer is lost from the queue: whatever entries of earlier runs are
   in it, the one of the present run is, until the timer is triggered. *)
QueueCovers ==
    \A t \in TimerId : IsRunning(t) =>
        \/ [id |-> t, timeout |-> timeout[t]] \in running_timers
        \/ pc = "due" /\ due = t

(* The callback of a timer is called at its timeout and never missed: refinement
   of AlarmClock. *)
Clock == INSTANCE AlarmClock WITH
    Alarm <- TimerId,
    now <- cur_time,
    deadline <- [t \in TimerId |-> IF IsRunning(t) THEN timeout[t] ELSE 0],
    ringing <- IF pc = "callback" THEN {due} ELSE {}

ClockSpec == Clock!Spec
===============================================================================
