----------------------------- MODULE TimersProofs -----------------------------
(***************************************************************************)
(* No running timer is ever lost from the queue of timer_handler, for any  *)
(* number of timers, any durations, any wrap-around of the ticks and any   *)
(* use by the PHY workers.  The invariant is inductive together with the   *)
(* types; entries of earlier runs may stay in the queue, and the proof     *)
(* shows that discarding one never takes the entry of the present run.     *)
(*                                                                         *)
(* While the ticks do not wrap, and for PHY workers that ask is_running()  *)
(* first, timer_handler implements AlarmClock: the second half.            *)
(***************************************************************************)
EXTENDS Timers, TLAPS

(* A free entry of timer_list is not running, or else the entry would run from
   the moment it is handed out again; the timer a PHY worker is about to run is
   not free. *)
FreeIsStill == \A t \in TimerId : ~active[t] => ~running[t]
PhyTimerActive == phy # none => active[phy]

TimersInv == TypeOK /\ QueueCovers /\ FreeIsStill /\ PhyTimerActive

Entry(t, at) == [id |-> t, timeout |-> at]

(* A deadline is a tick. *)
LEMMA ExpiryIsTick ==
    ASSUME TypeOK, NEW d \in Durations \cup {0}
    PROVE  Expiry(d) \in 0..(TimeMod - 1)
  <1>1. d \in Nat /\ cur_time \in Nat /\ TimeMod \in Nat \ {0}
    BY TimersAssumption DEF TypeOK
  <1> QED
    BY <1>1 DEF Expiry

(* run() puts the timer's entry in the queue and keeps those of the others. *)
LEMMA RunKeepsInv ==
    ASSUME TimersInv, NEW t \in TimerId, NEW d \in Durations \cup {0}, RunFor(t, d),
           active[t], UNCHANGED <<cur_time, active, pc, due>>,
           duration' \in [TimerId -> Durations \cup {0}],
           phy' \in {phy, none}
    PROVE  TimersInv'
  <1> DEFINE at == Expiry(d)
  <1>1. at \in 0..(TimeMod - 1)
    BY ExpiryIsTick DEF TimersInv
  <1>2. /\ timeout' = [timeout EXCEPT ![t] = at]
        /\ running' = [running EXCEPT ![t] = TRUE]
        /\ running_timers' = running_timers \cup {Entry(t, at)}
    BY DEF RunFor, Enqueue, Entry
  <1> HIDE DEF at
  <1>3. TypeOK'
    BY <1>1, <1>2 DEF TimersInv, TypeOK, Entry
  <1>4. QueueCovers'
    <2> SUFFICES ASSUME NEW u \in TimerId, IsRunning(u)'
                 PROVE  \/ Entry(u, timeout'[u]) \in running_timers'
                        \/ pc' = "due" /\ due' = u
      BY DEF QueueCovers, Entry
    <2>1. CASE u = t
      BY <1>2, <2>1 DEF TimersInv, TypeOK
    <2>2. CASE u # t
      <3>1. timeout'[u] = timeout[u] /\ IsRunning(u)
        BY <1>2, <2>2 DEF TimersInv, TypeOK, IsRunning
      <3> QED
        BY <1>2, <3>1 DEF TimersInv, QueueCovers, Entry
    <2> QED
      BY <2>1, <2>2
  <1>5. FreeIsStill'
    <2> SUFFICES ASSUME NEW u \in TimerId, ~active[u]
                 PROVE  ~running'[u]
      BY DEF FreeIsStill
    <2> QED
      BY <1>2 DEF TimersInv, TypeOK, FreeIsStill
  <1>6. PhyTimerActive'
    BY DEF TimersInv, PhyTimerActive
  <1> QED
    BY <1>3, <1>4, <1>5, <1>6 DEF TimersInv

(* What stop() leaves in timeout is a tick. *)
LEMMA StoppedTimeoutIsTick ==
    ASSUME TypeOK, NEW t \in TimerId
    PROVE  TimeoutAfterStop(t) \in 0..(TimeMod - 1)
  BY TimersAssumption DEF TypeOK, TimeoutAfterStop

(* A step that starts no timer, changes no timeout of a running timer and takes
   no entry away keeps the queue complete. *)
LEMMA NothingStarted ==
    ASSUME QueueCovers,
           \A t \in TimerId : IsRunning(t)' => IsRunning(t) /\ timeout'[t] = timeout[t],
           UNCHANGED <<running_timers, due>>, pc = "due" => pc' = "due"
    PROVE  QueueCovers'
  <1> SUFFICES ASSUME NEW u \in TimerId, IsRunning(u)'
               PROVE  \/ Entry(u, timeout'[u]) \in running_timers'
                      \/ pc' = "due" /\ due' = u
    BY DEF QueueCovers, Entry
  <1>1. IsRunning(u) /\ timeout'[u] = timeout[u]
    OBVIOUS
  <1> QED
    BY <1>1 DEF QueueCovers, Entry

(* stop() of one timer, alone or in clear(). *)
LEMMA StopKeepsQueue ==
    ASSUME TimersInv, NEW t \in TimerId, active[t], phy # t,
           running' = [running EXCEPT ![t] = FALSE],
           timeout' = [timeout EXCEPT ![t] = TimeoutAfterStop(t)],
           active' \in {active, [active EXCEPT ![t] = FALSE]},
           duration' \in {duration, [duration EXCEPT ![t] = 0]},
           UNCHANGED <<cur_time, running_timers, pc, due, phy>>
    PROVE  TimersInv'
  <1>1. TypeOK'
    BY StoppedTimeoutIsTick DEF TimersInv, TypeOK
  <1>2. ASSUME NEW u \in TimerId, IsRunning(u)'
        PROVE  IsRunning(u) /\ timeout'[u] = timeout[u]
    BY <1>2 DEF TimersInv, TypeOK, IsRunning
  <1>3. QueueCovers'
    BY <1>2, NothingStarted DEF TimersInv
  <1>4. FreeIsStill'
    <2> SUFFICES ASSUME NEW u \in TimerId, ~active'[u]
                 PROVE  ~running'[u]
      BY DEF FreeIsStill
    <2> QED
      BY DEF TimersInv, TypeOK, FreeIsStill
  <1>5. PhyTimerActive'
    BY TimersAssumption DEF TimersInv, TypeOK, PhyTimerActive
  <1> QED
    BY <1>1, <1>3, <1>4, <1>5 DEF TimersInv

(* Discarding a stale entry, or popping the entry of the timer that becomes due,
   leaves the present entry of every other timer in the queue. *)
LEMMA RemovalKeepsQueue ==
    ASSUME TimersInv, pc = "scan", NEW e \in running_timers,
           running_timers' = running_timers \ {e},
           \/ Stale(e) /\ UNCHANGED <<pc, due>>
           \/ pc' = "due" /\ due' = e.id,
           UNCHANGED <<cur_time, active, running, duration, timeout, phy>>
    PROVE  TimersInv'
  <1>1. TypeOK'
    BY DEF TimersInv, TypeOK
  <1>2. QueueCovers'
    <2> SUFFICES ASSUME NEW u \in TimerId, IsRunning(u)
                 PROVE  \/ Entry(u, timeout[u]) \in running_timers'
                        \/ pc' = "due" /\ due' = u
      BY DEF QueueCovers, Entry, IsRunning
    <2>1. Entry(u, timeout[u]) \in running_timers
      BY DEF TimersInv, QueueCovers, Entry
    <2>2. CASE e = Entry(u, timeout[u])
      BY <2>2 DEF Entry, Stale
    <2>3. CASE e # Entry(u, timeout[u])
      BY <2>1, <2>3
    <2> QED
      BY <2>2, <2>3
  <1>3. FreeIsStill' /\ PhyTimerActive'
    BY DEF TimersInv, FreeIsStill, PhyTimerActive
  <1> QED
    BY <1>1, <1>2, <1>3 DEF TimersInv

(* The initial state satisfies the invariant. *)
LEMMA InitTimersInv == Init => TimersInv
  BY TimersAssumption
     DEF Init, TimersInv, TypeOK, QueueCovers, IsRunning, FreeIsStill, PhyTimerActive,
         TimerId, none

(* Every step keeps the invariant. *)
LEMMA StepKeepsTimersInv ==
    ASSUME TimersInv, [Next]_vars
    PROVE  TimersInv'
  <1>0. TypeOK /\ QueueCovers /\ FreeIsStill /\ PhyTimerActive
    BY DEF TimersInv
  <1>1. CASE GetUniqueTimer
    <2>1. PICK t \in TimerId : ~active[t] /\ active' = [active EXCEPT ![t] = TRUE]
      BY <1>1 DEF GetUniqueTimer
    <2>2. UNCHANGED <<cur_time, running, duration, timeout, running_timers, pc, due, phy>>
      BY <1>1 DEF GetUniqueTimer
    <2>3. TypeOK'
      BY <1>0, <2>1, <2>2 DEF TypeOK
    <2>4. ASSUME NEW u \in TimerId, IsRunning(u)'
          PROVE  IsRunning(u) /\ timeout'[u] = timeout[u]
      BY <1>0, <2>1, <2>2, <2>4 DEF TypeOK, IsRunning, FreeIsStill
    <2>5. QueueCovers'
      BY <1>0, <2>2, <2>4, NothingStarted
    <2>6. FreeIsStill' /\ PhyTimerActive'
      BY <1>0, <2>1, <2>2 DEF TypeOK, FreeIsStill, PhyTimerActive
    <2> QED
      BY <2>3, <2>5, <2>6 DEF TimersInv
  <1>2. CASE StopAll
    <2>1. \A u \in TimerId : ~IsRunning(u)'
      BY <1>2 DEF StopAll, IsRunning
    <2> QED
      BY <1>0, <1>2, <2>1
         DEF StopAll, TimersInv, TypeOK, QueueCovers, FreeIsStill, PhyTimerActive
  <1>3. ASSUME NEW t \in TimerId, Run(t)
        PROVE  TimersInv'
    <2>1. duration[t] \in Durations \cup {0} /\ duration' \in [TimerId -> Durations \cup {0}]
      BY <1>0, <1>3 DEF TypeOK, Run
    <2> QED
      BY <1>3, <2>1, RunKeepsInv DEF Run
  <1>4. ASSUME NEW t \in TimerId, Stop(t)
        PROVE  TimersInv'
    BY <1>4, StopKeepsQueue DEF Stop
  <1>5. ASSUME NEW t \in TimerId, Clear(t)
        PROVE  TimersInv'
    BY <1>5, StopKeepsQueue DEF Clear
  <1>6. ASSUME NEW t \in TimerId, PhyDecides(t)
        PROVE  TimersInv'
    <2>1. TypeOK' /\ FreeIsStill' /\ PhyTimerActive'
      BY <1>0, <1>6 DEF PhyDecides, TypeOK, FreeIsStill, PhyTimerActive
    <2>2. QueueCovers'
      BY <1>0, <1>6 DEF PhyDecides, QueueCovers, IsRunning
    <2> QED
      BY <2>1, <2>2 DEF TimersInv
  <1>7. ASSUME NEW t \in TimerId, NEW d \in Durations, Set(t, d)
        PROVE  TimersInv'
    <2>1. duration' \in [TimerId -> Durations \cup {0}] /\ d \in Durations \cup {0}
      BY <1>0, <1>7 DEF TypeOK, Set
    <2>2. CASE IsRunning(t)
      BY <1>7, <2>1, <2>2, RunKeepsInv DEF Set
    <2>3. CASE ~IsRunning(t)
      <3>1. TypeOK'
        BY <1>0, <1>7, <2>1, <2>3 DEF TypeOK, Set
      <3>2. QueueCovers' /\ FreeIsStill' /\ PhyTimerActive'
        BY <1>0, <1>7, <2>3
           DEF Set, QueueCovers, IsRunning, FreeIsStill, PhyTimerActive
      <3> QED
        BY <3>1, <3>2 DEF TimersInv
    <2> QED
      BY <2>2, <2>3
  <1>8. CASE PhyRuns
    <2>1. phy \in TimerId /\ active[phy]
      BY <1>0, <1>8, TimersAssumption DEF PhyRuns, TypeOK, PhyTimerActive
    <2>2. duration[phy] \in Durations \cup {0}
      BY <1>0, <2>1 DEF TypeOK
    <2> QED
      BY <1>0, <1>8, <2>1, <2>2, RunKeepsInv DEF PhyRuns, TypeOK
  <1>9. CASE Tick
    <2>1. cur_time' \in 0..(TimeMod - 1)
      BY <1>0, <1>9, TimersAssumption DEF Tick, TypeOK
    <2>2. QueueCovers' /\ FreeIsStill' /\ PhyTimerActive'
      BY <1>0, <1>9 DEF Tick, QueueCovers, IsRunning, FreeIsStill, PhyTimerActive
    <2> QED
      BY <1>0, <1>9, <2>1, <2>2 DEF Tick, TypeOK, TimersInv
  <1>10. CASE Discard
    <2>1. PICK e \in Tops : Stale(e) /\ running_timers' = running_timers \ {e}
      BY <1>10 DEF Discard
    <2> QED
      BY <1>10, <2>1, RemovalKeepsQueue DEF Discard, Tops
  <1>11. CASE PopDue
    <2>1. PICK e \in Tops : running_timers' = running_timers \ {e} /\ due' = e.id
      BY <1>11 DEF PopDue
    <2> QED
      BY <1>11, <2>1, RemovalKeepsQueue DEF PopDue, Tops
  <1>12. CASE Finish
    BY <1>0, <1>12
       DEF Finish, TimersInv, TypeOK, QueueCovers, IsRunning, FreeIsStill, PhyTimerActive
  <1>13. CASE Trigger
    <2>1. TypeOK' /\ FreeIsStill' /\ PhyTimerActive'
      BY <1>0, <1>13 DEF Trigger, TypeOK, FreeIsStill, PhyTimerActive
    <2>2. QueueCovers'
      <3> SUFFICES ASSUME NEW u \in TimerId, IsRunning(u)'
                   PROVE  Entry(u, timeout'[u]) \in running_timers'
        BY DEF QueueCovers, Entry
      <3>1. IsRunning(u) /\ u # due
        BY <1>0, <1>13 DEF Trigger, TypeOK, IsRunning
      <3> QED
        BY <1>0, <1>13, <3>1 DEF Trigger, QueueCovers, Entry
    <2> QED
      BY <2>1, <2>2 DEF TimersInv
  <1>14. CASE CallbackReturns
    BY <1>0, <1>14
       DEF CallbackReturns, TimersInv, TypeOK, QueueCovers, IsRunning, FreeIsStill,
           PhyTimerActive
  <1>15. CASE UNCHANGED vars
    BY <1>0, <1>15
       DEF vars, TimersInv, TypeOK, QueueCovers, IsRunning, FreeIsStill, PhyTimerActive
  <1> QED
    BY <1>1, <1>2, <1>3, <1>4, <1>5, <1>6, <1>7, <1>8, <1>9, <1>10, <1>11, <1>12, <1>13,
       <1>14, <1>15 DEF Next

(* The invariant holds in every behaviour. *)
THEOREM TimersInvHolds == Spec => []TimersInv
  BY InitTimersInv, StepKeepsTimersInv, PTL DEF Spec

(* No running timer is lost from the queue of timer_handler. *)
THEOREM NoTimerLost == Spec => []QueueCovers
  <1>1. TimersInv => QueueCovers
    BY DEF TimersInv
  <1> QED
    BY <1>1, TimersInvHolds, PTL

------------------------------------------------------------------------------
(* timer_handler implements AlarmClock while its time does not wrap, if the
   PHY workers ask is_running() before they run a timer and no timer is run for
   the longest duration set() takes: two entries as far apart as that are neither
   Before the other, and step_all may stop at the later of the two.  The
   instance of the run is one of these. *)

TimeFits ==
    /\ LastTick + MAX_TIMER_DURATION < TimeMod
    /\ MAX_TIMER_DURATION \notin Durations

(* An entry of the queue is not late, between two ticks not even due, and it is
   nearer than the farthest that operator< can tell from the next one. *)
InWindow(e) ==
    /\ cur_time <= e.timeout /\ e.timeout < cur_time + MAX_TIMER_DURATION
    /\ pc = "idle" => cur_time < e.timeout

EntriesInWindow == cur_time <= LastTick /\ \A e \in running_timers : InWindow(e)

(* The timer a PHY worker is about to run can be run, and nobody else has. *)
PhyTimerStill == phy # none => duration[phy] > 0 /\ ~IsRunning(phy)

(* The timer that is triggered is running and has reached its timeout. *)
DueIsNow == pc = "due" => IsRunning(due) /\ timeout[due] = cur_time

ClockInv == TimersInv /\ EntriesInWindow /\ PhyTimerStill /\ DueIsNow

(* The numbers of the model. *)
LEMMA TimeNumbers ==
    ASSUME TimersInv, TimeFits
    PROVE  /\ MAX_TIMER_DURATION \in Nat /\ cur_time \in Nat
           /\ MAX_TIMER_VALUE \div 2 \in Nat /\ MAX_TIMER_DURATION <= MAX_TIMER_VALUE \div 2
           /\ \A e \in running_timers : e.timeout \in Nat /\ e.id \in TimerId
           /\ \A d \in Durations : d \in Nat /\ 0 < d /\ d < MAX_TIMER_DURATION
  <1>1. TimeMod - 1 \in Nat
    BY TimersAssumption
  <1>2. MAX_TIMER_DURATION \in Nat /\ MAX_TIMER_VALUE \in Nat
    BY <1>1 DEF MAX_TIMER_DURATION, MAX_TIMER_VALUE
  <1>3. MAX_TIMER_VALUE \div 2 \in Nat /\ MAX_TIMER_DURATION <= MAX_TIMER_VALUE \div 2
    BY <1>1 DEF MAX_TIMER_DURATION, MAX_TIMER_VALUE
  <1>4. cur_time \in Nat /\ \A e \in running_timers : e.timeout \in Nat /\ e.id \in TimerId
    BY <1>1 DEF TimersInv, TypeOK
  <1>5. \A d \in Durations : d \in Nat /\ 0 < d /\ d < MAX_TIMER_DURATION
    BY <1>2, TimersAssumption DEF TimeFits
  <1> QED
    BY <1>2, <1>3, <1>4, <1>5

(* A deadline lies in the future. *)
LEMMA ExpiryInFuture ==
    ASSUME ClockInv, TimeFits, NEW d \in Durations
    PROVE  /\ Expiry(d) = cur_time + d
           /\ cur_time < Expiry(d) /\ Expiry(d) < cur_time + MAX_TIMER_DURATION
  <1>1. /\ cur_time \in Nat /\ d \in Nat /\ 0 < d /\ d < MAX_TIMER_DURATION
        /\ MAX_TIMER_DURATION \in Nat /\ LastTick \in Nat /\ TimeMod \in Nat
    BY TimeNumbers, TimersAssumption DEF ClockInv
  <1>2. cur_time + d < TimeMod
    BY <1>1 DEF ClockInv, EntriesInWindow, TimeFits
  <1>3. Expiry(d) = cur_time + d
    BY <1>1, <1>2 DEF Expiry
  <1> QED
    BY <1>1, <1>3

(* Of the entries of the window, the top of the queue is an earliest one. *)
LEMMA TopIsEarliest ==
    ASSUME ClockInv, TimeFits, NEW e \in Tops, NEW f \in running_timers
    PROVE  e.timeout <= f.timeout
  <1>1. e \in running_timers /\ ~Before(f, e)
    BY DEF Tops
  <1>2. /\ e.timeout \in Nat /\ f.timeout \in Nat /\ cur_time \in Nat
        /\ MAX_TIMER_DURATION \in Nat /\ MAX_TIMER_VALUE \div 2 \in Nat
        /\ MAX_TIMER_DURATION <= MAX_TIMER_VALUE \div 2
    BY <1>1, TimeNumbers DEF ClockInv
  <1>3. e.timeout < cur_time + MAX_TIMER_DURATION /\ cur_time <= f.timeout
    BY <1>1 DEF ClockInv, EntriesInWindow, InWindow
  <1>4. ~(e.timeout > f.timeout /\ e.timeout - f.timeout < MAX_TIMER_VALUE \div 2)
    BY <1>1 DEF Before
  <1> QED
    BY <1>2, <1>3, <1>4

(* A running timer is not late, and between two ticks it is not due. *)
LEMMA RunningInWindow ==
    ASSUME ClockInv, NEW t \in TimerId, IsRunning(t), pc = "idle"
    PROVE  cur_time < timeout[t]
  <1>1. Entry(t, timeout[t]) \in running_timers
    BY DEF ClockInv, TimersInv, QueueCovers, Entry
  <1>2. cur_time < Entry(t, timeout[t]).timeout
    BY <1>1 DEF ClockInv, EntriesInWindow, InWindow
  <1> QED
    BY <1>2 DEF Entry

(* Alarms: what the states of the timers are for those who wait for them. *)
Deadline == [t \in TimerId |-> IF IsRunning(t) THEN timeout[t] ELSE 0]
Ringing == IF pc = "callback" THEN {due} ELSE {}

(* run(), of a timer the PHY worker does not have or by the PHY worker: the
   invariant is kept and the alarm is started. *)
LEMMA RunStartsAlarm ==
    ASSUME ClockInv, TimeFits, TimersInv', NEW t \in TimerId, NEW d \in Durations,
           active[t], RunFor(t, d), UNCHANGED <<cur_time, active, pc, due>>,
           pc # "scan", pc = "due" => t # due,
           \/ UNCHANGED phy /\ t # phy /\ duration' \in {duration, [duration EXCEPT ![t] = d]}
           \/ phy' = none
    PROVE  ClockInv' /\ Clock!Start(t)
  <1> DEFINE at == Expiry(d)
  <1>1. cur_time < at /\ at < cur_time + MAX_TIMER_DURATION
    BY ExpiryInFuture
  <1>2. /\ timeout' = [timeout EXCEPT ![t] = at]
        /\ running' = [running EXCEPT ![t] = TRUE]
        /\ running_timers' = running_timers \cup {Entry(t, at)}
    BY DEF RunFor, Enqueue, Entry
  <1>3. at \in Nat /\ cur_time \in Nat
    BY TimeNumbers, ExpiryInFuture DEF ClockInv
  <1> HIDE DEF at
  <1>4. TypeOK /\ cur_time \in Nat /\ timeout \in [TimerId -> Nat]
    BY TimersAssumption DEF ClockInv, TimersInv, TypeOK
  <1>5. EntriesInWindow'
    <2> SUFFICES ASSUME NEW e \in running_timers'
                 PROVE  InWindow(e)'
      BY DEF ClockInv, EntriesInWindow
    <2>1. CASE e \in running_timers
      BY <2>1 DEF ClockInv, EntriesInWindow, InWindow
    <2>2. CASE e = Entry(t, at)
      BY <1>1, <1>3, <2>2 DEF InWindow, Entry
    <2> QED
      BY <1>2, <2>1, <2>2
  <1>6. ASSUME NEW u \in TimerId, u # t
        PROVE  IsRunning(u)' = IsRunning(u) /\ timeout'[u] = timeout[u]
    BY <1>2, <1>4, <1>6 DEF TypeOK, IsRunning
  <1>7. IsRunning(t)' /\ timeout'[t] = at
    BY <1>1, <1>2, <1>3, <1>4 DEF TypeOK, IsRunning
  <1>8. PhyTimerStill'
    <2>1. CASE phy' = none
      BY <2>1 DEF PhyTimerStill
    <2>2. CASE phy' # none
      <3>1. phy' = phy /\ phy # t /\ phy \in TimerId
        BY <1>4, <2>2, TimersAssumption DEF TypeOK
      <3>2. duration'[phy] = duration[phy]
        BY <1>4, <2>2, <3>1 DEF TypeOK
      <3>3. IsRunning(phy)' = IsRunning(phy)
        BY <1>6, <3>1 DEF IsRunning
      <3> QED
        BY <2>2, <3>1, <3>2, <3>3 DEF ClockInv, PhyTimerStill
    <2> QED
      BY <2>1, <2>2
  <1>9. DueIsNow'
    <2> SUFFICES ASSUME pc = "due"
                 PROVE  IsRunning(due)' /\ timeout'[due] = cur_time
      BY DEF DueIsNow, IsRunning
    <2>1. due \in TimerId /\ due # t
      BY <1>4 DEF TypeOK
    <2> QED
      BY <1>6, <2>1 DEF ClockInv, DueIsNow
  <1>10. Deadline' = [Deadline EXCEPT ![t] = Deadline'[t]]
    BY <1>6 DEF Deadline
  <1>11. Deadline'[t] > cur_time
    BY <1>1, <1>3, <1>7 DEF Deadline
  <1>12. Clock!Start(t)
    BY <1>10, <1>11 DEF Clock!Start, Deadline
  <1> QED
    BY <1>5, <1>8, <1>9, <1>12 DEF ClockInv

(* A step that starts no timer, leaves the queue's entries and the time alone
   and triggers nothing. *)
LEMMA OthersKeepClock ==
    ASSUME ClockInv, TimersInv',
           \A t \in TimerId : IsRunning(t)' => IsRunning(t) /\ timeout'[t] = timeout[t],
           running_timers' \subseteq running_timers, UNCHANGED <<cur_time, phy>>,
           pc' = "idle" => \A e \in running_timers' : cur_time < e.timeout,
           pc' # "due", phy # none => duration'[phy] = duration[phy]
    PROVE  ClockInv'
  <1>1. EntriesInWindow'
    BY DEF ClockInv, EntriesInWindow, InWindow
  <1>2. PhyTimerStill'
    <2> SUFFICES ASSUME phy # none
                 PROVE  duration'[phy] > 0 /\ ~IsRunning(phy)'
      BY DEF PhyTimerStill, IsRunning
    <2>1. phy \in TimerId
      BY TimersAssumption DEF ClockInv, TimersInv, TypeOK
    <2> QED
      BY <2>1 DEF ClockInv, PhyTimerStill
  <1> QED
    BY <1>1, <1>2 DEF ClockInv, DueIsNow

(* A step after which the same alarms are on and the same rings is no step of
   the clock. *)
LEMMA SameAlarms ==
    ASSUME \A t \in TimerId : /\ IsRunning(t)' = IsRunning(t)
                              /\ timeout'[t] = timeout[t],
           UNCHANGED cur_time, Ringing' = Ringing
    PROVE  UNCHANGED <<cur_time, Deadline, Ringing>>
  BY DEF Deadline

(* stop(), alone or in clear(): the alarm is cancelled. *)
LEMMA StopCancelsAlarm ==
    ASSUME ClockInv, TimersInv', NEW t \in TimerId, StackFree, phy # t,
           running' = [running EXCEPT ![t] = FALSE],
           timeout' = [timeout EXCEPT ![t] = TimeoutAfterStop(t)],
           active' \in {active, [active EXCEPT ![t] = FALSE]},
           duration' \in {duration, [duration EXCEPT ![t] = 0]},
           UNCHANGED <<cur_time, running_timers, pc, due, phy>>
    PROVE  ClockInv' /\ Clock!Cancel(t)
  <1>1. TypeOK
    BY DEF ClockInv, TimersInv
  <1>2. ASSUME NEW u \in TimerId, u # t
        PROVE  IsRunning(u)' = IsRunning(u) /\ timeout'[u] = timeout[u]
    BY <1>1, <1>2 DEF TypeOK, IsRunning
  <1>3. ~IsRunning(t)'
    BY <1>1 DEF TypeOK, IsRunning
  <1>4. phy # none => duration'[phy] = duration[phy]
    BY <1>1, TimersAssumption DEF TypeOK
  <1>5. pc' # "due" /\ (pc' = "idle" => \A e \in running_timers' : cur_time < e.timeout)
    BY DEF StackFree, ClockInv, EntriesInWindow, InWindow
  <1>6. ClockInv'
    BY <1>2, <1>3, <1>4, <1>5, OthersKeepClock
  <1>7. Deadline' = [Deadline EXCEPT ![t] = 0]
    BY <1>2, <1>3 DEF Deadline
  <1> QED
    BY <1>6, <1>7 DEF Clock!Cancel, Deadline

(* The clock's step in the terms of the timers. *)
ClockStep == Clock!Next \/ UNCHANGED <<cur_time, Deadline, Ringing>>

(* An iteration of step_all that takes an entry from the queue's top. *)
LEMMA ScanKeepsClock ==
    ASSUME ClockInv, TimersInv', TimeFits, Discard \/ PopDue \/ Finish
    PROVE  ClockInv' /\ ClockStep
  <1>1. \A u \in TimerId : IsRunning(u)' = IsRunning(u) /\ timeout'[u] = timeout[u]
    BY DEF Discard, PopDue, Finish, IsRunning
  <1>2. UNCHANGED <<cur_time, phy, duration>> /\ running_timers' \subseteq running_timers
    BY DEF Discard, PopDue, Finish
  <1>3. pc = "scan" /\ pc' # "callback"
    BY DEF Discard, PopDue, Finish
  <1>4. ClockStep
    BY <1>1, <1>2, <1>3, SameAlarms DEF Ringing, ClockStep
  <1>5. CASE Discard
    <2>1. pc' = "scan"
      BY <1>5 DEF Discard
    <2> QED
      BY <1>1, <1>2, <1>4, <2>1, OthersKeepClock
  <1>6. CASE PopDue
    <2>1. PICK e \in Tops : ~Stale(e) /\ ~NotYet(e) /\ due' = e.id
      BY <1>6 DEF PopDue
    <2>2. pc' = "due" /\ e \in running_timers
      BY <1>6, <2>1 DEF PopDue, Tops
    <2>3. e.timeout = cur_time
      <3>1. e.timeout \in Nat /\ cur_time \in Nat
        BY <2>2, TimeNumbers DEF ClockInv
      <3>2. cur_time <= e.timeout
        BY <2>2 DEF ClockInv, EntriesInWindow, InWindow
      <3> QED
        BY <2>1, <3>1, <3>2 DEF NotYet
    <2>4. due' \in TimerId /\ IsRunning(e.id) /\ timeout[e.id] = e.timeout
      BY <2>1, <2>2, TimeNumbers DEF Stale, ClockInv
    <2>5. DueIsNow'
      BY <1>1, <1>2, <2>1, <2>3, <2>4 DEF DueIsNow, IsRunning
    <2>6. EntriesInWindow'
      BY <1>2, <2>2 DEF ClockInv, EntriesInWindow, InWindow
    <2>7. PhyTimerStill'
      BY <1>6 DEF PopDue, ClockInv, PhyTimerStill, IsRunning
    <2> QED
      BY <1>4, <2>5, <2>6, <2>7 DEF ClockInv
  <1>7. CASE Finish
    <2>1. pc' = "idle" /\ running_timers' = running_timers
      BY <1>7 DEF Finish
    <2>2. ASSUME NEW f \in running_timers
          PROVE  cur_time < f.timeout
      <3>1. PICK e \in Tops : NotYet(e)
        BY <1>7, <2>2 DEF Finish
      <3>2. e.timeout <= f.timeout /\ e \in running_timers
        BY TopIsEarliest DEF Tops
      <3>3. cur_time \in Nat /\ e.timeout \in Nat /\ f.timeout \in Nat
        BY <3>2, TimeNumbers DEF ClockInv
      <3> QED
        BY <3>1, <3>2, <3>3 DEF NotYet
    <2> QED
      BY <1>1, <1>2, <1>4, <2>1, <2>2, OthersKeepClock
  <1> QED
    BY <1>5, <1>6, <1>7

(* The next tick: no alarm that is on has been passed over. *)
LEMMA TickAdvances ==
    ASSUME ClockInv, TimersInv', TimeFits, Tick
    PROVE  ClockInv' /\ Clock!Advance
  <1>1. /\ pc = "idle" /\ cur_time < LastTick /\ pc' = "scan"
        /\ UNCHANGED <<active, running, duration, timeout, running_timers, due, phy>>
    BY DEF Tick
  <1>2. /\ cur_time \in Nat /\ MAX_TIMER_DURATION \in Nat /\ LastTick \in Nat
        /\ TimeMod \in Nat
    BY TimeNumbers, TimersAssumption DEF ClockInv
  <1>3. cur_time' = cur_time + 1
    BY <1>1, <1>2 DEF Tick, TimeFits
  <1>4. EntriesInWindow'
    <2> SUFFICES ASSUME NEW e \in running_timers
                 PROVE  InWindow(e)'
      BY <1>1, <1>2, <1>3 DEF EntriesInWindow
    <2>1. e.timeout \in Nat
      BY TimeNumbers DEF ClockInv
    <2>2. cur_time < e.timeout /\ e.timeout < cur_time + MAX_TIMER_DURATION
      BY <1>1 DEF ClockInv, EntriesInWindow, InWindow
    <2> QED
      BY <1>1, <1>2, <1>3, <2>1, <2>2 DEF InWindow
  <1>5. PhyTimerStill' /\ DueIsNow'
    BY <1>1 DEF ClockInv, PhyTimerStill, DueIsNow, IsRunning
  <1>6. \A t \in TimerId : IsRunning(t) => timeout[t] > cur_time
    <2> SUFFICES ASSUME NEW t \in TimerId, IsRunning(t)
                 PROVE  timeout[t] > cur_time
      OBVIOUS
    <2>1. cur_time < timeout[t]
      BY <1>1, RunningInWindow
    <2> QED
      BY <2>1
  <1>7. Deadline' = Deadline /\ Ringing = {} /\ Ringing' = {}
    BY <1>1 DEF Deadline, Ringing, IsRunning
  <1>8. Clock!Advance
    BY <1>3, <1>6, <1>7 DEF Clock!Advance, Deadline, Ringing
  <1> QED
    BY <1>4, <1>5, <1>8 DEF ClockInv

(* trigger(): the alarm rings at its deadline and is off. *)
LEMMA TriggerRings ==
    ASSUME ClockInv, TimersInv', Trigger
    PROVE  ClockInv' /\ \E t \in TimerId : Clock!Ring(t)
  <1>1. TypeOK /\ TypeOK' /\ due \in TimerId
    BY DEF ClockInv, TimersInv, TypeOK
  <1>2. pc = "due" /\ IsRunning(due) /\ timeout[due] = cur_time
    BY DEF Trigger, ClockInv, DueIsNow
  <1>3. /\ pc' = "callback" /\ running' = [running EXCEPT ![due] = FALSE]
        /\ UNCHANGED <<cur_time, active, duration, timeout, running_timers, due, phy>>
    BY <1>2 DEF Trigger
  <1>4. ASSUME NEW u \in TimerId, u # due
        PROVE  IsRunning(u)' = IsRunning(u)
    BY <1>1, <1>3, <1>4 DEF TypeOK, IsRunning
  <1>5. ~IsRunning(due)'
    BY <1>1, <1>3 DEF TypeOK, IsRunning
  <1>6. ASSUME NEW u \in TimerId, IsRunning(u)'
        PROVE  IsRunning(u) /\ timeout'[u] = timeout[u]
    BY <1>3, <1>4, <1>5, <1>6 DEF IsRunning
  <1>7. ClockInv'
    BY <1>3, <1>6, OthersKeepClock
  <1>8. Deadline' = [Deadline EXCEPT ![due] = 0]
    BY <1>1, <1>3, <1>4, <1>5 DEF Deadline
  <1>9. Deadline[due] = cur_time /\ cur_time > 0
    BY <1>1, <1>2 DEF Deadline, IsRunning
  <1>10. Ringing = {} /\ Ringing' = {due}
    BY <1>2, <1>3 DEF Ringing
  <1>11. PICK t \in TimerId : t = due
    BY <1>1
  <1>12. Clock!Ring(t)
    BY <1>3, <1>8, <1>9, <1>10, <1>11 DEF Clock!Ring, Deadline, Ringing
  <1> QED
    BY <1>7, <1>12

(* The timers begin as the clock does. *)
LEMMA InitClock == Init => ClockInv /\ Clock!Init
  <1> SUFFICES ASSUME Init
               PROVE  ClockInv /\ Clock!Init
    OBVIOUS
  <1>1. TimersInv
    BY InitTimersInv
  <1>2. EntriesInWindow /\ PhyTimerStill /\ DueIsNow
    BY TimersAssumption DEF Init, EntriesInWindow, PhyTimerStill, DueIsNow
  <1>3. Clock!Init
    BY DEF Init, Clock!Init, IsRunning
  <1> QED
    BY <1>1, <1>2, <1>3 DEF ClockInv

(* Every step of the timers keeps the invariant and is a step of the clock, or
   none that it shows. *)
LEMMA StepIsClockStep ==
    ASSUME PhyGuarded, TimeFits, ClockInv, [Next]_vars
    PROVE  ClockInv' /\ ClockStep
  <1>0. TimersInv' /\ TypeOK /\ FreeIsStill /\ PhyTimerActive
    BY StepKeepsTimersInv DEF ClockInv, TimersInv
  <1>1. CASE GetUniqueTimer
    <2>1. PICK t \in TimerId : ~active[t] /\ active' = [active EXCEPT ![t] = TRUE]
      BY <1>1 DEF GetUniqueTimer
    <2>2. /\ UNCHANGED <<cur_time, running, duration, timeout, running_timers, pc, due, phy>>
          /\ pc # "due"
      BY <1>1 DEF GetUniqueTimer, StackFree
    <2>3. \A u \in TimerId : IsRunning(u)' = IsRunning(u) /\ timeout'[u] = timeout[u]
      BY <1>0, <2>1, <2>2 DEF TypeOK, IsRunning, FreeIsStill
    <2>4. pc' = "idle" => \A e \in running_timers' : cur_time < e.timeout
      BY <2>2 DEF ClockInv, EntriesInWindow, InWindow
    <2>5. ClockInv'
      BY <1>0, <2>2, <2>3, <2>4, OthersKeepClock
    <2>6. ClockStep
      BY <2>2, <2>3, SameAlarms DEF Ringing, ClockStep
    <2> QED
      BY <2>5, <2>6
  <1>2. CASE StopAll
    <2>1. \A u \in TimerId : ~IsRunning(u)'
      BY <1>2 DEF StopAll, IsRunning
    <2>2. /\ running_timers' = {} /\ pc # "due"
          /\ UNCHANGED <<cur_time, duration, pc, due, phy>>
      BY <1>2 DEF StopAll, StackFree
    <2>3. ClockInv'
      BY <1>0, <2>1, <2>2, OthersKeepClock
    <2>4. Clock!CancelAll
      BY <2>1, <2>2 DEF Clock!CancelAll
    <2> QED
      BY <2>3, <2>4 DEF ClockStep, Clock!Next
  <1>3. ASSUME NEW t \in TimerId, Run(t)
        PROVE  ClockInv' /\ ClockStep
    <2>1. duration[t] \in Durations
      BY <1>0, <1>3 DEF TypeOK, Run
    <2>2. t # phy /\ pc # "scan" /\ pc # "due"
      BY <1>0, <1>3, TimersAssumption DEF TypeOK, Run, StackFree, TimerId, none
    <2>3. ClockInv' /\ Clock!Start(t)
      BY <1>0, <1>3, <2>1, <2>2, RunStartsAlarm DEF Run
    <2> QED
      BY <2>3 DEF ClockStep, Clock!Next
  <1>4. ASSUME NEW t \in TimerId, Stop(t)
        PROVE  ClockInv' /\ ClockStep
    <2>1. ClockInv' /\ Clock!Cancel(t)
      BY <1>0, <1>4, StopCancelsAlarm DEF Stop
    <2> QED
      BY <2>1 DEF ClockStep, Clock!Next
  <1>5. ASSUME NEW t \in TimerId, Clear(t)
        PROVE  ClockInv' /\ ClockStep
    <2>1. ClockInv' /\ Clock!Cancel(t)
      BY <1>0, <1>5, StopCancelsAlarm DEF Clear
    <2> QED
      BY <2>1 DEF ClockStep, Clock!Next
  <1>6. ASSUME NEW t \in TimerId, PhyDecides(t)
        PROVE  ClockInv' /\ ClockStep
    <2>1. /\ phy' = t /\ duration[t] > 0 /\ ~IsRunning(t)
          /\ UNCHANGED <<cur_time, active, running, duration, timeout, running_timers, pc, due>>
      BY <1>6 DEF PhyDecides
    <2>2. EntriesInWindow' /\ PhyTimerStill' /\ DueIsNow'
      BY <2>1
         DEF ClockInv, EntriesInWindow, InWindow, PhyTimerStill, DueIsNow, IsRunning
    <2>3. ClockStep
      BY <2>1 DEF ClockStep, Deadline, Ringing, IsRunning
    <2> QED
      BY <1>0, <2>2, <2>3 DEF ClockInv
  <1>7. ASSUME NEW t \in TimerId, NEW d \in Durations, Set(t, d)
        PROVE  ClockInv' /\ ClockStep
    <2>1. /\ duration' = [duration EXCEPT ![t] = d] /\ active[t] /\ phy # t
          /\ pc # "scan" /\ pc # "due" /\ UNCHANGED <<cur_time, active, pc, due, phy>>
      BY <1>7 DEF Set, StackFree
    <2>2. CASE IsRunning(t)
      <3>1. RunFor(t, d)
        BY <1>7, <2>2 DEF Set
      <3>2. ClockInv' /\ Clock!Start(t)
        BY <1>0, <2>1, <3>1, RunStartsAlarm
      <3> QED
        BY <3>2 DEF ClockStep, Clock!Next
    <2>3. CASE ~IsRunning(t)
      <3>1. UNCHANGED <<running, timeout, running_timers>>
        BY <1>7, <2>3 DEF Set
      <3>2. \A u \in TimerId : IsRunning(u)' = IsRunning(u) /\ timeout'[u] = timeout[u]
        BY <2>1, <3>1 DEF IsRunning
      <3>3. pc' = "idle" => \A e \in running_timers' : cur_time < e.timeout
        BY <2>1, <3>1 DEF ClockInv, EntriesInWindow, InWindow
      <3>4. phy # none => duration'[phy] = duration[phy]
        BY <1>0, <2>1, TimersAssumption DEF TypeOK
      <3>5. ClockInv'
        BY <1>0, <2>1, <3>1, <3>2, <3>3, <3>4, OthersKeepClock
      <3>6. ClockStep
        BY <2>1, <3>2, SameAlarms DEF Ringing, ClockStep
      <3> QED
        BY <3>5, <3>6
    <2> QED
      BY <2>2, <2>3
  <1>8. CASE PhyRuns
    <2>1. /\ phy # none /\ pc # "scan" /\ RunFor(phy, duration[phy]) /\ phy' = none
          /\ UNCHANGED <<cur_time, active, duration, pc, due>>
      BY <1>8 DEF PhyRuns
    <2>2. PICK t \in TimerId : t = phy /\ active[t]
      BY <1>0, <2>1, TimersAssumption DEF TypeOK, PhyTimerActive
    <2>3. duration[t] > 0 /\ ~IsRunning(t)
      BY <2>1, <2>2 DEF ClockInv, PhyTimerStill
    <2>4. PICK d \in Durations : d = duration[t]
      BY <1>0, <2>3 DEF TypeOK
    <2>5. pc = "due" => t # due
      BY <2>3 DEF ClockInv, DueIsNow
    <2>6. RunFor(t, d)
      BY <2>1, <2>2, <2>4
    <2>7. ClockInv' /\ Clock!Start(t)
      BY <1>0, <2>1, <2>2, <2>5, <2>6, RunStartsAlarm
    <2> QED
      BY <2>7 DEF ClockStep, Clock!Next
  <1>9. CASE Tick
    BY <1>0, <1>9, TickAdvances DEF ClockStep, Clock!Next
  <1>10. CASE Discard \/ PopDue \/ Finish
    BY <1>0, <1>10, ScanKeepsClock
  <1>11. CASE Trigger
    BY <1>0, <1>11, TriggerRings DEF ClockStep, Clock!Next
  <1>12. CASE CallbackReturns
    <2>1. /\ pc = "callback" /\ pc' = "scan"
          /\ UNCHANGED <<cur_time, active, running, duration, timeout, running_timers, due, phy>>
      BY <1>12 DEF CallbackReturns
    <2>2. \A u \in TimerId : IsRunning(u)' = IsRunning(u) /\ timeout'[u] = timeout[u]
      BY <2>1 DEF IsRunning
    <2>3. ClockInv'
      BY <1>0, <2>1, <2>2, OthersKeepClock
    <2>4. Clock!Silence
      BY <2>1, <2>2 DEF Clock!Silence
    <2> QED
      BY <2>3, <2>4 DEF ClockStep, Clock!Next
  <1>13. CASE UNCHANGED vars
    BY <1>0, <1>13
       DEF vars, ClockInv, EntriesInWindow, InWindow, PhyTimerStill, DueIsNow, IsRunning,
           ClockStep, Deadline, Ringing
  <1> QED
    BY <1>1, <1>2, <1>3, <1>4, <1>5, <1>6, <1>7, <1>8, <1>9, <1>10, <1>11, <1>12, <1>13
       DEF Next

(* The callback of a timer is called at the tick it was run for, neither before
   nor after, and that of a timer that was stopped or is run again since is not:
   timer_handler implements AlarmClock. *)
THEOREM ClockSpecHolds == PhyGuarded /\ TimeFits => (Spec => ClockSpec)
  <1> SUFFICES ASSUME PhyGuarded, TimeFits
               PROVE  Spec => ClockSpec
    OBVIOUS
  <1>1. ClockInv /\ [Next]_vars => ClockInv' /\ ClockStep
    BY StepIsClockStep
  <1>2. ClockStep => [Clock!Next]_<<cur_time, Deadline, Ringing>>
    BY DEF ClockStep
  <1> QED
    BY <1>1, <1>2, InitClock, PTL DEF Spec, ClockSpec, Clock!Spec, Deadline, Ringing
===============================================================================
