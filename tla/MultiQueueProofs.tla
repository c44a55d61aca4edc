--------------------------- MODULE MultiQueueProofs ---------------------------
(***************************************************************************)
(* No wake-up of multiqueue_handler is lost, for any number of threads,     *)
(* queues and tasks, any capacities and any order of the steps, spurious    *)
(* wake-ups included; and reset() never destroys the queues under a thread  *)
(* that waits in one.  The properties are inductive together with the types *)
(* and with what each kind of waiting says of the thread that waits.       *)
(***************************************************************************)
EXTENDS MultiQueue, FiniteSetTheorems, TLAPS

(* Only the stack thread waits for tasks, and only one thread at a time, after
   it has stopped the queues, for the others to leave them. *)
Leaving == {"exit", "exit_woken"}
Roles == /\ \A t \in Threads : pc[t] \in {"empty", "empty_woken", "notify_full"} => t = Consumer
         /\ \A t \in Threads : pc[t] \in Leaving => ~running
         /\ \A t, u \in Threads : pc[t] \in Leaving /\ pc[u] \in Leaving => t = u

QueuesInv == /\ MultiQueueTypeOK /\ Roles /\ WaitersCounted /\ NoLostWakeUp
             /\ ConsumerNotified /\ ResetWaitsForWoken /\ ClearedAlone

-----------------------------------------------------------------------------
(* The steps by kind: a thread in the loop of push, the stack thread in that of
   wait_pop, a thread in that of reset, with n the number of the other threads
   that are counted; or a notification or a wake-up. *)
Others(t) == {u \in Threads \ {t} : pc[u] \in Counted}

Pushing(t, q, x) ==
    /\ pc[t] = "out" \/ (pc[t] = "full_woken" /\ arg[t] = <<q, x>>)
    /\ PushLoop(t, q, x, Cardinality(Others(t)))
    /\ arg' = [arg EXCEPT ![t] = <<q, x>>]
    /\ UNCHANGED <<running, spin_idx, cleared>>

Popping ==
    /\ pc[Consumer] \in {"out", "empty_woken"}
    /\ PopLoop(Cardinality(Others(Consumer)))
    /\ UNCHANGED <<running, cleared, arg>>

Resetting(r) ==
    /\ \/ pc[r] = "out" /\ \A t \in Threads : pc[t] \notin Leaving
       \/ pc[r] = "exit_woken"
    /\ running' = FALSE
    /\ ResetLoop(r)
    /\ UNCHANGED <<spin_idx, nof_threads_waiting, arg>>

(* One element less is at most one less. *)
LEMMA WithoutOne ==
    ASSUME NEW S, NEW e, IsFiniteSet(S)
    PROVE  /\ Cardinality(S) \in Nat /\ Cardinality(S \ {e}) \in Nat
           /\ Cardinality(S \ {e}) >= Cardinality(S) - 1
  <1>1. /\ IsFiniteSet(S \ {e})
        /\ Cardinality(S \ {e}) = IF e \in S THEN Cardinality(S) - 1 ELSE Cardinality(S)
    BY FS_RemoveElement
  <1>2. Cardinality(S) \in Nat /\ Cardinality(S \ {e}) \in Nat
    BY <1>1, FS_CardinalityType
  <1> QED
    BY <1>1, <1>2

(* nof_threads_waiting without the thread that takes a step. *)
LEMMA OthersCounted ==
    ASSUME QueuesInv, NEW t \in Threads
    PROVE  /\ IsFiniteSet(Others(t)) /\ Cardinality(Others(t)) \in Nat
           /\ nof_threads_waiting = Cardinality(Others(t)) + (IF pc[t] \in Counted THEN 1 ELSE 0)
  <1> DEFINE C == {u \in Threads : pc[u] \in Counted}
  <1>1. IsFiniteSet(Threads)
    BY MultiQueueAssumption
  <1>2. IsFiniteSet(Others(t)) /\ Cardinality(Others(t)) \in Nat
    BY <1>1, FS_Subset, FS_CardinalityType DEF Others
  <1>3. CASE pc[t] \in Counted
    <2>1. C = Others(t) \cup {t} /\ t \notin Others(t)
      BY <1>3 DEF Others
    <2>2. Cardinality(C) = Cardinality(Others(t)) + 1
      BY <1>2, <2>1, FS_AddElement
    <2> QED
      BY <1>2, <1>3, <2>2 DEF QueuesInv, WaitersCounted
  <1>4. CASE pc[t] \notin Counted
    <2>1. C = Others(t)
      BY <1>4 DEF Others
    <2> QED
      BY <1>2, <1>4, <2>1 DEF QueuesInv, WaitersCounted
  <1> QED
    BY <1>3, <1>4

(* The count is right again when the others are counted as before. *)
LEMMA CountAfter ==
    ASSUME QueuesInv, NEW t \in Threads,
           \A u \in Threads \ {t} : pc'[u] \in Counted <=> pc[u] \in Counted,
           nof_threads_waiting' = Cardinality(Others(t)) + (IF pc'[t] \in Counted THEN 1 ELSE 0)
    PROVE  WaitersCounted'
  <1> DEFINE C == {u \in Threads : pc'[u] \in Counted}
  <1>1. IsFiniteSet(Others(t)) /\ Cardinality(Others(t)) \in Nat
    BY OthersCounted
  <1>2. CASE pc'[t] \in Counted
    <2>1. C = Others(t) \cup {t} /\ t \notin Others(t)
      BY <1>2 DEF Others
    <2>2. Cardinality(C) = Cardinality(Others(t)) + 1
      BY <1>1, <2>1, FS_AddElement
    <2> QED
      BY <1>1, <1>2, <2>2 DEF WaitersCounted
  <1>3. CASE pc'[t] \notin Counted
    <2>1. C = Others(t)
      BY <1>3 DEF Others
    <2>2. nof_threads_waiting' = Cardinality(Others(t))
      BY <1>1, <1>3
    <2>3. nof_threads_waiting' = Cardinality(C)
      BY <2>1, <2>2
    <2> QED
      BY <2>3 DEF WaitersCounted
  <1> QED
    BY <1>2, <1>3

(* The steps of the specification are of these kinds. *)
LEMMA KindsOfSteps ==
    ASSUME QueuesInv, Next
    PROVE  \/ \E t \in Threads, q \in Queues, x \in Task : Pushing(t, q, x)
           \/ Popping
           \/ \E r \in Threads : Resetting(r)
           \/ \E t \in Threads : NotifyEmpty(t) \/ SpuriousWakeUp(t)
           \/ NotifyFull
  <1>0. Consumer \in Threads /\ Resetters \subseteq Threads
    BY MultiQueueAssumption
  <1>1. ASSUME NEW t \in Threads, NEW q \in Queues, NEW x \in Task, Push(t, q, x) \/ TryPush(t, q, x)
        PROVE  Pushing(t, q, x)
    <2>1. nof_threads_waiting = Cardinality(Others(t)) /\ Cardinality(Others(t)) \in Nat
      BY <1>1, OthersCounted DEF Push, TryPush, Counted
    <2> QED
      BY <1>1, <2>1 DEF Push, TryPush, PushLoop, Pushing
  <1>2. ASSUME WaitPop PROVE Popping
    <2>1. nof_threads_waiting = Cardinality(Others(Consumer)) /\ Cardinality(Others(Consumer)) \in Nat
      BY <1>0, <1>2, OthersCounted DEF WaitPop, Counted
    <2> QED
      BY <1>2, <2>1 DEF WaitPop, Popping
  <1>3. ASSUME NEW r \in Resetters, Reset(r) PROVE Resetting(r)
    BY <1>3 DEF Reset, Resetting, At, Leaving
  <1>4. ASSUME NEW t \in Threads, WakeFromFull(t)
        PROVE  \E q \in Queues, x \in Task : Pushing(t, q, x)
    <2>1. /\ nof_threads_waiting = Cardinality(Others(t)) + 1
          /\ Cardinality(Others(t)) \in Nat
      BY <1>4, OthersCounted DEF WakeFromFull, Counted
    <2>2. nof_threads_waiting - 1 = Cardinality(Others(t))
      BY <2>1
    <2>3. PICK q \in Queues, x \in Task : arg[t] = <<q, x>>
      BY DEF QueuesInv, MultiQueueTypeOK
    <2>4. arg = [arg EXCEPT ![t] = <<q, x>>]
      BY <2>3 DEF QueuesInv, MultiQueueTypeOK
    <2>5. PushLoop(t, q, x, Cardinality(Others(t)))
      BY <1>4, <2>2, <2>3 DEF WakeFromFull
    <2> QED
      BY <1>4, <2>3, <2>4, <2>5 DEF WakeFromFull, Pushing
  <1>5. ASSUME WakeFromEmpty PROVE Popping
    <2>1. /\ nof_threads_waiting = Cardinality(Others(Consumer)) + 1
          /\ Cardinality(Others(Consumer)) \in Nat
      BY <1>0, <1>5, OthersCounted DEF WakeFromEmpty, Counted
    <2>2. nof_threads_waiting - 1 = Cardinality(Others(Consumer))
      BY <2>1
    <2> QED
      BY <1>5, <2>2 DEF WakeFromEmpty, Popping
  <1>6. ASSUME NEW r \in Resetters, WakeFromExit(r) PROVE Resetting(r)
    <2>1. ~running
      BY <1>0, <1>6 DEF WakeFromExit, QueuesInv, Roles, Leaving
    <2>2. running' = FALSE
      BY <1>6, <2>1 DEF WakeFromExit, QueuesInv, MultiQueueTypeOK
    <2> QED
      BY <1>6, <2>2 DEF WakeFromExit, Resetting
  <1> QED
    BY <1>0, <1>1, <1>2, <1>3, <1>4, <1>5, <1>6 DEF Next, Resume

-----------------------------------------------------------------------------
(* The round robin comes past every queue. *)
LEMMA SpunCovers ==
    ASSUME spin_idx \in Queues
    PROVE  /\ \A k \in 1 .. NofQueues : Spun(k) \in Queues
           /\ \A q \in Queues : \E k \in 1 .. NofQueues : Spun(k) = q
  <1>1. NofQueues \in Nat \ {0} /\ spin_idx \in 0 .. NofQueues - 1
    BY MultiQueueAssumption DEF Queues
  <1>2. ASSUME NEW k \in 1 .. NofQueues PROVE Spun(k) \in Queues
    BY <1>1 DEF Spun, Queues
  <1>3. ASSUME NEW q \in Queues, q > spin_idx
        PROVE  \E k \in 1 .. NofQueues : Spun(k) = q
    <2>1. q - spin_idx \in 1 .. NofQueues /\ spin_idx + (q - spin_idx) = q /\ q % NofQueues = q
      BY <1>1, <1>3 DEF Queues
    <2> QED
      BY <2>1 DEF Spun
  <1>4. ASSUME NEW q \in Queues, q <= spin_idx
        PROVE  \E k \in 1 .. NofQueues : Spun(k) = q
    <2>1. /\ q - spin_idx + NofQueues \in 1 .. NofQueues
          /\ spin_idx + (q - spin_idx + NofQueues) = q + NofQueues
      BY <1>1, <1>4 DEF Queues
    <2>2. (q + NofQueues) % NofQueues = q
      BY <1>1 DEF Queues
    <2> QED
      BY <2>1, <2>2 DEF Spun
  <1> QED
    BY <1>1, <1>2, <1>3, <1>4 DEF Queues

(* A pop looks at every queue before it waits. *)
LEMMA NoTurnsAllEmpty ==
    ASSUME QueuesInv, Turns = {}
    PROVE  \A q \in Queues : buf[q] = <<>>
  BY SpunCovers DEF QueuesInv, MultiQueueTypeOK, Turns

(* The wake-ups promised are finitely many. *)
LEMMA WokenFinite ==
    ASSUME NEW q
    PROVE  /\ IsFiniteSet(Woken(q)) /\ Cardinality(Woken(q)) \in Nat
           /\ AboutToNotify(q) \in {0, 1}
           /\ WakeUpOwed(q) \in Nat /\ WakeUpOwed(q)' \in Nat
  <1>1. IsFiniteSet(Woken(q)) /\ IsFiniteSet(Woken(q)')
    BY MultiQueueAssumption, FS_Subset DEF Woken
  <1>2. Cardinality(Woken(q)) \in Nat /\ Cardinality(Woken(q)') \in Nat
    BY <1>1, FS_CardinalityType
  <1> QED
    BY <1>1, <1>2 DEF AboutToNotify, WakeUpOwed

-----------------------------------------------------------------------------
(* A thread that finds the queues stopped leaves and tells reset(). *)
LEMMA LeavingKeeps ==
    ASSUME QueuesInv, NEW t \in Threads, ~running,
           pc[t] \in {"out", "full_woken", "empty_woken"},
           NotifyOne([pc EXCEPT ![t] = "out"], At("exit"), "exit_woken"),
           nof_threads_waiting' = Cardinality(Others(t)),
           arg' \in [Threads -> Queues \X Task],
           UNCHANGED <<running, buf, spin_idx, cleared>>
    PROVE  QueuesInv'
  <1> DEFINE f == [pc EXCEPT ![t] = "out"]
  <1>1. pc \in [Threads -> PcStates]
    BY DEF QueuesInv, MultiQueueTypeOK
  <1>2. /\ pc' \in [Threads -> PcStates]
        /\ pc'[t] = "out"
        /\ \A u \in Threads \ {t} : pc'[u] = pc[u] \/ (pc[u] = "exit" /\ pc'[u] = "exit_woken")
        /\ \A u \in Threads : pc'[u] # "exit"
    <2>1. CASE pc' = f /\ At("exit") = {}
      BY <1>1, <2>1 DEF At, PcStates
    <2>2. CASE \E u \in At("exit") : pc' = [f EXCEPT ![u] = "exit_woken"]
      <3>1. PICK u \in At("exit") : pc' = [f EXCEPT ![u] = "exit_woken"]
        BY <2>2
      <3>2. u \in Threads /\ u # t /\ pc[u] = "exit"
        BY <3>1 DEF At
      <3>3. \A v \in Threads \ {u} : pc[v] # "exit"
        BY <3>2 DEF QueuesInv, Roles, Leaving
      <3> QED
        BY <1>1, <3>1, <3>2, <3>3 DEF PcStates
    <2>3. \/ pc' = f /\ At("exit") = {}
          \/ \E u \in At("exit") : pc' = [f EXCEPT ![u] = "exit_woken"]
      BY DEF NotifyOne
    <2> QED
      BY <2>1, <2>2, <2>3
  <1>3. MultiQueueTypeOK'
    <2>1. nof_threads_waiting' \in Nat
      BY OthersCounted
    <2> QED
      BY <1>2, <2>1 DEF QueuesInv, MultiQueueTypeOK
  <1>4. Roles'
    BY <1>2 DEF QueuesInv, Roles, Leaving
  <1>5. WaitersCounted'
    <2>1. \A u \in Threads \ {t} : pc'[u] \in Counted <=> pc[u] \in Counted
      BY <1>2 DEF Counted
    <2>2. pc'[t] \notin Counted
      BY <1>2 DEF Counted
    <2>3. nof_threads_waiting' = Cardinality(Others(t)) + (IF pc'[t] \in Counted THEN 1 ELSE 0)
      BY <2>2, OthersCounted
    <2> QED
      BY <2>1, <2>3, CountAfter
  <1>6. NoLostWakeUp' /\ ConsumerNotified'
    BY DEF NoLostWakeUp, ConsumerNotified
  <1>7. ResetWaitsForWoken'
    BY <1>2 DEF ResetWaitsForWoken, At
  <1>8. ClearedAlone'
    BY <1>2 DEF QueuesInv, ClearedAlone, Counted
  <1> QED
    BY <1>3, <1>4, <1>5, <1>6, <1>7, <1>8 DEF QueuesInv

(* A push blocks on a full queue only, and gives back one place of those it
   was woken for at most. *)
LEMMA PushingKeeps ==
    ASSUME QueuesInv, NEW t \in Threads, NEW q \in Queues, NEW x \in Task, Pushing(t, q, x)
    PROVE  QueuesInv'
  <1> DEFINE n == Cardinality(Others(t))
  <1>0. /\ pc \in [Threads -> PcStates] /\ arg \in [Threads -> Queues \X Task]
        /\ buf \in [Queues -> Seq(Task)]
        /\ Capacity \in [Queues -> Nat \ {0}]
    BY MultiQueueAssumption DEF QueuesInv, MultiQueueTypeOK
  <1>1. /\ pc[t] = "out" \/ (pc[t] = "full_woken" /\ arg[t][1] = q)
        /\ arg' = [arg EXCEPT ![t] = <<q, x>>] /\ arg' \in [Threads -> Queues \X Task]
        /\ UNCHANGED <<running, spin_idx, cleared>>
        /\ n \in Nat
    BY <1>0, OthersCounted DEF Pushing
  <1>2. CASE ~running
    <2>1. /\ nof_threads_waiting' = n /\ UNCHANGED buf
          /\ NotifyOne([pc EXCEPT ![t] = "out"], At("exit"), "exit_woken")
      BY <1>2 DEF Pushing, PushLoop, Active
    <2>2. pc[t] \in {"out", "full_woken", "empty_woken"}
      BY <1>1
    <2> QED
      BY <1>1, <1>2, <2>1, <2>2, LeavingKeeps
  <1>3. CASE running /\ Full(q)
    <2>1. /\ nof_threads_waiting' = n + 1 /\ UNCHANGED buf
          /\ pc' = [pc EXCEPT ![t] = "full"]
      BY <1>3 DEF Pushing, PushLoop, Active
    <2>2. MultiQueueTypeOK'
      BY <1>0, <1>1, <2>1 DEF QueuesInv, MultiQueueTypeOK, PcStates
    <2>3. Roles'
      BY <1>0, <1>1, <2>1 DEF QueuesInv, Roles, Leaving
    <2>4. WaitersCounted'
      BY <1>0, <1>1, <2>1, CountAfter DEF Counted
    <2>5. NoLostWakeUp'
      <3> SUFFICES ASSUME NEW r \in Queues, Waiting(r)' # {}
                   PROVE  Capacity[r] - Len(buf'[r]) <= WakeUpOwed(r)'
        BY DEF NoLostWakeUp
      <3>1. WakeUpOwed(r)' \in Nat
        BY WokenFinite
      <3>2. CASE r = q
        BY <1>0, <1>3, <2>1, <3>1, <3>2 DEF Full
      <3>3. CASE r # q
        <4>1. Woken(r)' = Woken(r) /\ Waiting(r)' = Waiting(r)
          BY <1>0, <1>1, <2>1, <3>3 DEF Woken, Waiting
        <4>2. AboutToNotify(r)' = AboutToNotify(r)
          BY <1>0, <1>1, <2>1 DEF AboutToNotify
        <4>3. WakeUpOwed(r)' = WakeUpOwed(r)
          BY <4>1, <4>2 DEF WakeUpOwed
        <4> QED
          BY <1>3, <2>1, <4>1, <4>3 DEF QueuesInv, NoLostWakeUp
      <3> QED
        BY <3>2, <3>3
    <2>6. ConsumerNotified'
      BY <1>0, <1>1, <1>3, <2>1 DEF QueuesInv, ConsumerNotified, At
    <2>7. ResetWaitsForWoken' /\ ClearedAlone'
      BY <1>0, <1>1, <1>3, <2>1 DEF QueuesInv, Roles, Leaving, ResetWaitsForWoken, ClearedAlone, At
    <2> QED
      BY <2>2, <2>3, <2>4, <2>5, <2>6, <2>7 DEF QueuesInv
  <1>4. CASE running /\ ~Full(q)
    <2>1. /\ nof_threads_waiting' = n
          /\ buf' = [buf EXCEPT ![q] = Append(@, x)]
          /\ pc' = [pc EXCEPT ![t] = "notify_empty"]
      BY <1>4 DEF Pushing, PushLoop, Active
    <2>2. MultiQueueTypeOK'
      <3>1. /\ buf' \in [Queues -> Seq(Task)]
            /\ \A r \in Queues : Len(buf'[r]) = IF r = q THEN Len(buf[r]) + 1 ELSE Len(buf[r])
        BY <1>0, <2>1
      <3>2. Len(buf[q]) < Capacity[q]
        BY <1>0, <1>4 DEF QueuesInv, MultiQueueTypeOK, Full
      <3>3. \A r \in Queues : Len(buf'[r]) <= Capacity[r]
        BY <1>0, <3>1, <3>2 DEF QueuesInv, MultiQueueTypeOK
      <3> QED
        BY <1>0, <1>1, <2>1, <3>1, <3>3 DEF QueuesInv, MultiQueueTypeOK, PcStates
    <2>3. Roles'
      BY <1>0, <1>1, <2>1 DEF QueuesInv, Roles, Leaving
    <2>4. WaitersCounted'
      BY <1>0, <1>1, <2>1, CountAfter DEF Counted
    <2>5. NoLostWakeUp'
      <3> SUFFICES ASSUME NEW r \in Queues, Waiting(r)' # {}
                   PROVE  Capacity[r] - Len(buf'[r]) <= WakeUpOwed(r)'
        BY DEF NoLostWakeUp
      <3>0. /\ Waiting(r) # {}
            /\ AboutToNotify(r)' = AboutToNotify(r)
        BY <1>0, <1>1, <2>1 DEF AboutToNotify, Waiting
      <3>1. /\ Capacity[r] - Len(buf[r]) <= WakeUpOwed(r)
            /\ Len(buf[r]) \in Nat /\ Capacity[r] \in Nat
        BY <1>0, <1>4, <3>0 DEF QueuesInv, NoLostWakeUp
      <3>2. /\ IsFiniteSet(Woken(r)) /\ Cardinality(Woken(r)) \in Nat
            /\ AboutToNotify(r) \in {0, 1}
        BY WokenFinite
      <3>3. CASE r = q
        <4>1. Len(buf'[r]) = Len(buf[r]) + 1
          BY <1>0, <2>1, <3>3
        <4>2. Woken(r)' = Woken(r) \ {t}
          BY <1>0, <1>1, <2>1, <3>3 DEF Woken
        <4>3. /\ Cardinality(Woken(r)') \in Nat
              /\ Cardinality(Woken(r)') >= Cardinality(Woken(r)) - 1
          BY <3>2, <4>2, WithoutOne
        <4> QED
          BY <3>0, <3>1, <3>2, <4>1, <4>3 DEF WakeUpOwed
      <3>4. CASE r # q
        <4>1. Woken(r)' = Woken(r)
          BY <1>0, <1>1, <2>1, <3>4 DEF Woken
        <4>2. buf'[r] = buf[r]
          BY <1>0, <2>1, <3>4
        <4> QED
          BY <3>0, <3>1, <4>1, <4>2 DEF WakeUpOwed
      <3> QED
        BY <3>3, <3>4
    <2>6. ConsumerNotified'
      BY <1>0, <1>1, <2>1 DEF ConsumerNotified, At
    <2>7. ResetWaitsForWoken' /\ ClearedAlone'
      BY <1>0, <1>1, <1>4, <2>1 DEF QueuesInv, Roles, Leaving, ResetWaitsForWoken, ClearedAlone, At
    <2> QED
      BY <2>2, <2>3, <2>4, <2>5, <2>6, <2>7 DEF QueuesInv
  <1> QED
    BY <1>2, <1>3, <1>4

(* A pop frees one place, and promises it if somebody waits for it. *)
LEMMA PoppingKeeps ==
    ASSUME QueuesInv, Popping
    PROVE  QueuesInv'
  <1> DEFINE n == Cardinality(Others(Consumer))
  <1>0. /\ pc \in [Threads -> PcStates] /\ arg \in [Threads -> Queues \X Task]
        /\ buf \in [Queues -> Seq(Task)] /\ spin_idx \in Queues
        /\ Capacity \in [Queues -> Nat \ {0}] /\ Consumer \in Threads
    BY MultiQueueAssumption DEF QueuesInv, MultiQueueTypeOK
  <1>1. /\ pc[Consumer] \in {"out", "empty_woken"}
        /\ UNCHANGED <<running, cleared, arg>>
        /\ n \in Nat /\ IsFiniteSet(Others(Consumer))
    BY <1>0, OthersCounted DEF Popping
  <1>2. CASE ~running
    <2>1. /\ nof_threads_waiting' = n /\ UNCHANGED <<buf, spin_idx>>
          /\ NotifyOne([pc EXCEPT ![Consumer] = "out"], At("exit"), "exit_woken")
      BY <1>2 DEF Popping, PopLoop
    <2>2. pc[Consumer] \in {"out", "full_woken", "empty_woken"}
      BY <1>1
    <2> QED
      BY <1>0, <1>1, <1>2, <2>1, <2>2, LeavingKeeps
  <1>3. CASE running /\ Turns = {}
    <2>1. /\ nof_threads_waiting' = n + 1 /\ UNCHANGED <<buf, spin_idx>>
          /\ pc' = [pc EXCEPT ![Consumer] = "empty"]
      BY <1>3 DEF Popping, PopLoop, round_robin_pop_
    <2>2. MultiQueueTypeOK'
      BY <1>0, <1>1, <2>1 DEF QueuesInv, MultiQueueTypeOK, PcStates
    <2>3. Roles'
      BY <1>0, <1>1, <2>1 DEF QueuesInv, Roles, Leaving
    <2>4. WaitersCounted'
      BY <1>0, <1>1, <2>1, CountAfter DEF Counted
    <2>5. NoLostWakeUp'
      <3> SUFFICES ASSUME NEW r \in Queues, Waiting(r)' # {}
                   PROVE  Capacity[r] - Len(buf'[r]) <= WakeUpOwed(r)'
        BY DEF NoLostWakeUp
      <3>1. Woken(r)' = Woken(r) /\ Waiting(r)' = Waiting(r)
        BY <1>0, <1>1, <2>1 DEF Woken, Waiting
      <3>2. AboutToNotify(r)' = AboutToNotify(r)
        BY <1>0, <1>1, <2>1 DEF AboutToNotify
      <3> QED
        BY <1>3, <2>1, <3>1, <3>2 DEF QueuesInv, NoLostWakeUp, WakeUpOwed
    <2>6. ConsumerNotified'
      BY <1>3, <2>1, NoTurnsAllEmpty DEF ConsumerNotified
    <2>7. ResetWaitsForWoken' /\ ClearedAlone'
      BY <1>0, <1>1, <1>3, <2>1 DEF QueuesInv, Roles, Leaving, ResetWaitsForWoken, ClearedAlone, At
    <2> QED
      BY <2>2, <2>3, <2>4, <2>5, <2>6, <2>7 DEF QueuesInv
  <1>4. CASE running /\ Turns # {}
    <2>0. PICK k \in Turns : /\ spin_idx' = Spun(k)
                             /\ buf' = [buf EXCEPT ![Spun(k)] = Tail(@)]
      BY <1>4 DEF Popping, PopLoop, round_robin_pop_
    <2>1. /\ nof_threads_waiting' = n
          /\ pc' = [pc EXCEPT ![Consumer] = IF n > 0 THEN "notify_full" ELSE "out"]
      BY <1>4 DEF Popping, PopLoop, OwesWakeUp
    <2>2. spin_idx' \in Queues /\ buf[spin_idx'] # <<>>
      BY <1>0, <2>0, SpunCovers DEF Turns
    <2>3. /\ buf' \in [Queues -> Seq(Task)]
          /\ \A r \in Queues : Len(buf'[r]) = IF r = spin_idx' THEN Len(buf[r]) - 1 ELSE Len(buf[r])
      BY <1>0, <2>0, <2>2
    <2>4. MultiQueueTypeOK'
      <3>1. \A r \in Queues : Len(buf'[r]) <= Capacity[r]
        BY <1>0, <2>3 DEF QueuesInv, MultiQueueTypeOK
      <3> QED
        BY <1>0, <1>1, <2>1, <2>2, <2>3, <3>1 DEF QueuesInv, MultiQueueTypeOK, PcStates
    <2>5. Roles'
      BY <1>0, <1>1, <2>1 DEF QueuesInv, Roles, Leaving
    <2>6. WaitersCounted'
      <3>1. /\ pc'[Consumer] \notin Counted
            /\ \A u \in Threads \ {Consumer} : pc'[u] = pc[u]
        BY <1>0, <2>1 DEF Counted
      <3>2. nof_threads_waiting' = Cardinality(Others(Consumer)) + (IF pc'[Consumer] \in Counted THEN 1 ELSE 0)
        BY <1>1, <2>1, <3>1
      <3> QED
        BY <1>0, <3>1, <3>2, CountAfter
    <2>7. NoLostWakeUp'
      <3> SUFFICES ASSUME NEW r \in Queues, Waiting(r)' # {}
                   PROVE  Capacity[r] - Len(buf'[r]) <= WakeUpOwed(r)'
        BY DEF NoLostWakeUp
      <3>1. Woken(r)' = Woken(r) /\ Waiting(r) # {} /\ AboutToNotify(r) = 0
        BY <1>0, <1>1, <2>1 DEF Woken, Waiting, AboutToNotify
      <3>2. Cardinality(Woken(r)) \in Nat
        BY WokenFinite
      <3>3. Capacity[r] - Len(buf[r]) <= Cardinality(Woken(r))
        BY <1>4, <3>1, <3>2 DEF QueuesInv, NoLostWakeUp, WakeUpOwed
      <3>4. Len(buf[r]) \in Nat /\ Capacity[r] \in Nat
        BY <1>0
      <3>5. CASE r = spin_idx'
        <4>1. PICK u \in Others(Consumer) : TRUE
          BY <1>0, <1>1, <3>1 DEF Others, Waiting, Counted
        <4>2. n # 0
          BY <1>1, <4>1, FS_EmptySet
        <4>3. AboutToNotify(r)' = 1
          BY <1>0, <1>1, <2>1, <3>5, <4>2 DEF AboutToNotify
        <4>4. Len(buf'[r]) = Len(buf[r]) - 1
          BY <2>3, <3>5
        <4> QED
          BY <3>1, <3>2, <3>3, <3>4, <4>3, <4>4 DEF WakeUpOwed
      <3>6. CASE r # spin_idx'
        <4>1. Len(buf'[r]) = Len(buf[r]) /\ AboutToNotify(r)' = 0
          BY <2>3, <3>6 DEF AboutToNotify
        <4> QED
          BY <3>1, <3>2, <3>3, <4>1 DEF WakeUpOwed
      <3> QED
        BY <3>5, <3>6
    <2>8. ConsumerNotified'
      BY <1>0, <2>1 DEF ConsumerNotified
    <2>9. ResetWaitsForWoken' /\ ClearedAlone'
      BY <1>0, <1>1, <1>4, <2>1 DEF QueuesInv, Roles, Leaving, ResetWaitsForWoken, ClearedAlone, At
    <2> QED
      BY <2>4, <2>5, <2>6, <2>7, <2>8, <2>9 DEF QueuesInv
  <1> QED
    BY <1>2, <1>3, <1>4

(* reset() tells every thread that waits, and goes when nobody does. *)
LEMMA ResettingKeeps ==
    ASSUME QueuesInv, NEW r \in Threads, Resetting(r)
    PROVE  QueuesInv'
  <1>0. /\ pc \in [Threads -> PcStates] /\ arg \in [Threads -> Queues \X Task]
        /\ buf \in [Queues -> Seq(Task)]
        /\ Capacity \in [Queues -> Nat \ {0}]
    BY MultiQueueAssumption DEF QueuesInv, MultiQueueTypeOK
  <1>1. /\ pc[r] \in {"out", "exit_woken"}
        /\ \A u \in Threads \ {r} : pc[u] \notin Leaving
        /\ running' = FALSE
        /\ UNCHANGED <<spin_idx, nof_threads_waiting, arg>>
    BY DEF Resetting, QueuesInv, Roles, Leaving
  <1>2. NoLostWakeUp' /\ ConsumerNotified'
    BY <1>1 DEF NoLostWakeUp, ConsumerNotified
  <1>3. CASE nof_threads_waiting > 0
    <2> DEFINE f == [AllFullWoken EXCEPT ![r] = "exit"]
    <2>1. /\ NotifyOne(f, At("empty"), "empty_woken")
          /\ UNCHANGED <<buf, cleared>>
      BY <1>3 DEF Resetting, ResetLoop
    <2>2. /\ f \in [Threads -> PcStates] /\ f[r] = "exit"
          /\ \A u \in Threads \ {r} : f[u] = IF pc[u] = "full" THEN "full_woken" ELSE pc[u]
      BY <1>0 DEF AllFullWoken, PcStates
    <2> HIDE DEF f
    <2>3. /\ pc' \in [Threads -> PcStates] /\ pc'[r] = "exit"
          /\ \A u \in Threads \ {r} :
                pc'[u] = CASE pc[u] = "full" -> "full_woken"
                           [] pc[u] = "empty" -> "empty_woken"
                           [] OTHER -> pc[u]
      <3>1. CASE At("empty") = {}
        <4>1. pc' = f
          BY <2>1, <3>1 DEF NotifyOne
        <4> QED
          BY <2>2, <3>1, <4>1 DEF At
      <3>2. CASE At("empty") # {}
        <4>1. PICK u \in At("empty") : pc' = [f EXCEPT ![u] = "empty_woken"]
          BY <2>1, <3>2 DEF NotifyOne
        <4>2. u \in Threads /\ u # r /\ pc[u] = "empty"
          BY <1>1, <4>1 DEF At
        <4>3. \A v \in Threads \ {u} : pc[v] # "empty"
          BY <4>2 DEF QueuesInv, Roles
        <4> QED
          BY <2>2, <4>1, <4>2, <4>3 DEF PcStates
      <3> QED
        BY <3>1, <3>2
    <2>4. MultiQueueTypeOK'
      BY <1>1, <2>1, <2>3 DEF QueuesInv, MultiQueueTypeOK
    <2>5. Roles'
      BY <1>1, <2>3 DEF QueuesInv, Roles, Leaving
    <2>6. WaitersCounted'
      <3>1. {u \in Threads : pc'[u] \in Counted} = {u \in Threads : pc[u] \in Counted}
        BY <1>1, <2>3 DEF Counted
      <3> QED
        BY <1>1, <3>1 DEF QueuesInv, WaitersCounted
    <2>7. ResetWaitsForWoken'
      BY <1>1, <1>3, <2>3 DEF ResetWaitsForWoken, At
    <2>8. ClearedAlone'
      BY <1>1, <2>1, <2>3 DEF QueuesInv, ClearedAlone, Counted
    <2> QED
      BY <1>2, <2>4, <2>5, <2>6, <2>7, <2>8 DEF QueuesInv
  <1>4. CASE ~(nof_threads_waiting > 0)
    <2>1. /\ nof_threads_waiting = 0
          /\ buf' = [q \in Queues |-> <<>>] /\ cleared' = TRUE
          /\ pc' = [pc EXCEPT ![r] = "out"]
      BY <1>4 DEF Resetting, ResetLoop
    <2>2. {u \in Threads : pc[u] \in Counted} = {}
      <3>1. IsFiniteSet({u \in Threads : pc[u] \in Counted})
        BY MultiQueueAssumption, FS_Subset
      <3> QED
        BY <2>1, <3>1, FS_EmptySet DEF QueuesInv, WaitersCounted
    <2>3. {u \in Threads : pc'[u] \in Counted} = {}
      BY <1>0, <2>1, <2>2 DEF Counted
    <2>4. MultiQueueTypeOK'
      <3>1. buf' \in [Queues -> Seq(Task)] /\ \A q \in Queues : Len(buf'[q]) <= Capacity[q]
        BY <1>0, <2>1
      <3> QED
        BY <1>0, <1>1, <2>1, <3>1 DEF QueuesInv, MultiQueueTypeOK, PcStates
    <2>5. Roles'
      BY <1>0, <1>1, <2>1 DEF QueuesInv, Roles, Leaving
    <2>6. WaitersCounted'
      BY <1>1, <2>1, <2>2, <2>3 DEF QueuesInv, WaitersCounted
    <2>7. ResetWaitsForWoken'
      BY <1>0, <1>1, <2>1 DEF ResetWaitsForWoken, At, Leaving
    <2>8. ClearedAlone'
      BY <1>1, <2>3 DEF ClearedAlone
    <2> QED
      BY <1>2, <2>4, <2>5, <2>6, <2>7, <2>8 DEF QueuesInv
  <1> QED
    BY <1>3, <1>4

(* The notification of a push wakes the stack thread if it waits. *)
LEMMA NotifyEmptyKeeps ==
    ASSUME QueuesInv, NEW t \in Threads, NotifyEmpty(t)
    PROVE  QueuesInv'
  <1>0. pc \in [Threads -> PcStates] /\ Consumer \in Threads
    BY MultiQueueAssumption DEF QueuesInv, MultiQueueTypeOK
  <1>1. /\ pc[t] = "notify_empty"
        /\ NotifyOne([pc EXCEPT ![t] = "out"], At("empty"), "empty_woken")
        /\ UNCHANGED <<running, buf, spin_idx, nof_threads_waiting, cleared, arg>>
    BY DEF NotifyEmpty
  <1>2. /\ pc' \in [Threads -> PcStates] /\ pc'[t] = "out"
        /\ \A u \in Threads \ {t} : pc'[u] = IF pc[u] = "empty" THEN "empty_woken" ELSE pc[u]
    <2>1. CASE At("empty") = {}
      BY <1>0, <1>1, <2>1 DEF NotifyOne, At, PcStates
    <2>2. CASE At("empty") # {}
      <3>1. PICK u \in At("empty") : pc' = [[pc EXCEPT ![t] = "out"] EXCEPT ![u] = "empty_woken"]
        BY <1>1, <2>2 DEF NotifyOne
      <3>2. u \in Threads /\ u # t /\ pc[u] = "empty"
        BY <1>1, <3>1 DEF At
      <3>3. \A v \in Threads \ {u} : pc[v] # "empty"
        BY <3>2 DEF QueuesInv, Roles
      <3> QED
        BY <1>0, <3>1, <3>2, <3>3 DEF PcStates
    <2> QED
      BY <2>1, <2>2
  <1>3. MultiQueueTypeOK'
    BY <1>1, <1>2 DEF QueuesInv, MultiQueueTypeOK
  <1>4. Roles'
    BY <1>1, <1>2 DEF QueuesInv, Roles, Leaving
  <1>5. WaitersCounted'
    <2>1. {u \in Threads : pc'[u] \in Counted} = {u \in Threads : pc[u] \in Counted}
      BY <1>1, <1>2 DEF Counted
    <2> QED
      BY <1>1, <2>1 DEF QueuesInv, WaitersCounted
  <1>6. NoLostWakeUp'
    <2> SUFFICES ASSUME NEW r \in Queues, running', Waiting(r)' # {}
                 PROVE  Capacity[r] - Len(buf'[r]) <= WakeUpOwed(r)'
      BY DEF NoLostWakeUp
    <2>1. Woken(r)' = Woken(r) /\ Waiting(r)' = Waiting(r)
      BY <1>0, <1>1, <1>2 DEF Woken, Waiting
    <2>2. AboutToNotify(r)' = AboutToNotify(r)
      BY <1>0, <1>1, <1>2 DEF AboutToNotify
    <2> QED
      BY <1>1, <2>1, <2>2 DEF QueuesInv, NoLostWakeUp, WakeUpOwed
  <1>7. ConsumerNotified'
    BY <1>0, <1>1, <1>2 DEF ConsumerNotified
  <1>8. ResetWaitsForWoken' /\ ClearedAlone'
    BY <1>1, <1>2 DEF QueuesInv, ResetWaitsForWoken, ClearedAlone, At, Counted
  <1> QED
    BY <1>3, <1>4, <1>5, <1>6, <1>7, <1>8 DEF QueuesInv

(* A thread that wakes by itself is one more that was woken. *)
LEMMA SpuriousWakeUpKeeps ==
    ASSUME QueuesInv, NEW t \in Threads, SpuriousWakeUp(t)
    PROVE  QueuesInv'
  <1>0. pc \in [Threads -> PcStates] /\ Consumer \in Threads
    BY MultiQueueAssumption DEF QueuesInv, MultiQueueTypeOK
  <1>1. /\ pc[t] \in {"full", "empty", "exit"}
        /\ UNCHANGED <<running, buf, spin_idx, nof_threads_waiting, cleared, arg>>
        /\ pc' \in [Threads -> PcStates]
        /\ pc'[t] = CASE pc[t] = "full" -> "full_woken"
                      [] pc[t] = "empty" -> "empty_woken"
                      [] pc[t] = "exit" -> "exit_woken"
        /\ \A u \in Threads \ {t} : pc'[u] = pc[u]
    BY <1>0 DEF SpuriousWakeUp, PcStates
  <1>2. MultiQueueTypeOK'
    BY <1>1 DEF QueuesInv, MultiQueueTypeOK
  <1>3. Roles'
    BY <1>1 DEF QueuesInv, Roles, Leaving
  <1>4. WaitersCounted'
    <2>1. {u \in Threads : pc'[u] \in Counted} = {u \in Threads : pc[u] \in Counted}
      BY <1>1 DEF Counted
    <2> QED
      BY <1>1, <2>1 DEF QueuesInv, WaitersCounted
  <1>5. NoLostWakeUp'
    <2> SUFFICES ASSUME NEW r \in Queues, running', Waiting(r)' # {}
                 PROVE  Capacity[r] - Len(buf'[r]) <= WakeUpOwed(r)'
      BY DEF NoLostWakeUp
    <2>1. Waiting(r) # {} /\ AboutToNotify(r)' = AboutToNotify(r)
      BY <1>0, <1>1 DEF Waiting, AboutToNotify
    <2>2. /\ Capacity[r] - Len(buf[r]) <= Cardinality(Woken(r)) + AboutToNotify(r)
          /\ Capacity[r] \in Nat /\ Len(buf[r]) \in Nat
      BY <1>1, <2>1, MultiQueueAssumption
      DEF QueuesInv, MultiQueueTypeOK, NoLostWakeUp, WakeUpOwed
    <2>3. Cardinality(Woken(r)') >= Cardinality(Woken(r)) /\ Cardinality(Woken(r)') \in Nat
      <3>1. Woken(r) \subseteq Woken(r)'
        BY <1>1 DEF Woken
      <3>2. IsFiniteSet(Woken(r)')
        BY MultiQueueAssumption, FS_Subset DEF Woken
      <3> QED
        BY <3>1, <3>2, FS_Subset, FS_CardinalityType
    <2>4. Cardinality(Woken(r)) \in Nat /\ AboutToNotify(r) \in {0, 1}
      BY WokenFinite
    <2> QED
      BY <1>1, <2>1, <2>2, <2>3, <2>4 DEF WakeUpOwed
  <1>6. ConsumerNotified'
    BY <1>0, <1>1 DEF QueuesInv, ConsumerNotified, At
  <1>7. ResetWaitsForWoken' /\ ClearedAlone'
    BY <1>1 DEF QueuesInv, ResetWaitsForWoken, ClearedAlone, At, Counted
  <1> QED
    BY <1>2, <1>3, <1>4, <1>5, <1>6, <1>7 DEF QueuesInv

(* The notification of a pop wakes one thread, the one it was owed to. *)
LEMMA NotifyFullKeeps ==
    ASSUME QueuesInv, NotifyFull
    PROVE  QueuesInv'
  <1>0. pc \in [Threads -> PcStates] /\ Consumer \in Threads /\ spin_idx \in Queues
    BY MultiQueueAssumption DEF QueuesInv, MultiQueueTypeOK
  <1>1. /\ pc[Consumer] = "notify_full"
        /\ NotifyOne([pc EXCEPT ![Consumer] = "out"], Waiting(spin_idx), "full_woken")
        /\ UNCHANGED <<running, buf, spin_idx, nof_threads_waiting, cleared, arg>>
    BY DEF NotifyFull
  <1>2. /\ pc' \in [Threads -> PcStates] /\ pc'[Consumer] = "out"
        /\ \/ Waiting(spin_idx) = {} /\ \A u \in Threads \ {Consumer} : pc'[u] = pc[u]
           \/ \E v \in Waiting(spin_idx) \ {Consumer} :
                 /\ pc'[v] = "full_woken"
                 /\ \A u \in Threads \ {Consumer, v} : pc'[u] = pc[u]
    <2>1. CASE Waiting(spin_idx) = {}
      BY <1>0, <1>1, <2>1 DEF NotifyOne, PcStates
    <2>2. CASE Waiting(spin_idx) # {}
      <3>1. PICK v \in Waiting(spin_idx) :
               pc' = [[pc EXCEPT ![Consumer] = "out"] EXCEPT ![v] = "full_woken"]
        BY <1>1, <2>2 DEF NotifyOne
      <3>2. v \in Threads /\ v # Consumer
        BY <1>1, <3>1 DEF Waiting
      <3> QED
        BY <1>0, <3>1, <3>2 DEF PcStates
    <2> QED
      BY <2>1, <2>2
  <1>3. \A u \in Threads \ {Consumer} : pc'[u] = pc[u] \/ (pc[u] = "full" /\ pc'[u] = "full_woken")
    BY <1>2 DEF Waiting
  <1>4. MultiQueueTypeOK'
    BY <1>1, <1>2 DEF QueuesInv, MultiQueueTypeOK
  <1>5. Roles'
    BY <1>0, <1>1, <1>2, <1>3 DEF QueuesInv, Roles, Leaving
  <1>6. WaitersCounted'
    <2>1. {u \in Threads : pc'[u] \in Counted} = {u \in Threads : pc[u] \in Counted}
      BY <1>0, <1>1, <1>2, <1>3 DEF Counted
    <2> QED
      BY <1>1, <2>1 DEF QueuesInv, WaitersCounted
  <1>7. NoLostWakeUp'
    <2> SUFFICES ASSUME NEW r \in Queues, running', Waiting(r)' # {}
                 PROVE  Capacity[r] - Len(buf'[r]) <= WakeUpOwed(r)'
      BY DEF NoLostWakeUp
    <2>1. Waiting(r) # {} /\ AboutToNotify(r)' = 0
      BY <1>0, <1>1, <1>2, <1>3 DEF Waiting, AboutToNotify
    <2>2. /\ Capacity[r] - Len(buf[r]) <= Cardinality(Woken(r)) + AboutToNotify(r)
          /\ Capacity[r] \in Nat /\ Len(buf[r]) \in Nat
      BY <1>1, <2>1, MultiQueueAssumption
      DEF QueuesInv, MultiQueueTypeOK, NoLostWakeUp, WakeUpOwed
    <2>3. IsFiniteSet(Woken(r)) /\ Cardinality(Woken(r)) \in Nat
      BY WokenFinite
    <2>4. CASE r = spin_idx
      <3>1. PICK v \in Waiting(r) \ {Consumer} :
               /\ pc'[v] = "full_woken"
               /\ \A u \in Threads \ {Consumer, v} : pc'[u] = pc[u]
        BY <1>2, <2>1, <2>4
      <3>2. Woken(r)' = Woken(r) \cup {v} /\ v \notin Woken(r)
        BY <1>0, <1>1, <1>2, <3>1 DEF Woken, Waiting
      <3>3. Cardinality(Woken(r)') = Cardinality(Woken(r)) + 1
        BY <2>3, <3>2, FS_AddElement
      <3>4. AboutToNotify(r) = 1
        BY <1>1, <2>4 DEF AboutToNotify
      <3> QED
        BY <1>1, <2>1, <2>2, <2>3, <3>3, <3>4 DEF WakeUpOwed
    <2>5. CASE r # spin_idx
      <3>1. Woken(r)' = Woken(r)
        BY <1>0, <1>1, <1>2, <2>5 DEF Woken, Waiting
      <3>2. AboutToNotify(r) = 0
        BY <2>5 DEF AboutToNotify
      <3> QED
        BY <1>1, <2>1, <2>2, <3>1, <3>2 DEF WakeUpOwed
    <2> QED
      BY <2>4, <2>5
  <1>8. ConsumerNotified'
    BY <1>0, <1>2 DEF ConsumerNotified
  <1>9. ResetWaitsForWoken' /\ ClearedAlone'
    BY <1>0, <1>1, <1>2, <1>3 DEF QueuesInv, ResetWaitsForWoken, ClearedAlone, At, Counted
  <1> QED
    BY <1>4, <1>5, <1>6, <1>7, <1>8, <1>9 DEF QueuesInv

-----------------------------------------------------------------------------
LEMMA QueuesInvInit == Init => QueuesInv
  <1> SUFFICES ASSUME Init PROVE QueuesInv
    OBVIOUS
  <1>1. /\ \A t \in Threads : pc[t] = "out"
        /\ pc \in [Threads -> PcStates] /\ running = TRUE /\ cleared = FALSE
        /\ 0 \in Queues /\ Capacity \in [Queues -> Nat \ {0}]
    BY MultiQueueAssumption DEF Init, PcStates, Queues
  <1>2. MultiQueueTypeOK
    <2>1. arg \in [Threads -> Queues \X Task]
      BY <1>1 DEF Init
    <2>2. buf \in [Queues -> Seq(Task)] /\ \A q \in Queues : Len(buf[q]) <= Capacity[q]
      BY <1>1 DEF Init
    <2> QED
      BY <1>1, <2>1, <2>2 DEF Init, MultiQueueTypeOK
  <1>3. Roles /\ ResetWaitsForWoken /\ ClearedAlone /\ NoLostWakeUp /\ ConsumerNotified
    BY <1>1 DEF Roles, Leaving, ResetWaitsForWoken, ClearedAlone, Counted, NoLostWakeUp,
                ConsumerNotified, Waiting, At, Init
  <1>4. WaitersCounted
    <2>1. {t \in Threads : pc[t] \in Counted} = {}
      BY <1>1 DEF Counted
    <2> QED
      BY <2>1, FS_EmptySet DEF WaitersCounted, Init
  <1> QED
    BY <1>2, <1>3, <1>4 DEF QueuesInv

LEMMA QueuesInvStep == QueuesInv /\ [Next]_mqvars => QueuesInv'
  <1> SUFFICES ASSUME QueuesInv, [Next]_mqvars PROVE QueuesInv'
    OBVIOUS
  <1>1. CASE Next
    BY <1>1, KindsOfSteps, PushingKeeps, PoppingKeeps, ResettingKeeps, NotifyEmptyKeeps,
       SpuriousWakeUpKeeps, NotifyFullKeeps
  <1>2. CASE UNCHANGED mqvars
    BY <1>2 DEF mqvars, QueuesInv, MultiQueueTypeOK, Roles, WaitersCounted, NoLostWakeUp, ConsumerNotified,
                ResetWaitsForWoken, ClearedAlone, WakeUpOwed, AboutToNotify, Woken, Waiting, At
  <1> QED
    BY <1>1, <1>2

(* The tasks, the capacities and the states of the threads are what they are
   declared to be in every reachable state. *)
THEOREM QueuesTyped == MultiQueueSpec => []MultiQueueTypeOK
  <1>1. QueuesInv => MultiQueueTypeOK
    BY DEF QueuesInv
  <1> QED
    BY <1>1, QueuesInvInit, QueuesInvStep, PTL DEF MultiQueueSpec

(* No push waits for room that is there and promised to nobody: one notify_one
   for each pop (multiqueue.h wait_pop) is enough. *)
THEOREM PushesWoken == MultiQueueSpec => []NoLostWakeUp
  <1>1. QueuesInv => NoLostWakeUp
    BY DEF QueuesInv
  <1> QED
    BY <1>1, QueuesInvInit, QueuesInvStep, PTL DEF MultiQueueSpec

(* The stack thread never sleeps on a task that nobody will tell it of. *)
THEOREM PopsWoken == MultiQueueSpec => []ConsumerNotified
  <1>1. QueuesInv => ConsumerNotified
    BY DEF QueuesInv
  <1> QED
    BY <1>1, QueuesInvInit, QueuesInvStep, PTL DEF MultiQueueSpec

(* reset() waits for threads that were told to leave, and destroys the queues
   when none of them is in one (multiqueue.h reset). *)
THEOREM ResetSafe == MultiQueueSpec => [](WaitersCounted /\ ResetWaitsForWoken /\ ClearedAlone)
  <1>1. QueuesInv => WaitersCounted /\ ResetWaitsForWoken /\ ClearedAlone
    BY DEF QueuesInv
  <1> QED
    BY <1>1, QueuesInvInit, QueuesInvStep, PTL DEF MultiQueueSpec

(* nof_threads_waiting is the number of threads that reset() has to wait for. *)
THEOREM EveryWaiterCounted == MultiQueueSpec => []WaitersCounted
  BY ResetSafe, PTL

-----------------------------------------------------------------------------
(* Every step is one of BlockingQueues, or changes nothing it tells of. *)
Blocked == {"full", "full_woken"}
Pending == [t \in Threads |-> IF pc[t] \in Blocked THEN arg[t] ELSE <<>>]

Promised == Promise!Next \/ UNCHANGED <<running, buf, Pending>>

LEMMA PendingIs == UNCHANGED Promise!bqvars <=> UNCHANGED <<running, buf, Pending>>
  BY DEF Promise!bqvars, Pending, Blocked

(* A notification does not change who is blocked. *)
LEMMA NotifiedKeepsPending ==
    ASSUME QueuesInv, NEW f \in [Threads -> PcStates], NEW W \in SUBSET Threads, NEW woken \in PcStates,
           NotifyOne(f, W, woken),
           \A t \in W : f[t] \in Blocked <=> woken \in Blocked
    PROVE  \A t \in Threads : pc'[t] \in Blocked <=> f[t] \in Blocked
  BY DEF NotifyOne

(* A push is accepted at once, or blocks, or goes on; one that finds the queues
   stopped is dropped. *)
LEMMA PushingPromised ==
    ASSUME QueuesInv, NEW t \in Threads, NEW q \in Queues, NEW x \in Task, Pushing(t, q, x)
    PROVE  Promised
  <1>0. /\ pc \in [Threads -> PcStates] /\ arg \in [Threads -> Queues \X Task]
        /\ Capacity \in [Queues -> Nat \ {0}]
        /\ Len(buf[q]) \in Nat /\ Len(buf[q]) <= Capacity[q]
    BY MultiQueueAssumption DEF QueuesInv, MultiQueueTypeOK
  <1>1. /\ pc[t] = "out" \/ (pc[t] = "full_woken" /\ arg[t] = <<q, x>>)
        /\ arg' = [arg EXCEPT ![t] = <<q, x>>]
        /\ UNCHANGED running
        /\ <<q, x>> # <<>>
    BY DEF Pushing
  <1>2. CASE ~running
    <2>1. UNCHANGED buf /\ NotifyOne([pc EXCEPT ![t] = "out"], At("exit"), "exit_woken")
      BY <1>2 DEF Pushing, PushLoop, Active
    <2>2. /\ [pc EXCEPT ![t] = "out"] \in [Threads -> PcStates]
          /\ \A u \in At("exit") : [pc EXCEPT ![t] = "out"][u] \notin Blocked
      BY <1>0, <1>1 DEF At, PcStates, Blocked
    <2>3. \A u \in Threads : pc'[u] \in Blocked <=> (u # t /\ pc[u] \in Blocked)
      <3> DEFINE f == [pc EXCEPT ![t] = "out"]
      <3>1. \A u \in Threads : f[u] \in Blocked <=> (u # t /\ pc[u] \in Blocked)
        BY <1>0 DEF PcStates, Blocked
      <3>2. \A u \in At("exit") : f[u] \in Blocked <=> "exit_woken" \in Blocked
        BY <2>2 DEF Blocked
      <3>3. At("exit") \in SUBSET Threads /\ "exit_woken" \in PcStates
        BY DEF At, PcStates
      <3>4. f \in [Threads -> PcStates] /\ NotifyOne(f, At("exit"), "exit_woken")
        BY <2>1, <2>2
      <3> HIDE DEF f
      <3>5. \A u \in Threads : pc'[u] \in Blocked <=> f[u] \in Blocked
        BY <3>2, <3>3, <3>4, NotifiedKeepsPending
      <3> QED
        BY <3>1, <3>5
    <2>4. Pending' = [Pending EXCEPT ![t] = <<>>]
      BY <1>0, <1>1, <2>3 DEF Pending
    <2>5. CASE pc[t] = "out"
      BY <1>1, <2>1, <2>4, <2>5 DEF Promised, Pending, Blocked
    <2>6. CASE pc[t] = "full_woken"
      <3>1. Pending[t] # <<>>
        BY <1>1, <2>6 DEF Pending, Blocked
      <3>2. Promise!Drop(t)
        BY <1>1, <1>2, <2>1, <2>4, <3>1 DEF Promise!Drop, Pending, Blocked
      <3> QED
        BY <3>2 DEF Promised, Promise!Next
    <2> QED
      BY <1>1, <2>5, <2>6
  <1>3. CASE running /\ Full(q)
    <2>1. UNCHANGED buf /\ pc' = [pc EXCEPT ![t] = "full"]
      BY <1>3 DEF Pushing, PushLoop, Active
    <2>2. Pending' = [Pending EXCEPT ![t] = <<q, x>>]
      BY <1>0, <1>1, <2>1 DEF Pending, Blocked
    <2>3. CASE pc[t] = "out"
      <3>1. ~Promise!Room(q) /\ Pending[t] = <<>>
        BY <1>0, <1>3, <2>3 DEF Promise!Room, Full, Pending, Blocked
      <3>2. Promise!Block(t, q, x)
        BY <1>1, <1>3, <2>1, <2>2, <3>1 DEF Promise!Block, Pending, Blocked
      <3> QED
        BY <3>2 DEF Promised, Promise!Next
    <2>4. CASE pc[t] = "full_woken"
      <3>1. Pending[t] = <<q, x>>
        BY <1>1, <2>4 DEF Pending, Blocked
      <3>2. Pending' = Pending
        BY <2>2, <3>1 DEF Pending
      <3> QED
        BY <1>1, <2>1, <3>2 DEF Promised
    <2> QED
      BY <1>1, <2>3, <2>4
  <1>4. CASE running /\ ~Full(q)
    <2>1. /\ buf' = [buf EXCEPT ![q] = Append(@, x)]
          /\ pc' = [pc EXCEPT ![t] = "notify_empty"]
      BY <1>4 DEF Pushing, PushLoop, Active
    <2>2. Pending' = [Pending EXCEPT ![t] = <<>>]
      BY <1>0, <1>1, <2>1 DEF Pending, Blocked
    <2>3. Promise!Room(q)
      BY <1>0, <1>4 DEF Promise!Room, Full
    <2>4. CASE pc[t] = "out"
      <3>1. Pending[t] = <<>>
        BY <2>4 DEF Pending, Blocked
      <3>2. Pending' = Pending
        BY <2>2, <3>1 DEF Pending
      <3>3. Promise!Put(t, q, x)
        BY <1>1, <1>4, <2>1, <2>3, <3>1, <3>2 DEF Promise!Put, Pending, Blocked
      <3> QED
        BY <3>3 DEF Promised, Promise!Next
    <2>5. CASE pc[t] = "full_woken"
      <3>1. Pending[t] = <<q, x>>
        BY <1>1, <2>5 DEF Pending, Blocked
      <3>2. Pending[t][1] = q /\ Pending[t][2] = x /\ Pending[t] # <<>>
        BY <1>1, <3>1
      <3>3. /\ running /\ UNCHANGED running
            /\ Promise!Room(Pending[t][1])
            /\ buf' = [buf EXCEPT ![Pending[t][1]] = Append(buf[Pending[t][1]], Pending[t][2])]
            /\ Pending' = [Pending EXCEPT ![t] = <<>>]
        <4> HIDE DEF Pending
        <4> QED
          BY <1>1, <1>4, <2>1, <2>2, <2>3, <3>2
      <3>4. Promise!Accept(t)
        BY <3>2, <3>3, Zenon DEF Promise!Accept, Pending, Blocked
      <3> QED
        BY <3>4 DEF Promised, Promise!Next
    <2> QED
      BY <1>1, <2>4, <2>5
  <1> QED
    BY <1>2, <1>3, <1>4

(* A pop takes the oldest task of one queue. *)
LEMMA PoppingPromised ==
    ASSUME QueuesInv, Popping
    PROVE  Promised
  <1>0. /\ pc \in [Threads -> PcStates] /\ Consumer \in Threads /\ spin_idx \in Queues
        /\ pc[Consumer] \in {"out", "empty_woken"} /\ UNCHANGED <<running, arg>>
    BY MultiQueueAssumption DEF QueuesInv, MultiQueueTypeOK, Popping
  <1>1. CASE running /\ Turns # {}
    <2>1. /\ round_robin_pop_
          /\ \/ pc' = [pc EXCEPT ![Consumer] = "notify_full"]
             \/ pc' = [pc EXCEPT ![Consumer] = "out"]
      BY <1>1 DEF Popping, PopLoop
    <2>2. Pending' = Pending
      BY <1>0, <2>1 DEF Pending, Blocked
    <2>3. PICK k \in Turns : buf' = [buf EXCEPT ![Spun(k)] = Tail(@)]
      BY <2>1 DEF round_robin_pop_
    <2>4. Spun(k) \in Queues /\ buf[Spun(k)] # <<>>
      BY <1>0, SpunCovers DEF Turns
    <2>5. Promise!Take(Spun(k))
      BY <1>0, <1>1, <2>2, <2>3, <2>4 DEF Promise!Take, Pending, Blocked
    <2> QED
      BY <2>4, <2>5 DEF Promised, Promise!Next
  <1>2. CASE running /\ Turns = {}
    <2>1. UNCHANGED buf /\ pc' = [pc EXCEPT ![Consumer] = "empty"]
      BY <1>2 DEF Popping, PopLoop
    <2> QED
      BY <1>0, <2>1 DEF Promised, Pending, Blocked
  <1>3. CASE ~running
    <2>1. UNCHANGED buf /\ NotifyOne([pc EXCEPT ![Consumer] = "out"], At("exit"), "exit_woken")
      BY <1>3 DEF Popping, PopLoop
    <2>2. /\ [pc EXCEPT ![Consumer] = "out"] \in [Threads -> PcStates]
          /\ \A u \in At("exit") : [pc EXCEPT ![Consumer] = "out"][u] \notin Blocked
      BY <1>0 DEF At, PcStates, Blocked
    <2>3. \A u \in Threads : pc'[u] \in Blocked <=> pc[u] \in Blocked
      <3> DEFINE f == [pc EXCEPT ![Consumer] = "out"]
      <3>1. \A u \in Threads : f[u] \in Blocked <=> pc[u] \in Blocked
        BY <1>0 DEF PcStates, Blocked
      <3>2. \A u \in At("exit") : f[u] \in Blocked <=> "exit_woken" \in Blocked
        BY <2>2 DEF Blocked
      <3>3. At("exit") \in SUBSET Threads /\ "exit_woken" \in PcStates
        BY DEF At, PcStates
      <3>4. f \in [Threads -> PcStates] /\ NotifyOne(f, At("exit"), "exit_woken")
        BY <2>1, <2>2
      <3> HIDE DEF f
      <3>5. \A u \in Threads : pc'[u] \in Blocked <=> f[u] \in Blocked
        BY <3>2, <3>3, <3>4, NotifiedKeepsPending
      <3> QED
        BY <3>1, <3>5
    <2> QED
      BY <1>0, <2>1, <2>3 DEF Promised, Pending
  <1> QED
    BY <1>1, <1>2, <1>3

(* reset() stops the queues, and clears them when nobody is blocked in them. *)
LEMMA ResettingPromised ==
    ASSUME QueuesInv, NEW r \in Threads, Resetting(r)
    PROVE  Promised
  <1>0. /\ pc \in [Threads -> PcStates]
        /\ pc[r] \in {"out", "exit_woken"} /\ running' = FALSE /\ UNCHANGED arg
        /\ running \in BOOLEAN
        /\ ResetLoop(r)
    BY DEF QueuesInv, MultiQueueTypeOK, Resetting
  <1>1. CASE nof_threads_waiting > 0
    <2> DEFINE f == [AllFullWoken EXCEPT ![r] = "exit"]
    <2>1. UNCHANGED buf /\ NotifyOne(f, At("empty"), "empty_woken")
      BY <1>0, <1>1 DEF ResetLoop
    <2>2. /\ f \in [Threads -> PcStates]
          /\ \A u \in Threads : f[u] \in Blocked <=> pc[u] \in Blocked
          /\ \A u \in At("empty") : f[u] \notin Blocked
      BY <1>0 DEF AllFullWoken, At, PcStates, Blocked
    <2>3. \A u \in Threads : pc'[u] \in Blocked <=> pc[u] \in Blocked
      <3> HIDE DEF f
      <3> QED
        BY <2>1, <2>2, NotifiedKeepsPending DEF At, PcStates, Blocked
    <2>4. Pending' = Pending
      BY <1>0, <2>3 DEF Pending
    <2>5. CASE running
      <3>1. Promise!Stop
        BY <1>0, <2>1, <2>4, <2>5 DEF Promise!Stop, Pending, Blocked
      <3> QED
        BY <3>1 DEF Promised, Promise!Next
    <2>6. CASE ~running
      BY <1>0, <2>1, <2>4, <2>6 DEF Promised
    <2> QED
      BY <2>5, <2>6
  <1>2. CASE nof_threads_waiting = 0
    <2>1. buf' = [q \in Queues |-> <<>>] /\ pc' = [pc EXCEPT ![r] = "out"]
      BY <1>0, <1>2 DEF ResetLoop
    <2>2. \A t \in Threads : pc[t] \notin Blocked
      <3>1. IsFiniteSet(Threads)
        BY MultiQueueAssumption
      <3>2. IsFiniteSet({t \in Threads : pc[t] \in Counted})
        BY <3>1, FS_Subset
      <3>3. {t \in Threads : pc[t] \in Counted} = {}
        BY <1>2, <3>2, FS_EmptySet DEF QueuesInv, WaitersCounted
      <3> QED
        BY <3>3 DEF Counted, Blocked
    <2>3. /\ \A t \in Threads : Pending[t] = <<>>
          /\ Pending' = Pending
      BY <1>0, <2>1, <2>2 DEF Pending, Blocked
    <2>4. CASE running
      <3>1. Promise!StopAndClear
        BY <1>0, <2>1, <2>3, <2>4 DEF Promise!StopAndClear, Pending, Blocked
      <3> QED
        BY <3>1 DEF Promised, Promise!Next
    <2>5. CASE ~running
      <3>1. Promise!Clear
        BY <1>0, <2>1, <2>3, <2>5 DEF Promise!Clear, Pending, Blocked
      <3> QED
        BY <3>1 DEF Promised, Promise!Next
    <2> QED
      BY <2>4, <2>5
  <1> QED
    BY <1>0, <1>1, <1>2 DEF ResetLoop

(* Notifications and wake-ups change no queue, and who is blocked stays blocked. *)
LEMMA WakingPromised ==
    ASSUME QueuesInv, NEW t \in Threads,
           NotifyEmpty(t) \/ SpuriousWakeUp(t) \/ (t = Consumer /\ NotifyFull)
    PROVE  Promised
  <1>0. pc \in [Threads -> PcStates]
    BY DEF QueuesInv, MultiQueueTypeOK
  <1>1. UNCHANGED <<running, buf, arg>>
    BY DEF NotifyEmpty, SpuriousWakeUp, NotifyFull
  <1>2. \A u \in Threads : pc'[u] \in Blocked <=> pc[u] \in Blocked
    <2> DEFINE f == [pc EXCEPT ![t] = "out"]
    <2>0. f \in [Threads -> PcStates]
      BY <1>0 DEF PcStates
    <2>1. CASE NotifyEmpty(t)
      <3>1. pc[t] = "notify_empty" /\ NotifyOne(f, At("empty"), "empty_woken")
        BY <2>1 DEF NotifyEmpty
      <3>2. /\ \A u \in Threads : f[u] \in Blocked <=> pc[u] \in Blocked
            /\ \A u \in At("empty") : f[u] \notin Blocked
        BY <1>0, <3>1 DEF At, Blocked
      <3> HIDE DEF f
      <3> QED
        BY <2>0, <3>1, <3>2, NotifiedKeepsPending DEF At, PcStates, Blocked
    <2>2. CASE t = Consumer /\ NotifyFull
      <3>1. pc[t] = "notify_full" /\ NotifyOne(f, Waiting(spin_idx), "full_woken")
        BY <2>2 DEF NotifyFull
      <3>2. /\ \A u \in Threads : f[u] \in Blocked <=> pc[u] \in Blocked
            /\ \A u \in Waiting(spin_idx) : f[u] \in Blocked
        BY <1>0, <3>1 DEF Waiting, Blocked
      <3> HIDE DEF f
      <3> QED
        BY <2>0, <3>1, <3>2, NotifiedKeepsPending DEF Waiting, PcStates, Blocked
    <2>3. CASE SpuriousWakeUp(t)
      BY <1>0, <2>3 DEF SpuriousWakeUp, Blocked
    <2> QED
      BY <2>1, <2>2, <2>3
  <1> QED
    BY <1>1, <1>2 DEF Promised, Pending

(* Every push is accepted once and in order, blocked while its queue is full and
   dropped by a stop only; every pop takes the oldest task of a queue; the queues
   are cleared when nobody is blocked in them: the safety part of KeepsPromise. *)
THEOREM QueuesAreBounded == MultiQueueSpec => Promise!QueueSafety
  <1>1. Init => Promise!Init
    BY DEF Init, Promise!Init
  <1>2. QueuesInv /\ [Next]_mqvars => [Promise!Next]_(Promise!bqvars)
    <2> SUFFICES ASSUME QueuesInv, [Next]_mqvars PROVE Promised
      BY PendingIs DEF Promised
    <2>1. CASE Next
      BY <2>1, KindsOfSteps, PushingPromised, PoppingPromised, ResettingPromised,
         WakingPromised, MultiQueueAssumption
    <2>2. CASE UNCHANGED mqvars
      BY <2>2 DEF mqvars, Promised, Pending
    <2> QED
      BY <2>1, <2>2
  <1> QED
    BY <1>1, <1>2, QueuesInvInit, QueuesInvStep, PTL DEF MultiQueueSpec, Promise!QueueSafety
=============================================================================
