------------------------------ MODULE MultiQueue ------------------------------
(***************************************************************************)
(* multiqueue_handler: the queues through which the threads of an eNB or   *)
(* a UE hand tasks to the stack thread.  One mutex guards everything, so   *)
(* what a thread does between taking it and releasing it is one action;   *)
(* waiting on a condition variable, being woken, taking the mutex again,   *)
(* and the notification sent after the mutex is released are steps of     *)
(* their own.                                                             *)
(***************************************************************************)
EXTENDS Integers, Sequences, FiniteSets

CONSTANTS Threads,     \* every thread that uses the queues
          Consumer,    \* the stack thread, the only one that pops
          Resetters,   \* the threads that may reset the queues
          NofQueues,   \* the queues that were added, 0 .. NofQueues - 1
          Capacity,    \* the capacity each was added with
          Targets,     \* the queues each thread pushes to
          Task         \* what is pushed

Queues == 0 .. NofQueues - 1

ASSUME MultiQueueAssumption ==
    /\ Consumer \in Threads /\ Resetters \subseteq Threads
    /\ IsFiniteSet(Threads)
    /\ NofQueues \in Nat \ {0}
    /\ Capacity \in [Queues -> Nat \ {0}]
    /\ Targets \in [Threads -> SUBSET Queues]

VARIABLES running, buf, spin_idx, nof_threads_waiting,
          cleared,   \* reset() has destroyed the queues
          pc,        \* where each thread is in a call
          arg        \* <<queue, task>> of the push a thread is in

mqvars == <<running, buf, spin_idx, nof_threads_waiting, cleared, pc, arg>>

(***************************************************************************)
(* Waiting in cv_full.wait, cv_empty.wait or cv_exit.wait, woken and about *)
(* to take the mutex again, or holding a notification to send after the   *)
(* mutex was released.                                                    *)
(***************************************************************************)
PcStates == {"out", "full", "full_woken", "empty", "empty_woken", "exit", "exit_woken",
             "notify_empty", "notify_full"}
Counted == {"full", "full_woken", "empty", "empty_woken"}

Waiting(q) == {t \in Threads : pc[t] = "full" /\ arg[t][1] = q}
Woken(q) == {t \in Threads : pc[t] = "full_woken" /\ arg[t][1] = q}
At(state) == {t \in Threads : pc[t] = state}

Full(q) == Len(buf[q]) = Capacity[q]
Active == running   \* no caller erases a queue: all are active until reset()

Init == /\ running = TRUE
        /\ buf = [q \in Queues |-> <<>>]
        /\ spin_idx = 0
        /\ nof_threads_waiting = 0
        /\ cleared = FALSE
        /\ pc = [t \in Threads |-> "out"]
        /\ arg \in [Threads -> {<<0, x>> : x \in Task}]

(* notify_one: some thread that waits in the given state, if there is one,  *)
(* goes on to the woken state; f is pc with the notifier's own change.      *)
NotifyOne(f, waiters, woken) ==
    IF waiters = {} THEN pc' = f
                    ELSE \E t \in waiters : pc' = [f EXCEPT ![t] = woken]

-----------------------------------------------------------------------------
(* push(q, x) from the top of its loop; n is nof_threads_waiting. *)
PushLoop(t, q, x, n) ==
    \/ /\ Active /\ Full(q)
       /\ nof_threads_waiting' = n + 1
       /\ pc' = [pc EXCEPT ![t] = "full"]
       /\ UNCHANGED buf
    \/ /\ ~Active
       /\ nof_threads_waiting' = n
       /\ NotifyOne([pc EXCEPT ![t] = "out"], At("exit"), "exit_woken")
       /\ UNCHANGED buf
    \/ /\ Active /\ ~Full(q)
       /\ nof_threads_waiting' = n
       /\ buf' = [buf EXCEPT ![q] = Append(@, x)]
       /\ pc' = [pc EXCEPT ![t] = "notify_empty"]

Push(t, q, x) ==
    /\ pc[t] = "out" /\ q \in Targets[t]
    /\ arg' = [arg EXCEPT ![t] = <<q, x>>]
    /\ PushLoop(t, q, x, nof_threads_waiting)
    /\ UNCHANGED <<running, spin_idx, cleared>>

\* (faulty) still counted as waiting
WakeFromFullCounted(t) ==
    /\ pc[t] = "full_woken"
    /\ PushLoop(t, arg[t][1], arg[t][2], nof_threads_waiting)
    /\ UNCHANGED <<running, spin_idx, cleared, arg>>

WakeFromFull(t) ==
    /\ pc[t] = "full_woken"
    /\ PushLoop(t, arg[t][1], arg[t][2], nof_threads_waiting - 1)
    /\ UNCHANGED <<running, spin_idx, cleared, arg>>

(* try_push gives up at once on a full or inactive queue and leaves everything as it was. *)
TryPush(t, q, x) ==
    /\ pc[t] = "out" /\ q \in Targets[t]
    /\ Active /\ ~Full(q)
    /\ buf' = [buf EXCEPT ![q] = Append(@, x)]
    /\ pc' = [pc EXCEPT ![t] = "notify_empty"]
    /\ arg' = [arg EXCEPT ![t] = <<q, x>>]
    /\ UNCHANGED <<running, spin_idx, nof_threads_waiting, cleared>>

\* (faulty) only for the first task of a queue
NotifyEmptyFirst(t) ==
    /\ pc[t] = "notify_empty"
    /\ IF Len(buf[arg[t][1]]) = 1
       THEN NotifyOne([pc EXCEPT ![t] = "out"], At("empty"), "empty_woken")
       ELSE pc' = [pc EXCEPT ![t] = "out"]
    /\ UNCHANGED <<running, buf, spin_idx, nof_threads_waiting, cleared, arg>>

(* The notification of cv_empty after the mutex is released. *)
NotifyEmpty(t) ==
    /\ pc[t] = "notify_empty"
    /\ NotifyOne([pc EXCEPT ![t] = "out"], At("empty"), "empty_woken")
    /\ UNCHANGED <<running, buf, spin_idx, nof_threads_waiting, cleared, arg>>

-----------------------------------------------------------------------------
\* (faulty) from the same queue every time
SpunFromFirst(k) == k % NofQueues

(* The queue the round robin stops at: the first one with a task after     *)
(* spin_idx, spin_idx itself last.                                         *)
Spun(k) == (spin_idx + k) % NofQueues
Turns == {k \in 1 .. NofQueues : buf[Spun(k)] # <<>>}
round_robin_pop_ ==
    \E k \in Turns :
        /\ \A j \in Turns : k <= j
        /\ spin_idx' = Spun(k)
        /\ buf' = [buf EXCEPT ![Spun(k)] = Tail(@)]

\* (faulty) the caller taken for one of those that wait
OwesWakeUpToOthers(n) == n > 1

(* A pop tells the queue's waiters if anybody waits, here or elsewhere. *)
OwesWakeUp(n) == n > 0

PopLoop(n) ==
    \/ /\ running /\ Turns # {}
       /\ round_robin_pop_
       /\ nof_threads_waiting' = n
       /\ pc' = [pc EXCEPT ![Consumer] = IF OwesWakeUp(n) THEN "notify_full" ELSE "out"]
    \/ /\ running /\ Turns = {}
       /\ nof_threads_waiting' = n + 1
       /\ pc' = [pc EXCEPT ![Consumer] = "empty"]
       /\ UNCHANGED <<buf, spin_idx>>
    \/ /\ ~running
       /\ nof_threads_waiting' = n
       /\ NotifyOne([pc EXCEPT ![Consumer] = "out"], At("exit"), "exit_woken")
       /\ UNCHANGED <<buf, spin_idx>>

WaitPop ==
    /\ pc[Consumer] = "out"
    /\ PopLoop(nof_threads_waiting)
    /\ UNCHANGED <<running, cleared, arg>>

WakeFromEmpty ==
    /\ pc[Consumer] = "empty_woken"
    /\ PopLoop(nof_threads_waiting - 1)
    /\ UNCHANGED <<running, cleared, arg>>

(* The notification of the queue popped from, after the mutex is released. *)
NotifyFull ==
    /\ pc[Consumer] = "notify_full"
    /\ NotifyOne([pc EXCEPT ![Consumer] = "out"], Waiting(spin_idx), "full_woken")
    /\ UNCHANGED <<running, buf, spin_idx, nof_threads_waiting, cleared, arg>>

-----------------------------------------------------------------------------
(* reset() from the top of its loop: as long as a thread waits, one waiter   *)
(* of cv_empty and all waiters of every cv_full are notified.               *)
AllFullWoken == [t \in Threads |-> IF pc[t] = "full" THEN "full_woken" ELSE pc[t]]
ResetLoop(r) ==
    \/ /\ nof_threads_waiting > 0
       /\ NotifyOne([AllFullWoken EXCEPT ![r] = "exit"], At("empty"), "empty_woken")
       /\ UNCHANGED <<buf, cleared>>
    \/ /\ nof_threads_waiting = 0
       /\ buf' = [q \in Queues |-> <<>>]
       /\ cleared' = TRUE
       /\ pc' = [pc EXCEPT ![r] = "out"]

(* Its callers reset one after the other: the stack thread when it stops, and *)
(* the destructor when the threads have ended.  cv_exit tells one waiter only.*)
Reset(r) ==
    /\ pc[r] = "out" /\ At("exit") = {} /\ At("exit_woken") = {}
    /\ running' = FALSE
    /\ ResetLoop(r)
    /\ UNCHANGED <<spin_idx, nof_threads_waiting, arg>>

\* (faulty) an if in the place of the while
WakeFromExitOnce(r) ==
    /\ pc[r] = "exit_woken"
    /\ buf' = [q \in Queues |-> <<>>]
    /\ cleared' = TRUE
    /\ pc' = [pc EXCEPT ![r] = "out"]
    /\ UNCHANGED <<running, spin_idx, nof_threads_waiting, arg>>

WakeFromExit(r) ==
    /\ pc[r] = "exit_woken"
    /\ ResetLoop(r)
    /\ UNCHANGED <<running, spin_idx, nof_threads_waiting, arg>>

(* A condition variable may also wake a thread that nobody notified. *)
SpuriousWakeUp(t) ==
    /\ pc[t] \in {"full", "empty", "exit"}
    /\ pc' = [pc EXCEPT ![t] = CASE @ = "full" -> "full_woken"
                                 [] @ = "empty" -> "empty_woken"
                                 [] @ = "exit" -> "exit_woken"]
    /\ UNCHANGED <<running, buf, spin_idx, nof_threads_waiting, cleared, arg>>

-----------------------------------------------------------------------------
(* What a thread does inside a call, as opposed to making one. *)
Resume(t) == \/ WakeFromFull(t) \/ NotifyEmpty(t)
             \/ t = Consumer /\ (WakeFromEmpty \/ NotifyFull)
             \/ t \in Resetters /\ WakeFromExit(t)

Next ==
    \/ \E t \in Threads, q \in Queues, x \in Task : Push(t, q, x) \/ TryPush(t, q, x)
    \/ WaitPop
    \/ \E r \in Resetters : Reset(r)
    \/ \E t \in Threads : Resume(t) \/ SpuriousWakeUp(t)

(***************************************************************************)
(* A thread that can go on inside a call does, and the stack thread comes  *)
(* back for the next task: a task ends, and ue_stack_lte::run_thread and   *)
(* enb_stack_lte::run_thread loop.  Nobody has to push or to reset.        *)
(***************************************************************************)
MultiQueueFairness == /\ \A t \in Threads : WF_mqvars(Resume(t))
                      /\ WF_mqvars(WaitPop)

MultiQueueSpec == Init /\ [][Next]_mqvars /\ MultiQueueFairness

-----------------------------------------------------------------------------
MultiQueueTypeOK ==
    /\ running \in BOOLEAN /\ cleared \in BOOLEAN
    /\ buf \in [Queues -> Seq(Task)]
    /\ \A q \in Queues : Len(buf[q]) <= Capacity[q]
    /\ spin_idx \in Queues
    /\ nof_threads_waiting \in Nat
    /\ pc \in [Threads -> PcStates]
    /\ arg \in [Threads -> Queues \X Task]

(* nof_threads_waiting counts the threads between the two lines that change  *)
(* it, woken ones included: reset() may destroy the queues at zero, and a    *)
(* pop may leave out its notification.                                       *)
WaitersCounted == nof_threads_waiting = Cardinality({t \in Threads : pc[t] \in Counted})

(* No wake-up is lost: as long as a push still waits on a queue, every free  *)
(* place of this queue is promised to a thread that was woken or to the      *)
(* notification the stack thread is about to send.  One notify_one per pop   *)
(* is enough for any number of waiters, and any order of the steps.          *)
AboutToNotify(q) == IF pc[Consumer] = "notify_full" /\ spin_idx = q THEN 1 ELSE 0
WakeUpOwed(q) == Cardinality(Woken(q)) + AboutToNotify(q)
NoLostWakeUp == \A q \in Queues : running /\ Waiting(q) # {} => Capacity[q] - Len(buf[q]) <= WakeUpOwed(q)

(* The stack thread does not sleep on a task: while it waits for one, any    *)
(* task in a queue has a push that is still to notify it.                    *)
ConsumerNotified ==
    running /\ pc[Consumer] = "empty" => \/ \A q \in Queues : buf[q] = <<>>
                                         \/ At("notify_empty") # {}

(* reset() waits for threads that were all told to leave, and does not       *)
(* destroy the queues under a thread that waits in one.                      *)
ResetWaitsForWoken == At("exit") # {} => /\ ~running
                                         /\ nof_threads_waiting > 0
                                         /\ At("full") = {} /\ At("empty") = {}
ClearedAlone == cleared => ~running /\ \A t \in Threads : pc[t] \notin Counted

-----------------------------------------------------------------------------
(* A push is blocked while its thread waits on a full queue, and until the    *)
(* thread that was woken has looked again.                                    *)
Promise == INSTANCE BlockingQueues WITH
    pending <- [t \in Threads |-> IF pc[t] \in {"full", "full_woken"} THEN arg[t] ELSE <<>>]

(* multiqueue_handler implements the bounded blocking queues: every push is   *)
(* accepted once and in order or dropped by a stop, a push that has room does *)
(* not stay blocked, every queue is served however busy the others are, and a *)
(* reset finishes (multiqueue.h push, wait_pop, reset).                       *)
KeepsPromise == Promise!QueueSpec
=============================================================================
