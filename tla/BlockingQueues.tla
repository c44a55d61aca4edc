---------------------------- MODULE BlockingQueues ----------------------------
(***************************************************************************)
(* What the task queues of a stack promise to the threads that use them.  *)
(* Each queue is a bounded FIFO.  A push into a full queue is pending      *)
(* until there is room, or until the queues are stopped, when it is        *)
(* dropped.  One consumer takes tasks from any queue that has one, and no  *)
(* queue is passed over for ever.                                         *)
(***************************************************************************)
EXTENDS Naturals, Sequences

CONSTANTS Threads, Queues, Capacity, Task

ASSUME QueuesAssumption == Capacity \in [Queues -> Nat \ {0}]

VARIABLES running,   \* FALSE once the queues are stopped
          buf,       \* the tasks accepted and not yet taken, per queue
          pending    \* the push each thread is blocked in: <<>> or <<queue, task>>

bqvars == <<running, buf, pending>>

\* (faulty) one task too many
RoomAtLimit(q) == Len(buf[q]) <= Capacity[q]

Room(q) == Len(buf[q]) < Capacity[q]

Init == /\ running = TRUE
        /\ buf = [q \in Queues |-> <<>>]
        /\ pending = [t \in Threads |-> <<>>]

(* A push that finds room is accepted in one step. *)
Put(t, q, x) == /\ running /\ pending[t] = <<>> /\ Room(q)
                /\ buf' = [buf EXCEPT ![q] = Append(@, x)]
                /\ UNCHANGED <<running, pending>>

(* A push that finds the queue full blocks its caller. *)
Block(t, q, x) == /\ running /\ pending[t] = <<>> /\ ~Room(q)
                  /\ pending' = [pending EXCEPT ![t] = <<q, x>>]
                  /\ UNCHANGED <<running, buf>>

Accept(t) == /\ running /\ pending[t] # <<>> /\ Room(pending[t][1])
             /\ buf' = [buf EXCEPT ![pending[t][1]] = Append(@, pending[t][2])]
             /\ pending' = [pending EXCEPT ![t] = <<>>]
             /\ UNCHANGED running

Drop(t) == /\ ~running /\ pending[t] # <<>>
           /\ pending' = [pending EXCEPT ![t] = <<>>]
           /\ UNCHANGED <<running, buf>>

Take(q) == /\ running /\ buf[q] # <<>>
           /\ buf' = [buf EXCEPT ![q] = Tail(@)]
           /\ UNCHANGED <<running, pending>>

Stop == /\ running /\ running' = FALSE /\ UNCHANGED <<buf, pending>>

(* The queues go once nobody is blocked in them any more. *)
Clear == /\ ~running /\ \A t \in Threads : pending[t] = <<>>
         /\ buf' = [q \in Queues |-> <<>>]
         /\ UNCHANGED <<running, pending>>

(* Stopping with nobody blocked clears the queues at once. *)
StopAndClear == /\ running /\ \A t \in Threads : pending[t] = <<>>
                /\ running' = FALSE
                /\ buf' = [q \in Queues |-> <<>>]
                /\ UNCHANGED pending

Next == \/ \E t \in Threads, q \in Queues, x \in Task : Put(t, q, x) \/ Block(t, q, x)
        \/ \E t \in Threads : Accept(t) \/ Drop(t)
        \/ \E q \in Queues : Take(q)
        \/ Stop \/ Clear \/ StopAndClear

(***************************************************************************)
(* A push with room to go on goes on, a stopped one ends, every queue is   *)
(* served, and a stop is finished.                                        *)
(***************************************************************************)
Fairness == /\ \A t \in Threads : WF_bqvars(Accept(t)) /\ WF_bqvars(Drop(t))
            /\ \A q \in Queues : SF_bqvars(Take(q))
            /\ WF_bqvars(Clear)

QueueSafety == Init /\ [][Next]_bqvars

QueueSpec == QueueSafety /\ Fairness
=============================================================================
