------------------------------ MODULE PhyWorkers ------------------------------
(***************************************************************************)
(* The PHY workers of the base station: the receive loop txrx::run_thread  *)
(* hands one TTI each to the workers of a thread_pool                      *)
(* (lib/src/common/thread_pool.cc); the workers run at the same time and   *)
(* go on the air one after the other, ordered by a tti_semaphore           *)
(* (lib/include/srslte/common/tti_sempahore.h).  phy::stop ends them.      *)
(*                                                                         *)
(* What a worker does with its TTI is left to the module that extends this *)
(* one.  phy::rem_rnti, which borrows idle workers, is left out.           *)
(***************************************************************************)
EXTENDS Integers, Sequences

CONSTANTS
    NofWorkers,         \* nof_phy_threads, 3 unless configured otherwise
    TtiMod              \* 10240: TTIs of 1024 frames

ASSUME PhyWorkersAssumption ==
    /\ NofWorkers \in Nat \ {0}
    /\ TtiMod \in Nat /\ TtiMod > NofWorkers /\ TtiMod % 10 = 0

Worker == 1..NofWorkers
Tti == 0..(TtiMod - 1)

VARIABLES
    tti,                \* of txrx: the one to start next, as the TTI of its transmission
    txrx,               \* "running", "stopping" or "ended"
    status,             \* of thread_pool
    fifo,               \* of tti_semaphore: the workers whose TTI is not sent
    worker_tti,         \* the worker's tti_tx_dl while it works, 0 when it waits
    worker_pc,          \* "waiting", "working" or "sent"
    last_tx,            \* the TTI sent last
    stop_pc             \* phy::stop: "running", "txrx", "fifo", "pool", "done"

phy_vars == <<tti, txrx, status, fifo, worker_tti, worker_pc, last_tx, stop_pc>>

NextTti(t) == (t + 1) % TtiMod

PhyInit ==
    /\ tti = 0 /\ last_tx = TtiMod - 1
    /\ txrx = "running" /\ stop_pc = "running"
    /\ status = [w \in Worker |-> "IDLE"]
    /\ worker_tti = [w \in Worker |-> 0]
    /\ worker_pc = [w \in Worker |-> "waiting"]
    /\ fifo = << >>

\* find_finished_worker
FinishedWorkers ==
    {w \in Worker : status[w] = "IDLE" /\ \A v \in Worker : status[v] = "IDLE" => w <= v}

\* (faulty) `running` is not read
AfterTurnDeaf == txrx

\* `while (running)`
AfterTurn == IF txrx = "running" THEN "running" ELSE "ended"

(* One turn of the receive loop: wait_worker, set_time, push and start_worker. *)
StartWorker ==
    /\ txrx # "ended"
    /\ \E w \in FinishedWorkers :
          /\ status' = [status EXCEPT ![w] = "START_WORK"]
          /\ worker_tti' = [worker_tti EXCEPT ![w] = tti]
          /\ fifo' = Append(fifo, w)
    /\ tti' = NextTti(tti)
    /\ txrx' = AfterTurn
    /\ UNCHANGED <<worker_pc, last_tx, stop_pc>>

\* `running` is read between two turns
LeaveLoop ==
    /\ txrx = "stopping" /\ txrx' = "ended"
    /\ UNCHANGED <<tti, status, fifo, worker_tti, worker_pc, last_tx, stop_pc>>

WaitToStart(w) ==
    /\ status[w] = "START_WORK" /\ worker_pc[w] = "waiting"
    /\ status' = [status EXCEPT ![w] = "WORKING"]
    /\ worker_pc' = [worker_pc EXCEPT ![w] = "working"]
    /\ UNCHANGED <<tti, txrx, fifo, worker_tti, last_tx, stop_pc>>

\* (faulty) no wait for the TTIs before
GreenLightAny(w) == TRUE

GreenLight(w) == fifo = << >> \/ Head(fifo) = w

\* phy_common::worker_end of a worker that has done its work
WorkerEnd(w) ==
    /\ worker_pc[w] = "working" /\ GreenLight(w)
    /\ worker_pc' = [worker_pc EXCEPT ![w] = "sent"]
    /\ last_tx' = worker_tti[w]
    /\ fifo' = Tail(fifo)
    /\ UNCHANGED <<tti, txrx, status, worker_tti, stop_pc>>

Finished(w) ==
    /\ worker_pc[w] = "sent"
    /\ worker_pc' = [worker_pc EXCEPT ![w] = "waiting"]
    /\ status' = [status EXCEPT ![w] = IF @ = "STOP" THEN "STOP" ELSE "IDLE"]
    /\ worker_tti' = [worker_tti EXCEPT ![w] = 0]
    /\ UNCHANGED <<tti, txrx, fifo, last_tx, stop_pc>>

------------------------------------------------------------------------------
(* phy::stop: first the receive loop, then the TTIs on their way, then the pool *)

StopTxrx ==
    /\ stop_pc = "running"
    /\ stop_pc' = "txrx"
    /\ txrx' = "stopping"
    /\ UNCHANGED <<tti, status, fifo, worker_tti, worker_pc, last_tx>>

TxrxEnded ==
    /\ stop_pc = "txrx" /\ txrx = "ended"
    /\ stop_pc' = "fifo"
    /\ UNCHANGED <<tti, txrx, status, fifo, worker_tti, worker_pc, last_tx>>

\* (faulty) the pool is stopped at once
NothingOnItsWayAny == TRUE

\* semaphore.wait_all
NothingOnItsWay == fifo = << >>

StopPool ==
    /\ stop_pc = "fifo" /\ NothingOnItsWay
    /\ stop_pc' = "pool"
    /\ status' = [w \in Worker |-> "STOP"]
    /\ UNCHANGED <<tti, txrx, fifo, worker_tti, worker_pc, last_tx>>

\* wait_thread_finish of every worker
PoolEnded ==
    /\ stop_pc = "pool"
    /\ \A w \in Worker : worker_pc[w] = "waiting"
    /\ stop_pc' = "done"
    /\ UNCHANGED <<tti, txrx, status, fifo, worker_tti, worker_pc, last_tx>>

Stop == StopTxrx \/ TxrxEnded \/ StopPool \/ PoolEnded

PhyNext ==
    \/ StartWorker \/ LeaveLoop \/ Stop
    \/ \E w \in Worker : WaitToStart(w) \/ WorkerEnd(w) \/ Finished(w)

PhySpec == PhyInit /\ [][PhyNext]_phy_vars

------------------------------------------------------------------------------
(* Types of the pool's and the loop's members. *)
PhyTypeOK ==
    /\ tti \in Tti /\ last_tx \in Tti
    /\ txrx \in {"running", "stopping", "ended"}
    /\ status \in [Worker -> {"IDLE", "START_WORK", "WORKING", "STOP"}]
    /\ fifo \in Seq(Worker)
    /\ worker_tti \in [Worker -> Tti]
    /\ worker_pc \in [Worker -> {"waiting", "working", "sent"}]
    /\ stop_pc \in {"running", "txrx", "fifo", "pool", "done"}

(* "The transmission of UL subframes must be in sequence" (phy_common.cc): the
   TTIs go on the air one after the other and none is left out, although the
   workers finish in any order and a worker is reused as soon as it is idle. *)
TransmitInSequence ==
    [][last_tx' # last_tx => last_tx' = NextTti(last_tx)]_phy_vars

(* Everything started before the stop is sent before it ends. *)
StopDrains == stop_pc = "done" => tti = NextTti(last_tx)

(* The inductive invariant of the three: the queue holds the workers with work,
   and their TTIs lead from the one sent last to the one to start next. *)
QueueIsWork ==
    /\ \A i, j \in 1..Len(fifo) : fifo[i] = fifo[j] => i = j
    /\ \A w \in Worker :
          (\E i \in 1..Len(fifo) : fifo[i] = w)
              <=> status[w] = "START_WORK" \/ worker_pc[w] = "working"
    /\ \A w \in Worker : status[w] \in {"IDLE", "START_WORK"} => worker_pc[w] = "waiting"

QueueInSequence ==
    /\ fifo = << >> => tti = NextTti(last_tx)
    /\ fifo # << >> => /\ worker_tti[fifo[1]] = NextTti(last_tx)
                       /\ tti = NextTti(worker_tti[fifo[Len(fifo)]])
    /\ \A i \in 1..(Len(fifo) - 1) : worker_tti[fifo[i + 1]] = NextTti(worker_tti[fifo[i]])

StopInOrder ==
    /\ stop_pc \in {"fifo", "pool", "done"} => txrx = "ended"
    /\ stop_pc \in {"pool", "done"} => fifo = << >>

PhyInv == PhyTypeOK /\ QueueIsWork /\ QueueInSequence /\ StopInOrder
===============================================================================
