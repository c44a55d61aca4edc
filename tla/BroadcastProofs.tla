--------------------------- MODULE BroadcastProofs ---------------------------
(***************************************************************************)
(* TTIs go on the air in sequence and the stop of the PHY loses none, for  *)
(* any number of workers, carriers and UEs.  PhyInv is inductive for the   *)
(* pool and the receive loop alone (PhySpec); a step of Broadcast is one   *)
(* of theirs or leaves them alone.                                         *)
(*                                                                         *)
(* UEs are paged in their own subframe and no page is lost, where paging   *)
(* subframes are as far apart as there are workers (PagingSfsApart): then  *)
(* one worker at a time has a paging message, and the buffers all workers  *)
(* share are its own until it has encoded it (PagingInv).  System          *)
(* information is sent in its windows (SiInv), in whatever order the       *)
(* workers schedule their TTIs.                                            *)
(***************************************************************************)
EXTENDS Broadcast, FiniteSetTheorems, TLAPS

LEMMA NextTtiIsTti ==
    ASSUME NEW t \in Tti
    PROVE  NextTti(t) \in Tti
  BY PhyWorkersAssumption DEF Tti, NextTti

(* The TTI after the last one is the first one. *)
LEMMA InitPhyInv == PhyInit => PhyInv
  <1> SUFFICES ASSUME PhyInit PROVE PhyInv
    OBVIOUS
  <1>1. TtiMod \in Nat /\ TtiMod > 0
    BY PhyWorkersAssumption
  <1>2. TtiMod % TtiMod = 0
    BY <1>1
  <1>3. fifo \in Seq(Worker) /\ Len(fifo) = 0
    BY DEF PhyInit
  <1>4. PhyTypeOK
    BY <1>1, <1>3 DEF PhyInit, PhyTypeOK, Tti
  <1>5. QueueIsWork
    BY <1>3 DEF PhyInit, QueueIsWork
  <1>6. QueueInSequence
    <2>1. tti = NextTti(last_tx)
      BY <1>1, <1>2 DEF PhyInit, NextTti
    <2> QED
      BY <1>3, <2>1 DEF PhyInit, QueueInSequence
  <1>7. StopInOrder
    BY DEF PhyInit, StopInOrder
  <1> QED
    BY <1>4, <1>5, <1>6, <1>7 DEF PhyInv

(* A worker is given the next TTI at the end of the queue. *)
LEMMA StartWorkerKeepsPhyInv ==
    ASSUME PhyInv, StartWorker
    PROVE  PhyInv'
  <1>1. PICK w \in FinishedWorkers :
           /\ status' = [status EXCEPT ![w] = "START_WORK"]
           /\ worker_tti' = [worker_tti EXCEPT ![w] = tti]
           /\ fifo' = Append(fifo, w)
    BY DEF StartWorker
  <1>2. /\ txrx # "ended" /\ tti' = NextTti(tti)
        /\ txrx' = IF txrx = "running" THEN "running" ELSE "ended"
        /\ worker_pc' = worker_pc /\ last_tx' = last_tx /\ stop_pc' = stop_pc
    BY DEF StartWorker, AfterTurn
  <1>3. w \in Worker /\ status[w] = "IDLE" /\ worker_pc[w] = "waiting"
    BY <1>1 DEF FinishedWorkers, PhyInv, QueueIsWork
  <1>4. /\ fifo \in Seq(Worker) /\ fifo' \in Seq(Worker)
        /\ Len(fifo) \in Nat /\ Len(fifo') = Len(fifo) + 1
        /\ \A i \in 1..Len(fifo) : fifo'[i] = fifo[i] /\ fifo[i] \in Worker
        /\ fifo'[Len(fifo) + 1] = w
    BY <1>1, <1>3 DEF PhyInv, PhyTypeOK
  <1>5. \A i \in 1..Len(fifo) : fifo[i] # w
    BY <1>3 DEF PhyInv, QueueIsWork
  <1>6. PhyTypeOK'
    BY <1>1, <1>2, <1>3, <1>4, NextTtiIsTti DEF PhyInv, PhyTypeOK
  <1>7. QueueIsWork'
    <2>1. \A i, j \in 1..Len(fifo') : fifo'[i] = fifo'[j] => i = j
      BY <1>4, <1>5 DEF PhyInv, QueueIsWork
    <2>2. ASSUME NEW v \in Worker
          PROVE  (\E i \in 1..Len(fifo') : fifo'[i] = v)
                    <=> status'[v] = "START_WORK" \/ worker_pc'[v] = "working"
      <3>1. CASE v = w
        BY <1>1, <1>3, <1>4, <3>1 DEF PhyInv, PhyTypeOK
      <3>2. CASE v # w
        <4>1. (\E i \in 1..Len(fifo') : fifo'[i] = v) <=> (\E i \in 1..Len(fifo) : fifo[i] = v)
          BY <1>4, <3>2
        <4>2. status'[v] = status[v] /\ worker_pc'[v] = worker_pc[v]
          BY <1>1, <1>2, <3>2 DEF PhyInv, PhyTypeOK
        <4> QED
          BY <4>1, <4>2 DEF PhyInv, QueueIsWork
      <3> QED
        BY <3>1, <3>2
    <2>3. \A v \in Worker : status'[v] \in {"IDLE", "START_WORK"} => worker_pc'[v] = "waiting"
      BY <1>1, <1>2, <1>3 DEF PhyInv, PhyTypeOK, QueueIsWork
    <2> QED
      BY <2>1, <2>2, <2>3 DEF QueueIsWork
  <1>8. QueueInSequence'
    <2>1. worker_tti'[w] = tti /\ \A v \in Worker : v # w => worker_tti'[v] = worker_tti[v]
      BY <1>1, <1>3 DEF PhyInv, PhyTypeOK
    <2>2. fifo' # << >> /\ tti' = NextTti(worker_tti'[fifo'[Len(fifo')]])
      BY <1>2, <1>4, <2>1
    <2>3. worker_tti'[fifo'[1]] = NextTti(last_tx)
      <3>1. CASE fifo = << >>
        BY <1>4, <2>1, <3>1 DEF PhyInv, QueueInSequence
      <3>2. CASE fifo # << >>
        BY <1>4, <1>5, <2>1, <3>2 DEF PhyInv, QueueInSequence
      <3> QED
        BY <3>1, <3>2
    <2>4. ASSUME NEW i \in 1..(Len(fifo') - 1)
          PROVE  worker_tti'[fifo'[i + 1]] = NextTti(worker_tti'[fifo'[i]])
      <3>1. i \in 1..Len(fifo) /\ fifo'[i] = fifo[i] /\ worker_tti'[fifo[i]] = worker_tti[fifo[i]]
        BY <1>4, <1>5, <2>1
      <3>2. CASE i = Len(fifo)
        BY <1>4, <2>1, <3>1, <3>2 DEF PhyInv, QueueInSequence
      <3>3. CASE i < Len(fifo)
        <4>1. i \in 1..(Len(fifo) - 1) /\ i + 1 \in 1..Len(fifo)
          BY <1>4, <3>1, <3>3
        <4>2. worker_tti'[fifo'[i + 1]] = worker_tti[fifo[i + 1]]
          BY <1>4, <1>5, <2>1, <4>1
        <4> QED
          BY <3>1, <4>1, <4>2 DEF PhyInv, QueueInSequence
      <3> QED
        BY <1>4, <3>1, <3>2, <3>3
    <2> QED
      BY <1>2, <2>2, <2>3, <2>4 DEF QueueInSequence, NextTti
  <1>9. StopInOrder'
    BY <1>2 DEF PhyInv, StopInOrder
  <1> QED
    BY <1>6, <1>7, <1>8, <1>9 DEF PhyInv

(* The worker that sends is the first of the queue, and its TTI the next one. *)
LEMMA WorkerEndIsFirst ==
    ASSUME PhyInv, NEW w \in Worker, WorkerEnd(w)
    PROVE  /\ fifo \in Seq(Worker) /\ fifo # << >> /\ fifo[1] = w
           /\ worker_tti[w] = NextTti(last_tx)
  <1>1. fifo \in Seq(Worker) /\ worker_pc[w] = "working"
    BY DEF PhyInv, PhyTypeOK, WorkerEnd
  <1>2. PICK i \in 1..Len(fifo) : fifo[i] = w
    BY <1>1 DEF PhyInv, QueueIsWork
  <1>3. fifo # << >>
    BY <1>1, <1>2
  <1>4. fifo[1] = w
    BY <1>1, <1>3 DEF WorkerEnd, GreenLight
  <1> QED
    BY <1>1, <1>3, <1>4 DEF PhyInv, QueueInSequence

LEMMA WorkerEndKeepsPhyInv ==
    ASSUME PhyInv, NEW w \in Worker, WorkerEnd(w)
    PROVE  PhyInv'
  <1>1. /\ fifo \in Seq(Worker) /\ fifo # << >> /\ fifo[1] = w
        /\ worker_tti[w] = NextTti(last_tx)
    BY WorkerEndIsFirst
  <1>2. /\ worker_pc[w] = "working"
        /\ worker_pc' = [worker_pc EXCEPT ![w] = "sent"]
        /\ last_tx' = worker_tti[w] /\ fifo' = Tail(fifo)
        /\ tti' = tti /\ txrx' = txrx /\ status' = status /\ worker_tti' = worker_tti
        /\ stop_pc' = stop_pc
    BY DEF WorkerEnd
  <1>3. /\ fifo' \in Seq(Worker)
        /\ Len(fifo) \in Nat /\ Len(fifo) > 0 /\ Len(fifo') = Len(fifo) - 1
        /\ \A i \in 1..Len(fifo') : fifo'[i] = fifo[i + 1]
    BY <1>1, <1>2
  <1>4. PhyTypeOK'
    BY <1>2, <1>3 DEF PhyInv, PhyTypeOK
  <1>5. QueueIsWork'
    <2>1. \A i, j \in 1..Len(fifo') : fifo'[i] = fifo'[j] => i = j
      <3> SUFFICES ASSUME NEW i \in 1..Len(fifo'), NEW j \in 1..Len(fifo'), fifo'[i] = fifo'[j]
                   PROVE  i = j
        OBVIOUS
      <3>1. i + 1 \in 1..Len(fifo) /\ j + 1 \in 1..Len(fifo) /\ fifo[i + 1] = fifo[j + 1]
        BY <1>3
      <3>2. i + 1 = j + 1
        BY <3>1 DEF PhyInv, QueueIsWork
      <3> QED
        BY <1>3, <3>2
    <2>2. ASSUME NEW v \in Worker
          PROVE  (\E i \in 1..Len(fifo') : fifo'[i] = v)
                    <=> status'[v] = "START_WORK" \/ worker_pc'[v] = "working"
      <3>1. CASE v = w
        <4>1. status[w] # "START_WORK"
          BY <1>2 DEF PhyInv, QueueIsWork
        <4>2. ASSUME NEW i \in 1..Len(fifo'), fifo'[i] = w PROVE FALSE
          <5>1. i + 1 \in 1..Len(fifo) /\ 1 \in 1..Len(fifo) /\ fifo[i + 1] = fifo[1]
            BY <1>1, <1>3, <4>2
          <5>2. i + 1 = 1
            BY <5>1 DEF PhyInv, QueueIsWork
          <5> QED
            BY <1>3, <5>2
        <4> QED
          BY <1>2, <3>1, <4>1, <4>2 DEF PhyInv, PhyTypeOK
      <3>2. CASE v # w
        <4>1. ASSUME NEW i \in 1..Len(fifo), fifo[i] = v
              PROVE  \E j \in 1..Len(fifo') : fifo'[j] = v
          <5>1. i # 1 /\ i - 1 \in 1..Len(fifo')
            BY <1>1, <1>3, <3>2, <4>1
          <5>2. fifo'[i - 1] = fifo[(i - 1) + 1] /\ (i - 1) + 1 = i
            BY <1>3, <5>1
          <5> QED
            BY <4>1, <5>1, <5>2
        <4>2. ASSUME NEW j \in 1..Len(fifo'), fifo'[j] = v
              PROVE  \E i \in 1..Len(fifo) : fifo[i] = v
          BY <1>3, <4>2
        <4>3. status'[v] = status[v] /\ worker_pc'[v] = worker_pc[v]
          BY <1>2, <3>2 DEF PhyInv, PhyTypeOK
        <4> QED
          BY <4>1, <4>2, <4>3 DEF PhyInv, QueueIsWork
      <3> QED
        BY <3>1, <3>2
    <2>3. \A v \in Worker : status'[v] \in {"IDLE", "START_WORK"} => worker_pc'[v] = "waiting"
      BY <1>2 DEF PhyInv, PhyTypeOK, QueueIsWork
    <2> QED
      BY <2>1, <2>2, <2>3 DEF QueueIsWork
  <1>6. QueueInSequence'
    <2>1. fifo' = << >> => tti' = NextTti(last_tx')
      <3> SUFFICES ASSUME fifo' = << >> PROVE tti' = NextTti(last_tx')
        OBVIOUS
      <3>1. Len(fifo') = 0
        OBVIOUS
      <3>2. Len(fifo) = 1
        BY <1>3, <3>1
      <3>3. tti = NextTti(worker_tti[fifo[Len(fifo)]])
        BY <1>1 DEF PhyInv, QueueInSequence
      <3> QED
        BY <1>1, <1>2, <3>2, <3>3
    <2>2. ASSUME fifo' # << >>
          PROVE  /\ worker_tti'[fifo'[1]] = NextTti(last_tx')
                 /\ tti' = NextTti(worker_tti'[fifo'[Len(fifo')]])
      <3>1. Len(fifo') \in Nat \ {0}
        BY <1>3, <2>2
      <3>2. 1 \in 1..(Len(fifo) - 1) /\ fifo'[1] = fifo[2] /\ fifo'[Len(fifo')] = fifo[Len(fifo)]
        BY <1>3, <3>1
      <3>3. worker_tti[fifo[1 + 1]] = NextTti(worker_tti[fifo[1]])
        BY <3>2 DEF PhyInv, QueueInSequence
      <3> QED
        BY <1>1, <1>2, <3>2, <3>3 DEF PhyInv, QueueInSequence
    <2>3. ASSUME NEW i \in 1..(Len(fifo') - 1)
          PROVE  worker_tti'[fifo'[i + 1]] = NextTti(worker_tti'[fifo'[i]])
      <3>1. /\ i + 1 \in 1..(Len(fifo) - 1)
            /\ fifo'[i] = fifo[i + 1] /\ fifo'[i + 1] = fifo[(i + 1) + 1]
        BY <1>3
      <3>2. worker_tti[fifo[(i + 1) + 1]] = NextTti(worker_tti[fifo[i + 1]])
        BY <3>1 DEF PhyInv, QueueInSequence
      <3> QED
        BY <1>2, <3>1, <3>2
    <2> QED
      BY <2>1, <2>2, <2>3 DEF QueueInSequence, NextTti
  <1>7. StopInOrder'
    BY <1>1, <1>2 DEF PhyInv, StopInOrder
  <1> QED
    BY <1>4, <1>5, <1>6, <1>7 DEF PhyInv

(* Neither the pool's other steps nor those of phy::stop touch the sequence. *)
LEMMA WaitToStartKeepsPhyInv ==
    ASSUME PhyInv, NEW w \in Worker, WaitToStart(w)
    PROVE  PhyInv'
  <1>1. /\ status[w] = "START_WORK" /\ worker_pc[w] = "waiting"
        /\ status' = [status EXCEPT ![w] = "WORKING"]
        /\ worker_pc' = [worker_pc EXCEPT ![w] = "working"]
        /\ UNCHANGED <<tti, txrx, fifo, worker_tti, last_tx, stop_pc>>
    BY DEF WaitToStart
  <1>2. PhyTypeOK'
    BY <1>1 DEF PhyInv, PhyTypeOK
  <1>3. QueueIsWork'
    <2>1. ASSUME NEW v \in Worker
          PROVE  /\ status'[v] = "START_WORK" \/ worker_pc'[v] = "working"
                      <=> status[v] = "START_WORK" \/ worker_pc[v] = "working"
                 /\ status'[v] \in {"IDLE", "START_WORK"} => worker_pc'[v] = "waiting"
      BY <1>1 DEF PhyInv, PhyTypeOK, QueueIsWork
    <2> QED
      BY <1>1, <2>1 DEF PhyInv, QueueIsWork
  <1>4. QueueInSequence' /\ StopInOrder'
    BY <1>1 DEF PhyInv, QueueInSequence, StopInOrder, NextTti
  <1> QED
    BY <1>2, <1>3, <1>4 DEF PhyInv

LEMMA FinishedKeepsPhyInv ==
    ASSUME PhyInv, NEW w \in Worker, Finished(w)
    PROVE  PhyInv'
  <1>1. /\ worker_pc[w] = "sent"
        /\ worker_pc' = [worker_pc EXCEPT ![w] = "waiting"]
        /\ status' = [status EXCEPT ![w] = IF @ = "STOP" THEN "STOP" ELSE "IDLE"]
        /\ worker_tti' = [worker_tti EXCEPT ![w] = 0]
        /\ UNCHANGED <<tti, txrx, fifo, last_tx, stop_pc>>
    BY DEF Finished
  <1>2. PhyTypeOK'
    BY <1>1, PhyWorkersAssumption DEF PhyInv, PhyTypeOK, Tti
  <1>3. QueueIsWork'
    <2>1. ASSUME NEW v \in Worker
          PROVE  /\ status'[v] = "START_WORK" \/ worker_pc'[v] = "working"
                      <=> status[v] = "START_WORK" \/ worker_pc[v] = "working"
                 /\ status'[v] \in {"IDLE", "START_WORK"} => worker_pc'[v] = "waiting"
      BY <1>1 DEF PhyInv, PhyTypeOK, QueueIsWork
    <2> QED
      BY <1>1, <2>1 DEF PhyInv, QueueIsWork
  <1>4. QueueInSequence'
    <2>1. fifo \in Seq(Worker) /\ Len(fifo) \in Nat /\ \A i \in 1..Len(fifo) : fifo[i] \in Worker
      BY DEF PhyInv, PhyTypeOK
    <2>2. \A i \in 1..Len(fifo) : fifo[i] # w
      <3>1. ~(status[w] = "START_WORK" \/ worker_pc[w] = "working")
        BY <1>1 DEF PhyInv, QueueIsWork
      <3> QED
        BY <3>1 DEF PhyInv, QueueIsWork
    <2>3. \A i \in 1..Len(fifo) : worker_tti'[fifo[i]] = worker_tti[fifo[i]]
      BY <1>1, <2>1, <2>2 DEF PhyInv, PhyTypeOK
    <2>4. fifo # << >> => 1 \in 1..Len(fifo) /\ Len(fifo) \in 1..Len(fifo)
      BY <2>1
    <2>5. \A i \in 1..(Len(fifo) - 1) : i \in 1..Len(fifo) /\ i + 1 \in 1..Len(fifo)
      BY <2>1
    <2> QED
      BY <1>1, <2>3, <2>4, <2>5 DEF PhyInv, QueueInSequence, NextTti
  <1>5. StopInOrder'
    BY <1>1 DEF PhyInv, StopInOrder
  <1> QED
    BY <1>2, <1>3, <1>4, <1>5 DEF PhyInv

LEMMA StopKeepsPhyInv ==
    ASSUME PhyInv, Stop
    PROVE  PhyInv'
  <1>1. CASE StopTxrx
    BY <1>1 DEF StopTxrx, PhyInv, PhyTypeOK, QueueIsWork, QueueInSequence, StopInOrder, NextTti
  <1>2. CASE TxrxEnded
    BY <1>2 DEF TxrxEnded, PhyInv, PhyTypeOK, QueueIsWork, QueueInSequence, StopInOrder, NextTti
  <1>3. CASE StopPool
    <2>1. /\ fifo = << >> /\ stop_pc = "fifo" /\ stop_pc' = "pool"
          /\ status' = [w \in Worker |-> "STOP"]
          /\ UNCHANGED <<tti, txrx, fifo, worker_tti, worker_pc, last_tx>>
      BY <1>3 DEF StopPool, NothingOnItsWay
    <2>2. PhyTypeOK' /\ StopInOrder' /\ QueueInSequence'
      BY <2>1 DEF PhyInv, PhyTypeOK, StopInOrder, QueueInSequence, NextTti
    <2>3. QueueIsWork'
      <3>1. \A w \in Worker : worker_pc[w] # "working" /\ ~(\E i \in 1..Len(fifo) : fifo[i] = w)
        BY <2>1 DEF PhyInv, QueueIsWork
      <3> QED
        BY <2>1, <3>1 DEF PhyInv, QueueIsWork
    <2> QED
      BY <2>2, <2>3 DEF PhyInv
  <1>4. CASE PoolEnded
    BY <1>4 DEF PoolEnded, PhyInv, PhyTypeOK, QueueIsWork, QueueInSequence, StopInOrder, NextTti
  <1> QED
    BY <1>1, <1>2, <1>3, <1>4 DEF Stop

LEMMA PhyStepKeepsPhyInv == PhyInv /\ [PhyNext]_phy_vars => PhyInv'
  <1> SUFFICES ASSUME PhyInv, [PhyNext]_phy_vars PROVE PhyInv'
    OBVIOUS
  <1>1. CASE LeaveLoop
    BY <1>1 DEF LeaveLoop, PhyInv, PhyTypeOK, QueueIsWork, QueueInSequence, StopInOrder, NextTti
  <1>2. CASE UNCHANGED phy_vars
    BY <1>2
       DEF phy_vars, PhyInv, PhyTypeOK, QueueIsWork, QueueInSequence, StopInOrder, NextTti
  <1> QED
    BY <1>1, <1>2, StartWorkerKeepsPhyInv, StopKeepsPhyInv, WaitToStartKeepsPhyInv,
       WorkerEndKeepsPhyInv, FinishedKeepsPhyInv DEF PhyNext

------------------------------------------------------------------------------
(* The composition does to the workers what the pool does. *)
LEMMA StepIsPhyStep == [Next]_vars => [PhyNext]_phy_vars
  <1> SUFFICES ASSUME [Next]_vars PROVE [PhyNext]_phy_vars
    OBVIOUS
  <1>1. ASSUME NEW u \in Ue, Page(u) PROVE UNCHANGED phy_vars
    BY <1>1 DEF Page
  <1>2. CASE Start
    BY <1>2 DEF Start, PhyNext
  <1>3. CASE StopPhy
    BY <1>3 DEF StopPhy, PhyNext
  <1>4. ASSUME NEW w \in Worker, Work(w) PROVE PhyNext \/ UNCHANGED phy_vars
    <2>1. CASE BeginWork(w)
      BY <2>1 DEF BeginWork, PhyNext
    <2>2. CASE SchedCarrier(w)
      BY <2>2 DEF SchedCarrier
    <2>3. CASE ClearBuffer(w)
      BY <2>3 DEF ClearBuffer
    <2>4. CASE PackMessage(w)
      BY <2>4 DEF PackMessage
    <2>5. CASE ReadPduPcch(w)
      BY <2>5 DEF ReadPduPcch
    <2>8. CASE EncodePdsch(w)
      BY <2>8 DEF EncodePdsch
    <2>6. CASE Transmit(w)
      BY <2>6 DEF Transmit, PhyNext
    <2>7. CASE EndWork(w)
      BY <2>7 DEF EndWork, PhyNext
    <2> QED
      BY <1>4, <2>1, <2>2, <2>3, <2>4, <2>5, <2>6, <2>7, <2>8 DEF Work
  <1>5. CASE Ended
    BY <1>5 DEF Ended, vars
  <1>6. CASE UNCHANGED vars
    BY <1>6 DEF vars
  <1> QED
    BY <1>1, <1>2, <1>3, <1>4, <1>5, <1>6 DEF Next

(* The composition implements the PHY alone: none of its other parts can make a
   worker do what the pool does not let it do. *)
THEOREM PhyIsImplemented == Spec => PhySpec
  <1>1. Init => PhyInit
    BY DEF Init
  <1> QED
    BY <1>1, StepIsPhyStep, PTL DEF Spec, PhySpec

(* The inductive invariant holds in every behaviour of the PHY. *)
THEOREM PhyInvHolds == PhySpec => []PhyInv
  BY InitPhyInv, PhyStepKeepsPhyInv, PTL DEF PhySpec

(* A TTI that goes on the air is the one after the last. *)
LEMMA SendIsNext ==
    PhyInv /\ [PhyNext]_phy_vars => [last_tx' # last_tx => last_tx' = NextTti(last_tx)]_phy_vars
  <1> SUFFICES ASSUME PhyInv, PhyNext, last_tx' # last_tx PROVE last_tx' = NextTti(last_tx)
    OBVIOUS
  <1>1. PICK w \in Worker : WorkerEnd(w)
    BY DEF PhyNext, StartWorker, LeaveLoop, Stop, StopTxrx, TxrxEnded, StopPool, PoolEnded,
           WaitToStart, Finished
  <1>2. last_tx' = worker_tti[w]
    BY <1>1 DEF WorkerEnd
  <1> QED
    BY <1>1, <1>2, WorkerEndIsFirst

(* Subframes are transmitted in sequence, whatever order the workers finish in. *)
THEOREM TransmittedInSequence == Spec => TransmitInSequence
  BY PhyIsImplemented, PhyInvHolds, SendIsNext, PTL DEF PhySpec, TransmitInSequence

(* What was started before phy::stop is sent before it returns. *)
THEOREM StopIsClean == Spec => []StopDrains
  <1>1. PhyInv => StopDrains
    BY DEF PhyInv, StopInOrder, QueueInSequence, StopDrains
  <1> QED
    BY <1>1, PhyIsImplemented, PhyInvHolds, PTL

-----------------------------------------------------------------------------
(* Which TTIs are on their way *)

(* A non-empty set of natural numbers has a least element. *)
LEMMA LeastOfNaturals ==
    ASSUME NEW B \in SUBSET Nat, B # {}
    PROVE  \E b \in B : \A c \in B : b <= c
  <1> DEFINE R == {p \in Nat \X Nat : p[1] < p[2]}
  <1>1. IsWellFoundedOn(R, Nat)
    BY NatLessThanWellFounded DEF OpToRel, IsWellFoundedOn
  <1>2. \E b \in B : \A c \in B : ~(<<c, b>> \in R)
    <2> HIDE DEF R
    <2> QED
      BY <1>1, WFMin
  <1>3. PICK b \in B : \A c \in B : ~(<<c, b>> \in R)
    BY <1>2
  <1>4. \A c \in B : b <= c
    <2> TAKE c \in B
    <2>1. ~(c < b)
      BY <1>3
    <2> QED
      BY <2>1
  <1> QED
    BY <1>4

(* (t + d) % TtiMod, written without a remainder. *)
LEMMA PlusIsLater ==
    ASSUME NEW t \in Tti, NEW d \in 0..(TtiMod - 1)
    PROVE  /\ (t + d) % TtiMod = IF t + d < TtiMod THEN t + d ELSE t + d - TtiMod
           /\ (t + d) % TtiMod \in Tti
  BY PhyWorkersAssumption DEF Tti

LEMMA OneMore ==
    ASSUME NEW t \in Tti, NEW d \in 0..(TtiMod - 2)
    PROVE  NextTti((t + d) % TtiMod) = (t + (d + 1)) % TtiMod
  <1>1. TtiMod \in Nat /\ TtiMod > 0 /\ t \in 0..(TtiMod - 1) /\ 1 \in 0..(TtiMod - 1)
        /\ d \in 0..(TtiMod - 1) /\ d + 1 \in 0..(TtiMod - 1)
    BY PhyWorkersAssumption DEF Tti
  <1> PICK s : s = (t + d) % TtiMod
    OBVIOUS
  <1>2. s = (IF t + d < TtiMod THEN t + d ELSE t + d - TtiMod) /\ s \in Tti
    BY <1>1, PlusIsLater
  <1>3. (s + 1) % TtiMod = IF s + 1 < TtiMod THEN s + 1 ELSE s + 1 - TtiMod
    BY <1>1, <1>2, PlusIsLater
  <1>4. (t + (d + 1)) % TtiMod = IF t + (d + 1) < TtiMod THEN t + (d + 1) ELSE t + (d + 1) - TtiMod
    BY <1>1, PlusIsLater
  <1> QED
    BY <1>1, <1>2, <1>3, <1>4 DEF NextTti

(* No more TTIs are on their way than there are workers. *)
LEMMA QueueIsShort ==
    ASSUME PhyInv
    PROVE  Len(fifo) \in Nat /\ Len(fifo) <= NofWorkers
  <1>1. fifo \in Seq(Worker) /\ Len(fifo) \in Nat /\ NofWorkers \in Nat
    BY PhyWorkersAssumption DEF PhyInv, PhyTypeOK
  <1> PICK l : l = Len(fifo)
    OBVIOUS
  <1>2. l \in Nat /\ \A i \in 1..l : fifo[i] \in Worker
    BY <1>1
  <1> DEFINE f == [i \in 1..l |-> fifo[i]]
  <1>3. f \in [1..l -> Worker]
    BY <1>2
  <1>4. \A i, j \in 1..l : f[i] = f[j] => i = j
    BY DEF PhyInv, QueueIsWork
  <1> HIDE DEF f
  <1>5. f \in Injection(1..l, Worker)
    BY <1>3, <1>4 DEF Injection, IsInjective
  <1>6. IsFiniteSet(Worker) /\ Cardinality(Worker) = NofWorkers
    <2>1. 1 \in Int /\ NofWorkers \in Int /\ NofWorkers > 0
      BY <1>1, PhyWorkersAssumption
    <2>2. /\ IsFiniteSet(1..NofWorkers)
          /\ Cardinality(1..NofWorkers) = (IF 1 > NofWorkers THEN 0 ELSE NofWorkers - 1 + 1)
      BY <2>1, FS_Interval
    <2> QED
      BY <2>1, <2>2 DEF Worker
  <1>7. Cardinality(1..l) = l
    <2>1. 1 \in Int /\ l \in Int
      BY <1>2
    <2>2. Cardinality(1..l) = (IF 1 > l THEN 0 ELSE l - 1 + 1)
      BY <2>1, FS_Interval
    <2> QED
      BY <1>2, <2>2
  <1>8. Cardinality(1..l) <= Cardinality(Worker)
    BY <1>5, <1>6, FS_Injection DEF ExistsInjection
  <1> QED
    BY <1>2, <1>6, <1>7, <1>8

(* The TTIs of the queue follow one another. *)
LEMMA QueueCounts ==
    ASSUME PhyInv, NEW i \in 1..Len(fifo), NEW d \in 0..(Len(fifo) - i)
    PROVE  worker_tti[fifo[i + d]] = (worker_tti[fifo[i]] + d) % TtiMod
  <1>1. Len(fifo) \in Nat /\ Len(fifo) <= NofWorkers /\ NofWorkers < TtiMod
        /\ NofWorkers \in Nat /\ TtiMod \in Nat
    BY QueueIsShort, PhyWorkersAssumption
  <1>2. \A j \in 1..Len(fifo) : fifo[j] \in Worker /\ worker_tti[fifo[j]] \in Tti
    BY DEF PhyInv, PhyTypeOK
  <1> PICK t : t = worker_tti[fifo[i]]
    OBVIOUS
  <1> DEFINE Bad == {e \in 0..(Len(fifo) - i) : worker_tti[fifo[i + e]] # (t + e) % TtiMod}
  <1> SUFFICES ASSUME Bad # {} PROVE FALSE
    OBVIOUS
  <1>3. Bad \in SUBSET Nat
    BY <1>1
  <1>4. PICK b \in Bad : \A c \in Bad : b <= c
    BY <1>3, LeastOfNaturals
  <1>5. b \in 0..(Len(fifo) - i) /\ worker_tti[fifo[i + b]] # (t + b) % TtiMod
    BY <1>4
  <1>6. t \in Tti
    BY <1>2
  <1>7. b # 0
    <2> SUFFICES ASSUME b = 0 PROVE FALSE
      OBVIOUS
    <2>1. i + b = i /\ t + b = t
      BY <1>1, <1>6 DEF Tti
    <2>2. (t + 0) % TtiMod = t
      <3>1. 0 \in 0..(TtiMod - 1)
        BY <1>1
      <3>2. (t + 0) % TtiMod = IF t + 0 < TtiMod THEN t + 0 ELSE t + 0 - TtiMod
        BY <1>6, <3>1, PlusIsLater
      <3> QED
        BY <1>1, <1>6, <3>2 DEF Tti
    <2> QED
      BY <1>5, <2>1, <2>2
  <1> PICK e : e = b - 1
    OBVIOUS
  <1>8. e \in 0..(Len(fifo) - i) /\ e < b /\ e + 1 = b /\ i + e \in 1..(Len(fifo) - 1)
        /\ (i + e) + 1 = i + b /\ e \in 0..(TtiMod - 2)
    BY <1>1, <1>5, <1>7
  <1>9. worker_tti[fifo[i + e]] = (t + e) % TtiMod
    <2>1. e \notin Bad
      BY <1>3, <1>4, <1>8
    <2> QED
      BY <1>8, <2>1
  <1>10. worker_tti[fifo[(i + e) + 1]] = NextTti(worker_tti[fifo[i + e]])
    BY <1>8 DEF PhyInv, QueueInSequence
  <1> QED
    BY <1>5, <1>6, <1>8, <1>9, <1>10, OneMore

(* Paging subframes that are not worked on at the same time: at least as many
   TTIs apart as there are workers. *)
HasPages(t) == \E u \in Ue : IsOpportunity(u, t)

PagingSfsApart ==
    \A t \in Tti, d \in 1..(NofWorkers - 1) : ~(HasPages(t) /\ HasPages((t + d) % TtiMod))

LEMMA PagingSfOf ==
    ASSUME NEW u \in Ue
    PROVE  (PagingNs = 1 => PagingSf(u) = 9) /\ (PagingNs = 2 => PagingSf(u) \in {4, 9})
  <1>1. u \in Int /\ PagingN \in Nat /\ PagingN > 0
    BY PagingAssumption DEF PagingN
  <1> PICK q : q = u \div PagingN
    OBVIOUS
  <1>2. q \in Int
    BY <1>1
  <1>3. (q % 1) % 4 = 0 /\ (q % 2) % 4 \in {0, 1}
    BY <1>2
  <1>4. PagingSf(u) = SfPattern[((q % PagingNs) % 4) + 1][((PagingNs - 1) % 4) + 1]
    BY DEF PagingSf
  <1>5. ASSUME PagingNs = 1 PROVE PagingSf(u) = 9
    <2>1. PagingSf(u) = SfPattern[0 + 1][((1 - 1) % 4) + 1]
      BY <1>3, <1>4, <1>5
    <2>2. (1 - 1) % 4 = 0
      OBVIOUS
    <2> QED
      BY <2>1, <2>2 DEF SfPattern
  <1>6. ASSUME PagingNs = 2 PROVE PagingSf(u) \in {4, 9}
    <2>1. PagingSf(u) = SfPattern[((q % 2) % 4) + 1][((2 - 1) % 4) + 1]
      BY <1>4, <1>6
    <2>2. (2 - 1) % 4 = 1
      OBVIOUS
    <2>3. PagingSf(u) \in {SfPattern[1][2], SfPattern[2][2]}
      BY <1>3, <2>1, <2>2
    <2> QED
      BY <2>3 DEF SfPattern
  <1> QED
    BY <1>5, <1>6

(* With one paging subframe in a frame, or two, no two of them are worked on at
   the same time: there are three workers by default (nof_phy_threads). *)
THEOREM FewOpportunitiesApart ==
    (PagingNs = 1 /\ NofWorkers <= 10) \/ (PagingNs = 2 /\ NofWorkers <= 5) => PagingSfsApart
  <1> SUFFICES ASSUME (PagingNs = 1 /\ NofWorkers <= 10) \/ (PagingNs = 2 /\ NofWorkers <= 5),
                      NEW t \in Tti, NEW d \in 1..(NofWorkers - 1),
                      HasPages(t), HasPages((t + d) % TtiMod)
               PROVE  FALSE
    BY DEF PagingSfsApart
  <1> PICK s, m : s = (t + d) % TtiMod /\ m = TtiMod \div 10
    OBVIOUS
  <1>1. /\ NofWorkers \in Nat /\ TtiMod \in Nat /\ TtiMod > NofWorkers /\ t \in 0..(TtiMod - 1)
        /\ m \in Int /\ TtiMod = 10 * m
    BY PhyWorkersAssumption DEF Tti
  <1>2. s = t + d \/ s = t + d - 10 * m
    BY <1>1
  <1>3. s \in Int /\ (s % 10 = (t + d) % 10)
    BY <1>1, <1>2
  <1>4. PICK u \in Ue : PagingSf(u) = t % 10
    BY DEF HasPages, IsOpportunity
  <1>5. PICK v \in Ue : PagingSf(v) = s % 10
    BY DEF HasPages, IsOpportunity
  <1>6. CASE PagingNs = 1 /\ NofWorkers <= 10
    <2>1. t % 10 = 9 /\ (t + d) % 10 = 9 /\ d \in 1..9
      BY <1>1, <1>3, <1>4, <1>5, <1>6, PagingSfOf
    <2> QED
      BY <1>1, <2>1
  <1>7. CASE PagingNs = 2 /\ NofWorkers <= 5
    <2>1. t % 10 \in {4, 9} /\ (t + d) % 10 \in {4, 9} /\ d \in 1..4
      BY <1>1, <1>3, <1>4, <1>5, <1>7, PagingSfOf
    <2> QED
      BY <1>1, <2>1
  <1> QED
    BY <1>6, <1>7

LEMMA OnePagingWorker ==
    ASSUME PhyInv, PagingSfsApart, NEW v \in Worker, NEW w \in Worker,
           worker_pc[v] = "working", worker_pc[w] = "working",
           HasPages(worker_tti[v]), HasPages(worker_tti[w])
    PROVE  v = w
  <1>1. Len(fifo) \in Nat /\ Len(fifo) <= NofWorkers /\ NofWorkers \in Nat
    BY QueueIsShort, PhyWorkersAssumption
  <1>2. PICK i \in 1..Len(fifo) : fifo[i] = v
    BY DEF PhyInv, QueueIsWork
  <1>3. PICK j \in 1..Len(fifo) : fifo[j] = w
    BY DEF PhyInv, QueueIsWork
  <1>4. worker_tti[v] \in Tti /\ worker_tti[w] \in Tti
    BY DEF PhyInv, PhyTypeOK
  <1>5. ASSUME i < j PROVE FALSE
    <2> PICK d : d = j - i
      OBVIOUS
    <2>1. d \in 0..(Len(fifo) - i) /\ d \in 1..(NofWorkers - 1) /\ i + d = j
      BY <1>1, <1>5
    <2>2. worker_tti[w] = (worker_tti[v] + d) % TtiMod
      BY <1>2, <1>3, <2>1, QueueCounts
    <2> QED
      BY <1>4, <2>1, <2>2 DEF PagingSfsApart
  <1>6. ASSUME j < i PROVE FALSE
    <2> PICK d : d = i - j
      OBVIOUS
    <2>1. d \in 0..(Len(fifo) - j) /\ d \in 1..(NofWorkers - 1) /\ j + d = i
      BY <1>1, <1>6
    <2>2. worker_tti[v] = (worker_tti[w] + d) % TtiMod
      BY <1>2, <1>3, <2>1, QueueCounts
    <2> QED
      BY <1>4, <2>1, <2>2 DEF PagingSfsApart
  <1>7. i = j
    BY <1>1, <1>5, <1>6
  <1> QED
    BY <1>2, <1>3, <1>7
-----------------------------------------------------------------------------
(* Paging.  Where paging subframes are apart, a worker with a paging grant has *)
(* byte_buf_paging and the buffers of its carriers to itself until it has     *)
(* encoded the message.                                                       *)

Message == SUBSET (Ue \cup Torn)

PagingTypes ==
    /\ pending_paging \subseteq Ue /\ paging_tti \in Tti \cup {INVALID_TTI}
    /\ sched_mutex \in Worker \cup {0} /\ sched_cc \in Carrier
    /\ sched_step \in {"carrier", "clear", "pack"}
    /\ scheduled \in [Worker -> BOOLEAN]
    /\ pcch_grants \in [Worker -> SUBSET Carrier]
    /\ pcch_unread \in [Worker -> SUBSET Carrier]
    /\ pcch_payload_buffer \in [Carrier -> Message]
    /\ payload \in [Worker -> [Carrier -> Message]]

ForTti(message, t) == \A u \in message : u \in Ue /\ IsOpportunity(u, t)

\* What a worker has: a result, grants, messages.
ResultInv(w) ==
    /\ scheduled[w] => worker_pc[w] = "working"
    /\ w = sched_mutex => worker_pc[w] = "working" /\ ~scheduled[w]
    /\ pcch_unread[w] \subseteq pcch_grants[w]
    /\ ~scheduled[w] => pcch_unread[w] = pcch_grants[w]
    /\ ~scheduled[w] => \A cc \in Carrier : payload[w][cc] = {}
    /\ \A cc \in pcch_grants[w] : payload[w][cc] = {}
    /\ pcch_grants[w] # {} => /\ HasPages(worker_tti[w])
                              /\ scheduled[w] \/ (sched_mutex = w /\ paging_tti = worker_tti[w])

MessageInv(w) ==
    /\ pcch_unread[w] # {} => ForTti(byte_buf_paging, worker_tti[w])
    /\ \A cc \in pcch_grants[w] \ pcch_unread[w] :
          ForTti(pcch_payload_buffer[cc], worker_tti[w])
    /\ \A cc \in Carrier : ForTti(payload[w][cc], worker_tti[w])

\* What RRC has: the message in byte_buf_paging, or the one to be written there.
AssemblyInv ==
    /\ sched_step = "carrier" => pcch_msg = {}
    /\ sched_step # "carrier" =>
          /\ sched_mutex # 0 /\ paging_tti = INVALID_TTI
          /\ pcch_grants[sched_mutex] = {}
          /\ pcch_msg # {} /\ ForTti(pcch_msg, worker_tti[sched_mutex])
    /\ paging_tti # INVALID_TTI => HasPages(paging_tti) /\ ForTti(byte_buf_paging, paging_tti)

PagingInv ==
    /\ PagingTypes /\ AssemblyInv
    /\ \A w \in Worker : ResultInv(w) /\ MessageInv(w)

LEMMA NoMessage == \A t : ForTti({}, t)
  BY DEF ForTti

LEMMA InitPagingInv == Init => PagingInv
  <1> SUFFICES ASSUME Init PROVE PagingInv
    OBVIOUS
  <1>1. PagingTypes
    BY BroadcastAssumption DEF Init, PagingInit, PagingTypes, Message, INVALID_TTI
  <1>2. AssemblyInv
    BY DEF Init, PagingInit, AssemblyInv
  <1>3. ASSUME NEW w \in Worker PROVE ResultInv(w) /\ MessageInv(w)
    <2>1. w # 0
      BY PhyWorkersAssumption DEF Worker
    <2> QED
      BY <2>1, NoMessage DEF Init, ResultInv, MessageInv
  <1> QED
    BY <1>1, <1>2, <1>3 DEF PagingInv

(* The pool's steps but for the end of a worker: a TTI that is worked on stays. *)
LEMMA PoolKeepsPagingInv ==
    ASSUME PagingInv, UNCHANGED <<pending_paging, paging_tti, byte_buf_paging, sched_vars, mac_vars>>,
           \A w \in Worker : worker_pc[w] = "working" =>
              worker_pc'[w] = "working" /\ worker_tti'[w] = worker_tti[w]
    PROVE  PagingInv'
  <1>1. /\ UNCHANGED <<pending_paging, paging_tti, byte_buf_paging>>
        /\ UNCHANGED <<sched_mutex, sched_cc, sched_step, pcch_msg>>
        /\ UNCHANGED <<scheduled, pcch_grants, pcch_unread, pcch_payload_buffer, payload>>
    BY DEF sched_vars, mac_vars
  <1>2. PagingTypes'
    BY <1>1 DEF PagingInv, PagingTypes
  <1>3. AssemblyInv'
    <2>1. sched_mutex # 0 => worker_tti'[sched_mutex] = worker_tti[sched_mutex]
      <3>1. sched_mutex # 0 => sched_mutex \in Worker
        BY DEF PagingInv, PagingTypes
      <3>2. sched_mutex # 0 => worker_pc[sched_mutex] = "working"
        BY <3>1 DEF PagingInv, ResultInv
      <3> QED
        BY <3>1, <3>2
    <2> QED
      BY <1>1, <2>1 DEF PagingInv, AssemblyInv, HasPages
  <1>4. ASSUME NEW w \in Worker PROVE ResultInv(w)' /\ MessageInv(w)'
    <2>1. ResultInv(w) /\ MessageInv(w) /\ scheduled[w] \in BOOLEAN
      BY DEF PagingInv, PagingTypes
    <2>2. CASE worker_pc[w] = "working"
      <3>1. worker_pc'[w] = "working" /\ worker_tti'[w] = worker_tti[w]
        BY <2>2
      <3> QED
        BY <1>1, <2>1, <2>2, <3>1 DEF ResultInv, MessageInv, HasPages
    <2>3. CASE worker_pc[w] # "working"
      <3>1. /\ ~scheduled[w] /\ w # sched_mutex /\ pcch_grants[w] = {} /\ pcch_unread[w] = {}
            /\ \A cc \in Carrier : payload[w][cc] = {}
        BY <2>1, <2>3 DEF ResultInv
      <3> QED
        BY <1>1, <3>1, NoMessage DEF ResultInv, MessageInv
    <2> QED
      BY <2>2, <2>3
  <1> QED
    BY <1>2, <1>3, <1>4 DEF PagingInv
LEMMA CarrierDoneMeans ==
    ASSUME PagingTypes, NEW w \in Worker, CarrierDone(w)
    PROVE  /\ sched_cc' \in Carrier /\ sched_mutex' \in {0, w}
           /\ scheduled' \in [Worker -> BOOLEAN]
           /\ \A v \in Worker \ {w} : scheduled'[v] = scheduled[v]
           /\ scheduled'[w] = IF sched_mutex' = w THEN scheduled[w] ELSE TRUE
  <1>1. scheduled \in [Worker -> BOOLEAN] /\ w # 0 /\ 0 \in Carrier
    BY BroadcastAssumption, PhyWorkersAssumption DEF PagingTypes, Worker
  <1>2. CASE sched_cc + 1 \in Carrier
    BY <1>1, <1>2 DEF CarrierDone
  <1>3. CASE sched_cc + 1 \notin Carrier
    BY <1>1, <1>3 DEF CarrierDone
  <1> QED
    BY <1>2, <1>3

LEMMA AllocMeans ==
    ASSUME PagingTypes, NEW w \in Worker, AllocPaging(w) \/ NoAllocPaging
    PROVE  \E X \in SUBSET Carrier :
              /\ pcch_grants' = [pcch_grants EXCEPT ![w] = @ \cup X]
              /\ pcch_unread' = [pcch_unread EXCEPT ![w] = @ \cup X]
              /\ AllocPaging(w) /\ ~Collisions => sched_cc \in X
              /\ ~AllocPaging(w) => X = {}
  <1>1. /\ pcch_grants \in [Worker -> SUBSET Carrier] /\ pcch_unread \in [Worker -> SUBSET Carrier]
        /\ sched_cc \in Carrier
    BY DEF PagingTypes
  <1>2. CASE /\ pcch_grants' = [pcch_grants EXCEPT ![w] = @ \cup {sched_cc}]
             /\ pcch_unread' = [pcch_unread EXCEPT ![w] = @ \cup {sched_cc}]
    <2>1. AllocPaging(w)
      BY <1>2 DEF AllocPaging
    <2>2. {sched_cc} \in SUBSET Carrier
      BY <1>1
    <2> QED
      BY <1>2, <2>1, <2>2
  <1>3. CASE UNCHANGED <<pcch_grants, pcch_unread>> /\ (Collisions \/ ~AllocPaging(w))
    <2>1. /\ pcch_grants' = [pcch_grants EXCEPT ![w] = @ \cup {}]
          /\ pcch_unread' = [pcch_unread EXCEPT ![w] = @ \cup {}]
      BY <1>1, <1>3
    <2>2. {} \in SUBSET Carrier
      OBVIOUS
    <2> QED
      BY <1>3, <2>1, <2>2
  <1> QED
    BY <1>2, <1>3 DEF AllocPaging, NoAllocPaging

(* A carrier of w is scheduled, perhaps with a grant for the message it finds. *)
LEMMA Granted ==
    ASSUME PagingInv, NEW w \in Worker, worker_pc[w] = "working", ~scheduled[w],
           sched_mutex \in {0, w}, NEW X \in SUBSET Carrier,
           pcch_grants' = [pcch_grants EXCEPT ![w] = @ \cup X],
           pcch_unread' = [pcch_unread EXCEPT ![w] = @ \cup X],
           CarrierDone(w), UNCHANGED <<phy_vars, pcch_payload_buffer, payload>>,
           X \cup pcch_grants[w] # {} =>
              /\ HasPages(worker_tti[w]) /\ paging_tti' = worker_tti[w]
              /\ ForTti(byte_buf_paging', worker_tti[w]),
           \A v \in Worker \ {w} : pcch_unread[v] # {} => ForTti(byte_buf_paging', worker_tti[v]),
           pending_paging' \subseteq Ue, paging_tti' \in Tti \cup {INVALID_TTI},
           sched_step' = "carrier"
    PROVE  PagingTypes' /\ \A v \in Worker : ResultInv(v)' /\ MessageInv(v)'
  <1>1. PagingTypes /\ w # 0
    BY PhyWorkersAssumption DEF PagingInv, Worker
  <1>2. worker_pc' = worker_pc /\ worker_tti' = worker_tti
    BY DEF phy_vars
  <1>3. /\ sched_cc' \in Carrier /\ sched_mutex' \in {0, w}
        /\ scheduled' \in [Worker -> BOOLEAN]
        /\ \A v \in Worker \ {w} : scheduled'[v] = scheduled[v]
        /\ scheduled'[w] = IF sched_mutex' = w THEN scheduled[w] ELSE TRUE
    BY <1>1, CarrierDoneMeans
  <1>4. /\ pcch_grants' \in [Worker -> SUBSET Carrier] /\ pcch_unread' \in [Worker -> SUBSET Carrier]
        /\ pcch_grants'[w] = pcch_grants[w] \cup X /\ pcch_unread'[w] = pcch_unread[w] \cup X
        /\ \A v \in Worker \ {w} : pcch_grants'[v] = pcch_grants[v] /\ pcch_unread'[v] = pcch_unread[v]
    BY <1>1 DEF PagingTypes
  <1>5. PagingTypes'
    BY <1>1, <1>3, <1>4 DEF PagingTypes
  <1>6. ASSUME NEW v \in Worker, v # w PROVE ResultInv(v)' /\ MessageInv(v)'
    <2>1. ResultInv(v) /\ MessageInv(v) /\ v # sched_mutex /\ v # sched_mutex'
      BY <1>1, <1>3, <1>6, PhyWorkersAssumption DEF PagingInv, Worker
    <2>2. scheduled'[v] = scheduled[v] /\ pcch_grants'[v] = pcch_grants[v] /\ pcch_unread'[v] = pcch_unread[v]
      BY <1>3, <1>4, <1>6
    <2>3. ResultInv(v)'
      BY <1>2, <2>1, <2>2 DEF ResultInv, HasPages
    <2>4. MessageInv(v)'
      BY <1>2, <1>6, <2>1, <2>2 DEF MessageInv
    <2> QED
      BY <2>3, <2>4
  <1>7. ResultInv(w)' /\ MessageInv(w)'
    <2>1. ResultInv(w) /\ MessageInv(w)
      BY DEF PagingInv
    <2>2. pcch_unread[w] = pcch_grants[w] /\ \A cc \in Carrier : payload[w][cc] = {}
      BY <2>1 DEF ResultInv
    <2>3. ResultInv(w)'
      BY <1>1, <1>2, <1>3, <1>4, <2>2 DEF ResultInv, HasPages
    <2>4. MessageInv(w)'
      <3>1. pcch_unread'[w] # {} => ForTti(byte_buf_paging', worker_tti[w])
        BY <1>4, <2>2
      <3>2. pcch_grants'[w] \ pcch_unread'[w] = {}
        BY <1>4, <2>2
      <3>3. \A cc \in Carrier : ForTti(payload'[w][cc], worker_tti[w])
        BY <2>2, NoMessage
      <3> QED
        BY <1>2, <3>1, <3>2, <3>3 DEF MessageInv, ForTti
    <2> QED
      BY <2>3, <2>4
  <1> QED
    BY <1>5, <1>6, <1>7

(* is_paging_opportunity of a carrier, up to the assembly. *)
LEMMA SchedCarrierMeans ==
    ASSUME NEW w \in Worker, SchedCarrier(w)
    PROVE  /\ worker_pc[w] = "working" /\ ~scheduled[w]
           /\ sched_mutex \in {0, w} /\ sched_step = "carrier"
           /\ UNCHANGED <<phy_vars, pcch_payload_buffer, payload>>
           /\ \/ /\ ExtraCarrier(worker_tti[w]) /\ AllocPaging(w) /\ CarrierDone(w)
                 /\ sched_step' = "carrier" /\ pcch_msg' = {}
              \/ /\ NoPaging(worker_tti[w]) /\ NoAllocPaging /\ CarrierDone(w)
                 /\ sched_step' = "carrier" /\ pcch_msg' = {}
              \/ /\ Collect(worker_tti[w]) /\ NoAllocPaging
                 /\ sched_mutex' = w /\ sched_step' = "clear"
                 /\ UNCHANGED <<sched_cc, scheduled>>
                 /\ pcch_msg' = Collected(worker_tti[w])
  BY DEF SchedCarrier

LEMMA SchedCarrierKeepsPagingInv ==
    ASSUME PhyInv, PagingInv, NEW w \in Worker, SchedCarrier(w)
    PROVE  PagingInv'
  <1>1. /\ worker_pc[w] = "working" /\ ~scheduled[w]
        /\ sched_mutex \in {0, w} /\ sched_step = "carrier"
        /\ UNCHANGED <<phy_vars, pcch_payload_buffer, payload>>
    BY SchedCarrierMeans
  <1>2. PagingTypes /\ AssemblyInv /\ ResultInv(w) /\ worker_tti[w] \in Tti /\ INVALID_TTI \notin Tti
    BY DEF PagingInv, PhyInv, PhyTypeOK, INVALID_TTI, Tti
  <1>3. /\ pcch_grants[w] # {} => worker_tti[w] = paging_tti
        /\ pcch_unread[w] = pcch_grants[w]
        /\ \A cc \in Carrier : payload[w][cc] = {}
    BY <1>1, <1>2 DEF ResultInv
  <1>4. \A v \in Worker : pcch_unread[v] # {} => ForTti(byte_buf_paging, worker_tti[v])
    BY DEF PagingInv, MessageInv
  <1>5. CASE /\ ExtraCarrier(worker_tti[w]) /\ AllocPaging(w) /\ CarrierDone(w)
             /\ sched_step' = "carrier" /\ pcch_msg' = {}
    <2>1. UNCHANGED <<pending_paging, paging_tti, byte_buf_paging>> /\ paging_tti = worker_tti[w]
      BY <1>5 DEF ExtraCarrier, paging_vars
    <2>2. PICK X \in SUBSET Carrier :
              /\ pcch_grants' = [pcch_grants EXCEPT ![w] = @ \cup X]
              /\ pcch_unread' = [pcch_unread EXCEPT ![w] = @ \cup X]
      BY <1>2, <1>5, AllocMeans
    <2>3. HasPages(worker_tti[w]) /\ ForTti(byte_buf_paging, worker_tti[w])
      BY <1>2, <2>1 DEF AssemblyInv
    <2>4. PagingTypes' /\ \A v \in Worker : ResultInv(v)' /\ MessageInv(v)'
      BY <1>1, <1>2, <1>4, <1>5, <2>1, <2>2, <2>3, Granted DEF PagingTypes
    <2>5. AssemblyInv'
      BY <1>2, <1>5, <2>1, <2>3 DEF AssemblyInv, HasPages
    <2> QED
      BY <2>4, <2>5 DEF PagingInv
  <1>6. CASE /\ NoPaging(worker_tti[w]) /\ NoAllocPaging /\ CarrierDone(w)
             /\ sched_step' = "carrier" /\ pcch_msg' = {}
    <2>1. /\ UNCHANGED <<pending_paging, byte_buf_paging>> /\ paging_tti' = INVALID_TTI
          /\ worker_tti[w] # paging_tti
      BY <1>6 DEF NoPaging
    <2>2. {} \in SUBSET Carrier /\ pcch_grants[w] = {}
          /\ pcch_grants' = [pcch_grants EXCEPT ![w] = @ \cup {}]
          /\ pcch_unread' = [pcch_unread EXCEPT ![w] = @ \cup {}]
      BY <1>2, <1>3, <1>6, <2>1 DEF NoAllocPaging, PagingTypes
    <2>3. {} \cup pcch_grants[w] = {}
      BY <2>2
    <2>4. PagingTypes' /\ \A v \in Worker : ResultInv(v)' /\ MessageInv(v)'
      BY <1>1, <1>2, <1>4, <1>6, <2>1, <2>2, <2>3, Granted DEF PagingTypes
    <2>5. AssemblyInv'
      BY <1>6, <2>1 DEF AssemblyInv
    <2> QED
      BY <2>4, <2>5 DEF PagingInv
  <1>7. CASE /\ Collect(worker_tti[w]) /\ NoAllocPaging
             /\ sched_mutex' = w /\ sched_step' = "clear"
             /\ UNCHANGED <<sched_cc, scheduled>>
             /\ pcch_msg' = Collected(worker_tti[w])
    <2>1. /\ pending_paging' \subseteq pending_paging /\ paging_tti' = INVALID_TTI
          /\ byte_buf_paging' = byte_buf_paging /\ worker_tti[w] # paging_tti
          /\ Collected(worker_tti[w]) # {}
          /\ UNCHANGED <<pcch_grants, pcch_unread>>
      BY <1>7 DEF Collect, NoAllocPaging
    <2>2. pcch_grants[w] = {} /\ ForTti(Collected(worker_tti[w]), worker_tti[w])
      BY <1>2, <1>3, <2>1 DEF Collected, ForTti, PagingTypes
    <2>3. worker_pc' = worker_pc /\ worker_tti' = worker_tti
          /\ UNCHANGED <<pcch_payload_buffer, payload>> /\ w # 0
      BY <1>1, PhyWorkersAssumption DEF phy_vars, Worker
    <2>4. PagingTypes'
      BY <1>2, <1>7, <2>1, <2>3 DEF PagingTypes
    <2>5. AssemblyInv'
      BY <1>7, <2>1, <2>2, <2>3 DEF AssemblyInv
    <2>6. ASSUME NEW v \in Worker PROVE ResultInv(v)' /\ MessageInv(v)'
      <3>1. ResultInv(v) /\ MessageInv(v) /\ (v # w => v # sched_mutex) /\ v # 0
        BY <1>1, PhyWorkersAssumption DEF PagingInv, Worker
      <3>2. ResultInv(v)'
        BY <1>1, <1>7, <2>1, <2>2, <2>3, <3>1 DEF ResultInv, HasPages
      <3>3. MessageInv(v)'
        BY <2>1, <2>3, <3>1 DEF MessageInv
      <3> QED
        BY <3>2, <3>3
    <2> QED
      BY <2>4, <2>5, <2>6 DEF PagingInv
  <1> QED
    BY <1>5, <1>6, <1>7, SchedCarrierMeans
(* While a message is assembled, no worker has one to read. *)
LEMMA NothingUnread ==
    ASSUME PhyInv, PagingSfsApart, PagingInv, NEW w \in Worker,
           sched_mutex = w, sched_step # "carrier"
    PROVE  /\ worker_pc[w] = "working" /\ ~scheduled[w] /\ worker_tti[w] \in Tti
           /\ pcch_grants[w] = {} /\ HasPages(worker_tti[w])
           /\ \A v \in Worker : pcch_grants[v] = {} /\ pcch_unread[v] = {}
  <1>1. /\ worker_pc[w] = "working" /\ ~scheduled[w] /\ worker_tti[w] \in Tti
    BY DEF PagingInv, ResultInv, PhyInv, PhyTypeOK
  <1>2. /\ pcch_grants[w] = {} /\ HasPages(worker_tti[w])
    BY DEF PagingInv, AssemblyInv, ForTti, HasPages
  <1>3. ASSUME NEW v \in Worker PROVE pcch_grants[v] = {} /\ pcch_unread[v] = {}
    <2>1. ResultInv(v)
      BY DEF PagingInv
    <2> SUFFICES ASSUME pcch_grants[v] # {} PROVE FALSE
      BY <2>1 DEF ResultInv
    <2>2. worker_pc[v] = "working" /\ HasPages(worker_tti[v])
      BY <1>1, <2>1 DEF ResultInv
    <2>3. v = w
      BY <1>1, <1>2, <2>2, OnePagingWorker
    <2> QED
      BY <1>2, <2>3
  <1> QED
    BY <1>1, <1>2, <1>3

LEMMA ClearBufferKeepsPagingInv ==
    ASSUME PhyInv, PagingSfsApart, PagingInv, NEW w \in Worker, ClearBuffer(w)
    PROVE  PagingInv'
  <1>1. /\ sched_mutex = w /\ sched_step = "clear" /\ sched_step' = "pack"
        /\ UNCHANGED <<pending_paging, paging_tti>>
        /\ worker_pc' = worker_pc /\ worker_tti' = worker_tti
        /\ UNCHANGED <<sched_mutex, sched_cc, pcch_msg>>
        /\ UNCHANGED <<scheduled, pcch_grants, pcch_unread, pcch_payload_buffer, payload>>
    BY DEF ClearBuffer, StartPacking, phy_vars, mac_vars
  <1>2. \A v \in Worker : pcch_unread[v] = {}
    BY <1>1, NothingUnread
  <1>3. PagingTypes'
    BY <1>1 DEF PagingInv, PagingTypes
  <1>4. AssemblyInv'
    BY <1>1 DEF PagingInv, AssemblyInv
  <1>5. ASSUME NEW v \in Worker PROVE ResultInv(v)' /\ MessageInv(v)'
    <2>1. ResultInv(v) /\ MessageInv(v)
      BY DEF PagingInv
    <2>2. ResultInv(v)'
      BY <1>1, <2>1 DEF ResultInv, HasPages
    <2>3. MessageInv(v)'
      BY <1>1, <1>2, <2>1 DEF MessageInv
    <2> QED
      BY <2>2, <2>3
  <1> QED
    BY <1>3, <1>4, <1>5 DEF PagingInv

LEMMA PackMessageKeepsPagingInv ==
    ASSUME PhyInv, PagingSfsApart, PagingInv, NEW w \in Worker, PackMessage(w)
    PROVE  PagingInv'
  <1>1. /\ sched_mutex = w /\ sched_step = "pack" /\ sched_step' = "carrier" /\ pcch_msg' = {}
        /\ byte_buf_paging' = pcch_msg /\ paging_tti' = worker_tti[w]
        /\ pending_paging' = pending_paging
        /\ UNCHANGED <<phy_vars, pcch_payload_buffer, payload>>
        /\ AllocPaging(w) /\ CarrierDone(w)
    BY DEF PackMessage, Packed
  <1>2. /\ worker_pc[w] = "working" /\ ~scheduled[w] /\ worker_tti[w] \in Tti
        /\ pcch_grants[w] = {} /\ HasPages(worker_tti[w])
        /\ \A v \in Worker : pcch_unread[v] = {}
    BY <1>1, NothingUnread
  <1>3. PagingTypes /\ ForTti(pcch_msg, worker_tti[w])
    BY <1>1 DEF PagingInv, AssemblyInv
  <1>4. PICK X \in SUBSET Carrier :
              /\ pcch_grants' = [pcch_grants EXCEPT ![w] = @ \cup X]
              /\ pcch_unread' = [pcch_unread EXCEPT ![w] = @ \cup X]
    BY <1>1, <1>3, AllocMeans
  <1>5. PagingTypes' /\ \A v \in Worker : ResultInv(v)' /\ MessageInv(v)'
    <2>1. ForTti(byte_buf_paging', worker_tti[w])
      BY <1>1, <1>3
    <2>2. pending_paging' \subseteq Ue /\ paging_tti' \in Tti \cup {INVALID_TTI}
      BY <1>1, <1>2, <1>3 DEF PagingTypes
    <2> QED
      BY <1>1, <1>2, <1>4, <2>1, <2>2, Granted
  <1>6. AssemblyInv'
    BY <1>1, <1>2, <1>3 DEF AssemblyInv, HasPages, ForTti
  <1> QED
    BY <1>5, <1>6 DEF PagingInv

LEMMA LowestIsMember ==
    ASSUME NEW S \in SUBSET Carrier, S # {}
    PROVE  Min(S) \in S
  <1>1. S \in SUBSET Nat
    BY BroadcastAssumption
  <1>2. PICK b \in S : \A c \in S : b <= c
    BY <1>1, LeastOfNaturals
  <1> QED
    BY <1>2 DEF Min

LEMMA ReadPduPcchKeepsPagingInv ==
    ASSUME PhyInv, PagingSfsApart, PagingInv, NEW w \in Worker, ReadPduPcch(w)
    PROVE  PagingInv'
  <1>0. PagingTypes /\ ResultInv(w) /\ MessageInv(w)
    BY DEF PagingInv
  <1> PICK cc : cc = Min(pcch_unread[w])
    OBVIOUS
  <1>1. /\ scheduled[w] /\ pcch_unread[w] # {}
        /\ pcch_payload_buffer' = [pcch_payload_buffer EXCEPT ![cc] = byte_buf_paging]
        /\ pcch_unread' = [pcch_unread EXCEPT ![w] = @ \ {cc}]
        /\ worker_pc' = worker_pc /\ worker_tti' = worker_tti
        /\ UNCHANGED <<pending_paging, paging_tti, byte_buf_paging>>
        /\ UNCHANGED <<sched_mutex, sched_cc, sched_step, pcch_msg, scheduled, pcch_grants, payload>>
    BY DEF ReadPduPcch, phy_vars, paging_vars, sched_vars
  <1>2. cc \in Carrier /\ cc \in pcch_unread[w] /\ cc \in pcch_grants[w]
    <2>1. pcch_unread[w] \in SUBSET Carrier
      BY <1>0 DEF PagingTypes
    <2>2. cc \in pcch_unread[w]
      BY <1>1, <2>1, LowestIsMember
    <2> QED
      BY <1>0, <2>1, <2>2 DEF ResultInv
  <1>3. ForTti(byte_buf_paging, worker_tti[w]) /\ worker_pc[w] = "working" /\ HasPages(worker_tti[w])
    BY <1>0, <1>1, <1>2 DEF MessageInv, ResultInv
  <1>4. byte_buf_paging \in Message
    BY <1>3 DEF ForTti, Message
  <1>5. /\ pcch_payload_buffer'[cc] = byte_buf_paging
        /\ \A c \in Carrier \ {cc} : pcch_payload_buffer'[c] = pcch_payload_buffer[c]
        /\ pcch_payload_buffer' \in [Carrier -> Message]
        /\ pcch_unread' \in [Worker -> SUBSET Carrier] /\ pcch_unread'[w] = pcch_unread[w] \ {cc}
        /\ \A v \in Worker \ {w} : pcch_unread'[v] = pcch_unread[v]
    BY <1>0, <1>1, <1>2, <1>4 DEF PagingTypes
  <1>6. PagingTypes'
    BY <1>0, <1>1, <1>5 DEF PagingTypes
  <1>7. AssemblyInv'
    BY <1>1 DEF PagingInv, AssemblyInv, HasPages
  <1>8. ASSUME NEW v \in Worker PROVE ResultInv(v)' /\ MessageInv(v)'
    <2>1. ResultInv(v) /\ MessageInv(v)
      BY DEF PagingInv
    <2>2. CASE v = w
      <3>1. ResultInv(w)'
        BY <1>0, <1>1, <1>5 DEF ResultInv, HasPages
      <3>2. MessageInv(w)'
        <4>1. pcch_unread'[w] # {} => ForTti(byte_buf_paging', worker_tti'[w])
          BY <1>1, <1>3
        <4>2. ASSUME NEW c \in pcch_grants[w] \ pcch_unread'[w]
              PROVE  ForTti(pcch_payload_buffer'[c], worker_tti'[w])
          <5>1. CASE c = cc
            BY <1>1, <1>3, <1>5, <5>1
          <5>2. CASE c # cc
            <6>1. c \in pcch_grants[w] \ pcch_unread[w] /\ c \in Carrier
              BY <1>0, <1>5, <4>2, <5>2 DEF PagingTypes
            <6> QED
              BY <1>0, <1>1, <1>5, <5>2, <6>1 DEF MessageInv
          <5> QED
            BY <5>1, <5>2
        <4>3. \A c \in Carrier : ForTti(payload'[w][c], worker_tti'[w])
          BY <1>0, <1>1 DEF MessageInv
        <4> QED
          BY <1>1, <4>1, <4>2, <4>3 DEF MessageInv
      <3> QED
        BY <2>2, <3>1, <3>2
    <2>3. CASE v # w
      <3>1. pcch_unread'[v] = pcch_unread[v]
        BY <1>5, <2>3
      <3>2. ResultInv(v)'
        BY <1>1, <2>1, <3>1 DEF ResultInv, HasPages
      <3>3. pcch_grants[v] = {}
        <4> SUFFICES ASSUME pcch_grants[v] # {} PROVE FALSE
          OBVIOUS
        <4>1. worker_pc[v] = "working" /\ HasPages(worker_tti[v])
          BY <2>1 DEF ResultInv
        <4> QED
          BY <1>3, <2>3, <4>1, OnePagingWorker
      <3>4. MessageInv(v)'
        BY <1>1, <2>1, <3>1, <3>3 DEF MessageInv
      <3> QED
        BY <3>2, <3>4
    <2> QED
      BY <2>2, <2>3
  <1> QED
    BY <1>6, <1>7, <1>8 DEF PagingInv

LEMMA EncodePdschKeepsPagingInv ==
    ASSUME PagingInv, NEW w \in Worker, EncodePdsch(w)
    PROVE  PagingInv'
  <1>0. PagingTypes /\ ResultInv(w) /\ MessageInv(w)
    BY DEF PagingInv
  <1> PICK cc : cc = Min(pcch_grants[w])
    OBVIOUS
  <1>1. /\ scheduled[w] /\ pcch_unread[w] = {} /\ pcch_grants[w] # {}
        /\ payload' = [payload EXCEPT ![w][cc] = pcch_payload_buffer[cc]]
        /\ pcch_grants' = [pcch_grants EXCEPT ![w] = @ \ {cc}]
        /\ pcch_payload_buffer' =
                [pcch_payload_buffer EXCEPT ![cc] =
                    IF \E v \in Worker \ {w} : cc \in pcch_grants[v] THEN @ ELSE {}]
        /\ worker_pc' = worker_pc /\ worker_tti' = worker_tti
        /\ UNCHANGED <<pending_paging, paging_tti, byte_buf_paging>>
        /\ UNCHANGED <<sched_mutex, sched_cc, sched_step, pcch_msg, scheduled, pcch_unread>>
    BY DEF EncodePdsch, phy_vars, paging_vars, sched_vars
  <1>2. cc \in Carrier /\ cc \in pcch_grants[w]
    <2>1. pcch_grants[w] \in SUBSET Carrier
      BY <1>0 DEF PagingTypes
    <2> QED
      BY <1>1, <2>1, LowestIsMember
  <1>3. /\ pcch_grants' \in [Worker -> SUBSET Carrier] /\ pcch_grants'[w] = pcch_grants[w] \ {cc}
        /\ \A v \in Worker \ {w} : pcch_grants'[v] = pcch_grants[v]
    BY <1>0, <1>1 DEF PagingTypes
  <1>4. /\ pcch_payload_buffer' \in [Carrier -> Message]
        /\ \A c \in Carrier : c # cc \/ (\E v \in Worker \ {w} : cc \in pcch_grants[v])
                                 => pcch_payload_buffer'[c] = pcch_payload_buffer[c]
    BY <1>0, <1>1, <1>2 DEF PagingTypes, Message
  <1>5. /\ payload' \in [Worker -> [Carrier -> Message]]
        /\ payload'[w][cc] = pcch_payload_buffer[cc]
        /\ \A c \in Carrier \ {cc} : payload'[w][c] = payload[w][c]
        /\ \A v \in Worker \ {w} : payload'[v] = payload[v]
    BY <1>0, <1>1, <1>2 DEF PagingTypes
  <1>6. PagingTypes'
    BY <1>0, <1>1, <1>3, <1>4, <1>5 DEF PagingTypes
  <1>7. AssemblyInv'
    <2>1. sched_mutex # w
      BY <1>0, <1>1 DEF ResultInv
    <2>2. sched_mutex # 0 => pcch_grants'[sched_mutex] = pcch_grants[sched_mutex]
      BY <1>0, <1>3, <2>1 DEF PagingTypes
    <2> QED
      BY <1>1, <2>2 DEF PagingInv, AssemblyInv, HasPages
  <1>8. ASSUME NEW v \in Worker PROVE ResultInv(v)' /\ MessageInv(v)'
    <2>1. ResultInv(v) /\ MessageInv(v) /\ pcch_grants[v] \subseteq Carrier
      BY <1>0 DEF PagingInv, PagingTypes
    <2>2. CASE v = w
      <3>1. ResultInv(w)'
        <4>1. \A c \in pcch_grants'[w] : payload'[w][c] = {}
          BY <1>3, <1>5, <2>1, <2>2 DEF ResultInv
        <4> QED
          BY <1>0, <1>1, <1>3, <4>1 DEF ResultInv, HasPages
      <3>2. MessageInv(w)'
        <4>1. ASSUME NEW c \in pcch_grants'[w]
              PROVE  ForTti(pcch_payload_buffer'[c], worker_tti'[w])
          <5>1. c \in pcch_grants[w] \ pcch_unread[w] /\ c # cc /\ c \in Carrier
            BY <1>1, <1>3, <2>1, <2>2
          <5> QED
            BY <1>0, <1>1, <1>4, <5>1 DEF MessageInv
        <4>2. ASSUME NEW c \in Carrier PROVE ForTti(payload'[w][c], worker_tti'[w])
          <5>1. CASE c = cc
            BY <1>0, <1>1, <1>2, <1>5, <5>1 DEF MessageInv
          <5>2. CASE c # cc
            BY <1>0, <1>1, <1>5, <5>2 DEF MessageInv
          <5> QED
            BY <5>1, <5>2
        <4> QED
          BY <1>1, <4>1, <4>2 DEF MessageInv
      <3> QED
        BY <2>2, <3>1, <3>2
    <2>3. CASE v # w
      <3>1. pcch_grants'[v] = pcch_grants[v] /\ payload'[v] = payload[v]
        BY <1>3, <1>5, <2>3
      <3>2. ResultInv(v)'
        BY <1>1, <2>1, <3>1 DEF ResultInv, HasPages
      <3>3. \A c \in pcch_grants[v] : pcch_payload_buffer'[c] = pcch_payload_buffer[c]
        BY <1>4, <2>1, <2>3
      <3>4. MessageInv(v)'
        BY <1>1, <2>1, <3>1, <3>3 DEF MessageInv
      <3> QED
        BY <3>2, <3>4
    <2> QED
      BY <2>2, <2>3
  <1> QED
    BY <1>6, <1>7, <1>8 DEF PagingInv

LEMMA TransmitKeepsPagingInv ==
    ASSUME PagingInv, NEW w \in Worker, Transmit(w)
    PROVE  PagingInv'
  <1>0. PagingTypes /\ ResultInv(w) /\ MessageInv(w)
    BY DEF PagingInv
  <1>1. /\ scheduled[w] /\ pcch_grants[w] = {} /\ pcch_unread[w] = {}
        /\ UNCHANGED <<pending_paging, paging_tti, byte_buf_paging>>
        /\ scheduled' = [scheduled EXCEPT ![w] = FALSE]
        /\ payload' = [payload EXCEPT ![w] = [cc \in Carrier |-> {}]]
        /\ worker_tti' = worker_tti
        /\ \A v \in Worker \ {w} : worker_pc[v] = "working" => worker_pc'[v] = "working"
        /\ UNCHANGED <<sched_mutex, sched_cc, sched_step, pcch_msg>>
        /\ UNCHANGED <<pcch_grants, pcch_unread, pcch_payload_buffer>>
    <2>1. pcch_unread[w] = {}
      BY <1>0 DEF ResultInv, Transmit
    <2>2. \A v \in Worker \ {w} : worker_pc[v] = "working" => worker_pc'[v] = "working"
      <3>1. worker_pc' = [worker_pc EXCEPT ![w] = "sent"]
        BY DEF Transmit, WorkerEnd
      <3>2. TAKE v \in Worker \ {w}
      <3>3. worker_pc'[v] = worker_pc[v] \/ v \notin DOMAIN worker_pc
        BY <3>1
      <3> QED
        BY <3>1, <3>3
    <2> QED
      BY <2>1, <2>2 DEF Transmit, WorkerEnd, Paged, sched_vars
  <1>2. /\ scheduled' \in [Worker -> BOOLEAN] /\ ~scheduled'[w]
        /\ \A v \in Worker \ {w} : scheduled'[v] = scheduled[v]
    BY <1>0, <1>1 DEF PagingTypes
  <1>3. /\ payload' \in [Worker -> [Carrier -> Message]]
        /\ \A cc \in Carrier : payload'[w][cc] = {}
        /\ \A v \in Worker \ {w} : payload'[v] = payload[v]
    BY <1>0, <1>1 DEF PagingTypes, Message
  <1>4. PagingTypes'
    BY <1>0, <1>1, <1>2, <1>3 DEF PagingTypes
  <1>5. AssemblyInv'
    BY <1>1 DEF PagingInv, AssemblyInv, HasPages
  <1>6. ASSUME NEW v \in Worker PROVE ResultInv(v)' /\ MessageInv(v)'
    <2>1. ResultInv(v) /\ MessageInv(v)
      BY DEF PagingInv
    <2>2. CASE v = w
      <3>1. w # sched_mutex
        BY <1>0, <1>1 DEF ResultInv
      <3>2. ResultInv(w)'
        BY <1>1, <1>2, <1>3, <3>1 DEF ResultInv
      <3>3. MessageInv(w)'
        BY <1>1, <1>3, NoMessage DEF MessageInv
      <3> QED
        BY <2>2, <3>2, <3>3
    <2>3. CASE v # w
      <3>1. scheduled'[v] = scheduled[v] /\ payload'[v] = payload[v]
        BY <1>2, <1>3, <2>3
      <3>2. ResultInv(v)'
        BY <1>1, <2>1, <2>3, <3>1 DEF ResultInv, HasPages
      <3>3. MessageInv(v)'
        BY <1>1, <2>1, <3>1 DEF MessageInv
      <3> QED
        BY <3>2, <3>3
    <2> QED
      BY <2>2, <2>3
  <1> QED
    BY <1>4, <1>5, <1>6 DEF PagingInv

LEMMA PageKeepsPagingInv ==
    ASSUME PagingInv, NEW u \in Ue, Page(u)
    PROVE  PagingInv'
  <1>1. /\ pending_paging' = pending_paging \cup {u}
        /\ UNCHANGED <<paging_tti, byte_buf_paging>>
        /\ worker_pc' = worker_pc /\ worker_tti' = worker_tti
        /\ UNCHANGED <<sched_mutex, sched_cc, sched_step, pcch_msg>>
        /\ UNCHANGED <<scheduled, pcch_grants, pcch_unread, pcch_payload_buffer, payload>>
    BY DEF Page, AddPagingId, phy_vars, sched_vars, mac_vars
  <1>2. PagingTypes'
    BY <1>1 DEF PagingInv, PagingTypes
  <1>3. AssemblyInv'
    BY <1>1 DEF PagingInv, AssemblyInv, HasPages
  <1>4. ASSUME NEW w \in Worker PROVE ResultInv(w)' /\ MessageInv(w)'
    <2>1. ResultInv(w) /\ MessageInv(w)
      BY DEF PagingInv
    <2>2. ResultInv(w)'
      BY <1>1, <2>1 DEF ResultInv, HasPages
    <2>3. MessageInv(w)'
      BY <1>1, <2>1 DEF MessageInv
    <2> QED
      BY <2>2, <2>3
  <1> QED
    BY <1>2, <1>3, <1>4 DEF PagingInv
LEMMA StepKeepsPagingInv ==
    ASSUME PagingSfsApart
    PROVE  PhyInv /\ PagingInv /\ [Next]_vars => PagingInv'
  <1> SUFFICES ASSUME PhyInv, PagingInv, [Next]_vars PROVE PagingInv'
    OBVIOUS
  <1>1. ASSUME NEW u \in Ue, Page(u) PROVE PagingInv'
    BY <1>1, PageKeepsPagingInv
  <1>2. CASE Start \/ StopPhy
    <2>1. \A w \in Worker : worker_pc[w] = "working" =>
              worker_pc'[w] = "working" /\ worker_tti'[w] = worker_tti[w]
      <3>1. CASE StartWorker
        <4>1. PICK v \in Worker : status[v] = "IDLE" /\ worker_tti' = [worker_tti EXCEPT ![v] = tti]
          BY <3>1 DEF StartWorker, FinishedWorkers
        <4>2. worker_pc[v] = "waiting" /\ worker_pc' = worker_pc
          BY <3>1, <4>1 DEF StartWorker, PhyInv, QueueIsWork
        <4> QED
          BY <4>1, <4>2 DEF PhyInv, PhyTypeOK
      <3>2. CASE LeaveLoop \/ Stop
        BY <3>2 DEF LeaveLoop, Stop, StopTxrx, TxrxEnded, StopPool, PoolEnded
      <3> QED
        BY <1>2, <3>1, <3>2 DEF Start, StopPhy
    <2>2. UNCHANGED <<paging_vars, sched_vars, mac_vars>>
      BY <1>2 DEF Start, StopPhy
    <2> QED
      BY <2>1, <2>2, PoolKeepsPagingInv DEF paging_vars
  <1>3. ASSUME NEW w \in Worker, Work(w) PROVE PagingInv'
    <2>1. CASE BeginWork(w)
      <3>1. worker_tti' = worker_tti /\ worker_pc' = [worker_pc EXCEPT ![w] = "working"]
            /\ worker_pc \in [Worker -> {"waiting", "working", "sent"}]
        BY <2>1 DEF BeginWork, WaitToStart, PhyInv, PhyTypeOK
      <3>2. UNCHANGED <<paging_vars, sched_vars, mac_vars>>
        BY <2>1 DEF BeginWork
      <3> QED
        BY <3>1, <3>2, PoolKeepsPagingInv DEF paging_vars
    <2>2. CASE EndWork(w)
      <3>1. /\ worker_pc[w] = "sent" /\ worker_pc' = [worker_pc EXCEPT ![w] = "waiting"]
            /\ worker_tti' = [worker_tti EXCEPT ![w] = 0]
            /\ worker_pc \in [Worker -> {"waiting", "working", "sent"}]
            /\ worker_tti \in [Worker -> Tti]
        BY <2>2 DEF EndWork, Finished, PhyInv, PhyTypeOK
      <3>2. \A v \in Worker : worker_pc[v] = "working" =>
              worker_pc'[v] = "working" /\ worker_tti'[v] = worker_tti[v]
        BY <3>1
      <3>3. UNCHANGED <<paging_vars, sched_vars, mac_vars>>
        BY <2>2 DEF EndWork
      <3> QED
        BY <3>2, <3>3, PoolKeepsPagingInv DEF paging_vars
    <2> QED
      BY <1>3, <2>1, <2>2, SchedCarrierKeepsPagingInv, ClearBufferKeepsPagingInv,
         PackMessageKeepsPagingInv, ReadPduPcchKeepsPagingInv, EncodePdschKeepsPagingInv,
         TransmitKeepsPagingInv DEF Work
  <1>4. CASE Ended \/ UNCHANGED vars
    <2>1. /\ UNCHANGED <<paging_vars, sched_vars, mac_vars>>
          /\ worker_pc' = worker_pc /\ worker_tti' = worker_tti
      BY <1>4 DEF Ended, vars, phy_vars
    <2> QED
      BY <2>1, PoolKeepsPagingInv DEF paging_vars
  <1> QED
    BY <1>1, <1>2, <1>3, <1>4 DEF Next

(* With as many workers as the paging subframes are apart, or fewer, a UE is paged
   when it listens and in a whole message, although RRC assembles the messages of
   all TTIs in one buffer and the carriers of all workers share theirs. *)
THEOREM PagedInTime == PagingSfsApart => (Spec => []PagedAtOpportunity)
  <1> SUFFICES ASSUME PagingSfsApart PROVE Spec => []PagedAtOpportunity
    OBVIOUS
  <1>1. PagingInv => PagedAtOpportunity
    BY DEF PagingInv, MessageInv, ForTti, PagedAtOpportunity
  <1>2. PhyInv /\ PagingInv /\ [Next]_vars => PagingInv'
    BY StepKeepsPagingInv
  <1> QED
    BY <1>1, <1>2, InitPagingInv, PhyIsImplemented, PhyInvHolds, PTL DEF Spec

-----------------------------------------------------------------------------
(* No page is lost: from pending_paging a UE goes to the message that is       *)
(* assembled, from there to a buffer that has readers, and on.                *)

LEMMA InitPageKept == Init => PageKept
  BY DEF Init, PagingInit, PageKept

\* Steps that only add to where the UEs are, or leave everything in place.
LEMMA CarriedStays ==
    ASSUME PageKept, requested' \subseteq requested, pending_paging \subseteq pending_paging',
           \A u \in requested', w \in Worker : Carried(u, w) => \E v \in Worker : Carried(u, v)'
    PROVE  PageKept'
  BY DEF PageKept

LEMMA SchedCarrierKeepsPages ==
    ASSUME PhyInv, PagingInv, PageKept, ~Collisions, NEW w \in Worker, SchedCarrier(w)
    PROVE  PageKept'
  <1>1. /\ worker_pc[w] = "working" /\ ~scheduled[w]
        /\ sched_mutex \in {0, w} /\ sched_step = "carrier"
        /\ UNCHANGED <<pcch_payload_buffer, payload>>
    BY SchedCarrierMeans
  <1>2. PagingTypes /\ pcch_msg = {}
    BY <1>1 DEF PagingInv, AssemblyInv
  <1>3. PICK X \in SUBSET Carrier :
              /\ pcch_grants' = [pcch_grants EXCEPT ![w] = @ \cup X]
              /\ pcch_unread' = [pcch_unread EXCEPT ![w] = @ \cup X]
    BY <1>2, AllocMeans, SchedCarrierMeans
  <1>4. requested' = requested /\ byte_buf_paging' = byte_buf_paging
    BY SchedCarrierMeans DEF ExtraCarrier, NoPaging, Collect, paging_vars
  <1>5. /\ \A v \in Worker : pcch_unread[v] \subseteq pcch_unread'[v]
        /\ \A v \in Worker : \A cc \in pcch_grants[v] \ pcch_unread[v] :
              cc \in pcch_grants'[v] \ pcch_unread'[v] \/ cc \in pcch_unread'[v]
        /\ \A v \in Worker \ {w} : pcch_grants'[v] \ pcch_unread'[v] = pcch_grants[v] \ pcch_unread[v]
        /\ pcch_grants[w] \ pcch_unread[w] = {}
    <2>1. pcch_grants[w] = pcch_unread[w]
      BY <1>1 DEF PagingInv, ResultInv
    <2> QED
      BY <1>2, <1>3, <2>1 DEF PagingTypes
  <1>6. ASSUME NEW u \in requested, NEW v \in Worker, Carried(u, v)
        PROVE  Carried(u, v)'
    BY <1>1, <1>2, <1>4, <1>5, <1>6 DEF Carried
  <1>7. CASE pending_paging' = pending_paging
    BY <1>4, <1>6, <1>7, CarriedStays
  <1>8. CASE Collect(worker_tti[w]) /\ sched_mutex' = w /\ pcch_msg' = Collected(worker_tti[w])
    <2>1. ASSUME NEW u \in requested, u \in Removed(worker_tti[w])
          PROVE  Carried(u, w)'
      <3>1. \E cc \in Carrier : sched_mutex' = w /\ u \in pcch_msg'
        BY <1>8, <2>1, BroadcastAssumption DEF Removed
      <3> QED
        BY <3>1 DEF Carried
    <2>2. pending_paging' = pending_paging \ Removed(worker_tti[w])
      BY <1>8 DEF Collect
    <2> SUFFICES ASSUME NEW u \in requested
                 PROVE  u \in pending_paging' \/ \E v \in Worker : Carried(u, v)'
      BY <1>4 DEF PageKept, Carried
    <2>3. u \in pending_paging \/ \E v \in Worker : Carried(u, v)
      BY DEF PageKept
    <2> QED
      BY <1>6, <2>1, <2>2, <2>3
  <1> QED
    BY <1>7, <1>8, SchedCarrierMeans DEF ExtraCarrier, NoPaging, paging_vars

LEMMA AssemblyKeepsPages ==
    ASSUME PhyInv, PagingSfsApart, PagingInv, PageKept, ~Collisions,
           NEW w \in Worker, ClearBuffer(w) \/ PackMessage(w)
    PROVE  PageKept'
  <1>1. /\ sched_mutex = w /\ sched_step # "carrier"
        /\ UNCHANGED <<pcch_payload_buffer, payload, requested, pending_paging>>
    BY DEF ClearBuffer, PackMessage, StartPacking, Packed, mac_vars
  <1>2. PagingTypes /\ w # 0
    BY PhyWorkersAssumption DEF PagingInv, Worker
  <1>3. \A v \in Worker : pcch_grants[v] = {} /\ pcch_unread[v] = {}
    BY <1>1, NothingUnread
  <1>4. ASSUME NEW u \in requested, NEW v \in Worker, Carried(u, v) PROVE Carried(u, v)'
    <2>1. PICK cc \in Carrier : u \in payload[v][cc] \/ (v = w /\ u \in pcch_msg)
      BY <1>1, <1>3, <1>4 DEF Carried
    <2>2. CASE u \in payload[v][cc]
      BY <1>1, <2>2 DEF Carried
    <2>3. CASE v = w /\ u \in pcch_msg
      <3>1. CASE ClearBuffer(w)
        BY <1>1, <2>3, <3>1 DEF ClearBuffer, Carried
      <3>2. CASE PackMessage(w)
        <4>1. byte_buf_paging' = pcch_msg /\ AllocPaging(w)
          BY <3>2 DEF PackMessage, Packed
        <4>2. PICK X \in SUBSET Carrier :
                /\ pcch_unread' = [pcch_unread EXCEPT ![w] = @ \cup X]
                /\ sched_cc \in X
          BY <1>2, <4>1, AllocMeans
        <4>3. sched_cc \in Carrier /\ sched_cc \in pcch_unread'[w] /\ u \in byte_buf_paging'
          BY <1>2, <2>3, <4>1, <4>2 DEF PagingTypes
        <4> QED
          BY <2>3, <4>3 DEF Carried
      <3> QED
        BY <3>1, <3>2
    <2> QED
      BY <2>1, <2>2, <2>3
  <1> QED
    BY <1>1, <1>4, CarriedStays

LEMMA ReadPduPcchKeepsPages ==
    ASSUME PhyInv, PagingSfsApart, PagingInv, PageKept, NEW w \in Worker, ReadPduPcch(w)
    PROVE  PageKept'
  <1>0. PagingTypes /\ ResultInv(w) /\ MessageInv(w)
    BY DEF PagingInv
  <1> PICK cc : cc = Min(pcch_unread[w])
    OBVIOUS
  <1>1. /\ scheduled[w] /\ pcch_unread[w] # {}
        /\ pcch_payload_buffer' = [pcch_payload_buffer EXCEPT ![cc] = byte_buf_paging]
        /\ pcch_unread' = [pcch_unread EXCEPT ![w] = @ \ {cc}]
        /\ UNCHANGED <<pending_paging, requested, byte_buf_paging>>
        /\ UNCHANGED <<sched_mutex, pcch_msg, pcch_grants, payload>>
    BY DEF ReadPduPcch, paging_vars, sched_vars
  <1>2. cc \in Carrier /\ cc \in pcch_unread[w] /\ cc \in pcch_grants[w]
    <2>1. pcch_unread[w] \in SUBSET Carrier
      BY <1>0 DEF PagingTypes
    <2>2. cc \in pcch_unread[w]
      BY <1>1, <2>1, LowestIsMember
    <2> QED
      BY <1>0, <2>1, <2>2 DEF ResultInv
  <1>3. /\ pcch_payload_buffer'[cc] = byte_buf_paging
        /\ \A c \in Carrier \ {cc} : pcch_payload_buffer'[c] = pcch_payload_buffer[c]
        /\ pcch_unread'[w] = pcch_unread[w] \ {cc}
        /\ \A v \in Worker \ {w} : pcch_unread'[v] = pcch_unread[v]
    BY <1>0, <1>1, <1>2 DEF PagingTypes
  <1>4. \A v \in Worker \ {w} : pcch_grants[v] = {}
    <2> SUFFICES ASSUME NEW v \in Worker \ {w}, pcch_grants[v] # {} PROVE FALSE
      OBVIOUS
    <2>1. worker_pc[v] = "working" /\ HasPages(worker_tti[v])
      BY DEF PagingInv, ResultInv
    <2>2. worker_pc[w] = "working" /\ HasPages(worker_tti[w])
      BY <1>0, <1>1, <1>2 DEF ResultInv
    <2> QED
      BY <2>1, <2>2, OnePagingWorker
  <1>5. ASSUME NEW u \in requested, NEW v \in Worker, Carried(u, v) PROVE Carried(u, v)'
    <2>1. PICK c \in Carrier :
            \/ u \in payload[v][c]
            \/ c \in pcch_unread[v] /\ u \in byte_buf_paging
            \/ c \in pcch_grants[v] \ pcch_unread[v] /\ u \in pcch_payload_buffer[c]
            \/ sched_mutex = v /\ u \in pcch_msg
      BY <1>5 DEF Carried
    <2>2. CASE u \in payload[v][c] \/ (sched_mutex = v /\ u \in pcch_msg)
      BY <1>1, <2>2 DEF Carried
    <2>3. CASE c \in pcch_unread[v] /\ u \in byte_buf_paging
      <3>1. v = w
        BY <1>4, <2>3 DEF PagingInv, ResultInv
      <3>2. CASE c = cc
        BY <1>1, <1>2, <1>3, <2>3, <3>1, <3>2 DEF Carried
      <3>3. CASE c # cc
        BY <1>1, <1>3, <2>3, <3>1, <3>3 DEF Carried
      <3> QED
        BY <3>2, <3>3
    <2>4. CASE c \in pcch_grants[v] \ pcch_unread[v] /\ u \in pcch_payload_buffer[c]
      <3>1. v = w /\ c # cc
        BY <1>2, <1>4, <2>4
      <3> QED
        BY <1>1, <1>3, <2>4, <3>1 DEF Carried
    <2> QED
      BY <2>1, <2>2, <2>3, <2>4
  <1> QED
    BY <1>1, <1>5, CarriedStays

LEMMA EncodePdschKeepsPages ==
    ASSUME PagingInv, PageKept, NEW w \in Worker, EncodePdsch(w)
    PROVE  PageKept'
  <1>0. PagingTypes /\ ResultInv(w)
    BY DEF PagingInv
  <1> PICK cc : cc = Min(pcch_grants[w])
    OBVIOUS
  <1>1. /\ pcch_unread[w] = {} /\ pcch_grants[w] # {}
        /\ payload' = [payload EXCEPT ![w][cc] = pcch_payload_buffer[cc]]
        /\ pcch_grants' = [pcch_grants EXCEPT ![w] = @ \ {cc}]
        /\ pcch_payload_buffer' =
                [pcch_payload_buffer EXCEPT ![cc] =
                    IF \E v \in Worker \ {w} : cc \in pcch_grants[v] THEN @ ELSE {}]
        /\ UNCHANGED <<pending_paging, requested, byte_buf_paging>>
        /\ UNCHANGED <<sched_mutex, pcch_msg, pcch_unread>>
    BY DEF EncodePdsch, paging_vars, sched_vars
  <1>2. cc \in Carrier /\ cc \in pcch_grants[w] /\ payload[w][cc] = {}
    <2>1. pcch_grants[w] \in SUBSET Carrier
      BY <1>0 DEF PagingTypes
    <2>2. cc \in pcch_grants[w]
      BY <1>1, <2>1, LowestIsMember
    <2> QED
      BY <1>0, <2>1, <2>2 DEF ResultInv
  <1>3. /\ pcch_grants'[w] = pcch_grants[w] \ {cc}
        /\ \A v \in Worker \ {w} : pcch_grants'[v] = pcch_grants[v]
        /\ \A c \in Carrier : c # cc \/ (\E v \in Worker \ {w} : cc \in pcch_grants[v])
                                 => pcch_payload_buffer'[c] = pcch_payload_buffer[c]
        /\ payload'[w][cc] = pcch_payload_buffer[cc]
        /\ \A c \in Carrier \ {cc} : payload'[w][c] = payload[w][c]
        /\ \A v \in Worker \ {w} : payload'[v] = payload[v]
    BY <1>0, <1>1, <1>2 DEF PagingTypes
  <1>4. ASSUME NEW u \in requested, NEW v \in Worker, Carried(u, v) PROVE Carried(u, v)'
    <2>1. PICK c \in Carrier :
            \/ u \in payload[v][c]
            \/ c \in pcch_unread[v] /\ u \in byte_buf_paging
            \/ c \in pcch_grants[v] \ pcch_unread[v] /\ u \in pcch_payload_buffer[c]
            \/ sched_mutex = v /\ u \in pcch_msg
      BY <1>4 DEF Carried
    <2>2. CASE \/ c \in pcch_unread[v] /\ u \in byte_buf_paging
               \/ sched_mutex = v /\ u \in pcch_msg
      BY <1>1, <2>2 DEF Carried
    <2>3. CASE u \in payload[v][c]
      <3>1. u \in payload'[v][c]
        BY <1>2, <1>3, <2>3
      <3> QED
        BY <3>1 DEF Carried
    <2>4. CASE c \in pcch_grants[v] \ pcch_unread[v] /\ u \in pcch_payload_buffer[c]
      <3>1. CASE v = w /\ c = cc
        <4>1. u \in payload'[v][c]
          BY <1>3, <2>4, <3>1
        <4> QED
          BY <4>1 DEF Carried
      <3>2. CASE ~(v = w /\ c = cc)
        <4>1. c \in pcch_grants'[v] \ pcch_unread'[v]
          BY <1>1, <1>3, <2>4, <3>2
        <4>2. pcch_payload_buffer'[c] = pcch_payload_buffer[c]
          BY <1>3, <2>4, <3>2
        <4> QED
          BY <2>4, <4>1, <4>2 DEF Carried
      <3> QED
        BY <3>1, <3>2
    <2> QED
      BY <2>1, <2>2, <2>3, <2>4
  <1> QED
    BY <1>1, <1>4, CarriedStays

\* A page that is sent is not requested any more, unless there is another one.
LEMMA TransmitKeepsPages ==
    ASSUME PagingInv, PageKept, NEW w \in Worker, Transmit(w)
    PROVE  PageKept'
  <1>0. PagingTypes
    BY DEF PagingInv
  <1> PICK ues : ues = UNION {payload[w][cc] : cc \in Carrier}
    OBVIOUS
  <1>1. /\ pcch_grants[w] = {} /\ pcch_unread[w] = {} /\ w # sched_mutex
        /\ requested' = requested \ (ues \ pending_paging)
        /\ payload' = [payload EXCEPT ![w] = [cc \in Carrier |-> {}]]
        /\ UNCHANGED <<pending_paging, byte_buf_paging>>
        /\ UNCHANGED <<sched_mutex, pcch_msg>>
        /\ UNCHANGED <<pcch_grants, pcch_unread, pcch_payload_buffer>>
    <2>1. /\ pcch_grants[w] = {} /\ scheduled[w] /\ Paged(ues)
          /\ payload' = [payload EXCEPT ![w] = [cc \in Carrier |-> {}]]
          /\ UNCHANGED <<sched_mutex, pcch_msg>>
          /\ UNCHANGED <<pcch_grants, pcch_unread, pcch_payload_buffer>>
      BY DEF Transmit, sched_vars
    <2>2. ResultInv(w)
      BY DEF PagingInv
    <2> QED
      BY <2>1, <2>2 DEF Paged, ResultInv
  <1>2. \A v \in Worker \ {w} : payload'[v] = payload[v]
    BY <1>0, <1>1 DEF PagingTypes
  <1> SUFFICES ASSUME NEW u \in requested'
               PROVE  u \in pending_paging' \/ \E v \in Worker : Carried(u, v)'
    BY DEF PageKept, Carried
  <1>3. CASE u \in pending_paging
    BY <1>1, <1>3
  <1>4. CASE u \notin pending_paging
    <2>1. u \in requested /\ \A cc \in Carrier : u \notin payload[w][cc]
      <3>1. \A cc \in Carrier : payload[w][cc] \subseteq ues
        BY Zenon
      <3> QED
        BY <1>1, <1>4, <3>1
    <2>2. PICK v \in Worker : Carried(u, v)
      BY <1>4, <2>1 DEF PageKept
    <2>3. v # w
      BY <1>1, <2>1, <2>2 DEF Carried
    <2>4. Carried(u, v)'
      BY <1>1, <1>2, <2>2, <2>3 DEF Carried
    <2> QED
      BY <2>4
  <1> QED
    BY <1>3, <1>4

LEMMA StepKeepsPages ==
    ASSUME PagingSfsApart, ~Collisions
    PROVE  PhyInv /\ PagingInv /\ PageKept /\ [Next]_vars => PageKept'
  <1> SUFFICES ASSUME PhyInv, PagingInv, PageKept, [Next]_vars PROVE PageKept'
    OBVIOUS
  <1>1. ASSUME NEW u \in Ue, Page(u) PROVE PageKept'
    BY <1>1 DEF Page, AddPagingId, sched_vars, mac_vars, PageKept, Carried
  <1>2. CASE UNCHANGED <<paging_vars, sched_vars, mac_vars>>
    BY <1>2 DEF paging_vars, sched_vars, mac_vars, PageKept, Carried
  <1>3. ASSUME NEW w \in Worker, Work(w) PROVE PageKept'
    <2>1. CASE BeginWork(w) \/ EndWork(w)
      BY <1>2, <2>1 DEF BeginWork, EndWork
    <2> QED
      BY <1>3, <2>1, SchedCarrierKeepsPages, AssemblyKeepsPages, ReadPduPcchKeepsPages,
         EncodePdschKeepsPages, TransmitKeepsPages DEF Work
  <1>4. CASE Start \/ StopPhy \/ Ended \/ UNCHANGED vars
    BY <1>2, <1>4 DEF Start, StopPhy, Ended, vars
  <1> QED
    BY <1>1, <1>3, <1>4 DEF Next

(* And none of the UEs to page is forgotten, if the message always finds room in
   the subframe: when alloc_paging fails (Collisions) its records are gone. *)
THEOREM NoPageIsLost == PagingSfsApart /\ ~Collisions => (Spec => []PageKept)
  <1> SUFFICES ASSUME PagingSfsApart, ~Collisions PROVE Spec => []PageKept
    OBVIOUS
  <1>1. PhyInv /\ PagingInv /\ [Next]_vars => PagingInv'
    BY StepKeepsPagingInv
  <1>2. PhyInv /\ PagingInv /\ PageKept /\ [Next]_vars => PageKept'
    BY StepKeepsPages
  <1> QED
    BY <1>1, <1>2, InitPagingInv, InitPageKept, PhyIsImplemented, PhyInvHolds, PTL DEF Spec
-----------------------------------------------------------------------------
(* System information.  A window that is open was opened where the UEs expect  *)
(* it, and the frame cycle is a whole number of periods.                      *)

LEMMA DivMod ==
    ASSUME NEW y \in Int, NEW n \in Nat, n > 0
    PROVE  y = n * (y \div n) + (y % n) /\ y % n \in 0..(n - 1) /\ y \div n \in Int
  OBVIOUS

LEMMA NoSmallMultiple ==
    ASSUME NEW n \in Nat, NEW a \in Int, n > 0, n * a > 0
    PROVE  n * a >= n
  <1>1. a > 0
    OBVIOUS
  <1>2. a >= 1
    BY <1>1
  <1> QED
    BY <1>2

LEMMA MultiplesApart ==
    ASSUME NEW n \in Nat, NEW a \in Int, NEW b \in Int
    PROVE  n * a - n * b = n * (a - b) /\ n * a + n * b = n * (a + b) /\ n * a \in Int
  OBVIOUS

LEMMA AfterMultiple ==
    ASSUME NEW n \in Nat, n > 0, NEW q \in Int, NEW d \in Nat
    PROVE  (n * q + d) % n <= d
  <1> PICK y : y = n * q + d
    OBVIOUS
  <1>1. y \in Int /\ n * q \in Int
    OBVIOUS
  <1> PICK k, r : k = y \div n /\ r = y % n
    OBVIOUS
  <1>2. y = n * k + r /\ r \in 0..(n - 1) /\ k \in Int /\ n * k \in Int
    BY <1>1, DivMod
  <1> SUFFICES ASSUME r > d PROVE FALSE
    BY <1>2
  <1>3. n * q - n * k = r - d
    BY <1>1, <1>2
  <1>4. n * (q - k) = r - d
    BY <1>2, <1>3, MultiplesApart
  <1>5. n * (q - k) >= n
    BY <1>2, <1>4, NoSmallMultiple
  <1> QED
    BY <1>2, <1>4, <1>5

LEMMA WholeMultiple ==
    ASSUME NEW y \in Nat, NEW n \in Nat, n > 0, y % n = 0
    PROVE  \E q \in Int : y = n * q
  <1>1. y = n * (y \div n) + (y % n) /\ y \div n \in Int
    BY DivMod
  <1>2. n * (y \div n) \in Int
    BY <1>1, MultiplesApart
  <1>3. y = n * (y \div n)
    BY <1>1, <1>2
  <1> QED
    BY <1>1, <1>3

\* TTI x is in the same place of a period of P frames as TTI o of the first one.
InStep(x, o, P) == P > 0 /\ (x \div 10) % P = o \div 10 /\ x % 10 = o % 10

NthPeriod(x, P) == (x \div 10) \div P

LEMMA SameDigit ==
    ASSUME NEW x \in Int, NEW o \in Int, NEW f \in Int, NEW g \in Int, NEW m \in Int,
           NEW r \in Int, x = 10 * f + r, o = 10 * g + r, f = m + g
    PROVE  x = 10 * m + o
  OBVIOUS

LEMMA SameInPeriod ==
    ASSUME NEW x \in Nat, NEW o \in Nat, NEW P \in Nat, InStep(x, o, P)
    PROVE  NthPeriod(x, P) \in Int /\ x = (10 * P) * NthPeriod(x, P) + o
  <1>0. PICK f, g, r, k : f = x \div 10 /\ g = o \div 10 /\ r = x % 10 /\ k = f \div P
    OBVIOUS
  <1>1. x = 10 * f + r /\ f \in Int /\ o = 10 * g + r /\ g \in Int /\ r \in Int
    BY <1>0 DEF InStep
  <1>2. f = P * k + g /\ k \in Int
    BY <1>0, <1>1, DivMod DEF InStep
  <1>3. PICK m : m = P * k
    OBVIOUS
  <1>4. m \in Int /\ (10 * P) * k = 10 * m /\ f = m + g
    BY <1>2, <1>3
  <1>5. x = 10 * m + o
    BY <1>1, <1>4, SameDigit
  <1> QED
    BY <1>0, <1>2, <1>4, <1>5 DEF NthPeriod

LEMMA OpenedAt ==
    ASSUME NEW i \in Si \ {0}, NEW x \in Tti, OpensWindow(i, x), WindowOffset(i) \in Nat
    PROVE  /\ NthPeriod(x, Period[i]) \in Int
           /\ x = (10 * Period[i]) * NthPeriod(x, Period[i]) + WindowOffset(i)
  <1>1. x \in Nat /\ Period[i] \in Nat
    BY BroadcastAssumption, PhyWorkersAssumption DEF Tti
  <1>2. InStep(x, WindowOffset(i), Period[i])
    BY BroadcastAssumption DEF OpensWindow, Sfn, SfIdx, InStep
  <1> QED
    BY <1>1, <1>2, SameInPeriod

\* A subframe 9 at most SiWindow after the start of a window is in it.
LEMMA NinthInWindow ==
    ASSUME NEW i \in Si \ {0}, NEW t \in Tti, NEW x \in Tti, OpensWindow(i, x),
           TtiInterval(t, x) <= SiWindow, SfIdx(t) = 9, SiWindow > 1,
           TtiMod % (10 * Period[i]) = 0
    PROVE  (t - WindowOffset(i)) % (10 * Period[i]) < SiWindow
  <1> PICK P, o, d, n : /\ P = Period[i] /\ o = WindowOffset(i)
                        /\ d = TtiInterval(t, x) /\ n = 10 * P
    OBVIOUS
  <1>1. /\ P \in Nat /\ P > 0 /\ n \in Nat /\ n > 0
        /\ i \in Nat /\ i > 0 /\ SiWindow \in {2, 5, 10, 15, 20, 40}
        /\ TtiMod \in Nat /\ TtiMod % 10 = 0 /\ t \in 0..(TtiMod - 1) /\ x \in 0..(TtiMod - 1)
    BY BroadcastAssumption, PhyWorkersAssumption DEF Si, Tti
  <1>2. o \in Nat
    BY <1>1 DEF WindowOffset
  <1>3. /\ d \in Nat /\ d <= SiWindow
        /\ t = x + d \/ t = x + d - TtiMod
    BY <1>1 DEF TtiInterval
  <1>4. (x \div 10) % P = o \div 10 /\ x % 10 = o % 10
    BY <1>1 DEF OpensWindow, Sfn, SfIdx
  <1>5. d # SiWindow
    <2> SUFFICES ASSUME d = SiWindow PROVE FALSE
      OBVIOUS
    <2>1. t % 10 = 9
      BY DEF SfIdx
    <2>2. (x + SiWindow) % 10 = 9
      BY <1>1, <1>3, <2>1
    <2>3. CASE SiWindow = 2
      BY <1>1, <1>4, <2>2, <2>3 DEF WindowOffset
    <2>4. CASE SiWindow = 5
      BY <1>1, <1>4, <2>2, <2>4 DEF WindowOffset
    <2>5. CASE SiWindow = 15
      BY <1>1, <1>4, <2>2, <2>5 DEF WindowOffset
    <2>6. CASE SiWindow = 10
      BY <1>1, <1>4, <2>2, <2>6 DEF WindowOffset
    <2>7. CASE SiWindow = 20
      BY <1>1, <1>4, <2>2, <2>7 DEF WindowOffset
    <2>8. CASE SiWindow = 40
      BY <1>1, <1>4, <2>2, <2>8 DEF WindowOffset
    <2> QED
      BY <1>1, <2>3, <2>4, <2>5, <2>6, <2>7, <2>8
  <1>6. PICK k \in Int : x = n * k + o
    BY <1>2, OpenedAt
  <1>7. PICK m \in Int : TtiMod = n * m
    <2>1. TtiMod % n = 0
      OBVIOUS
    <2> QED
      BY <1>1, <2>1, WholeMultiple
  <1>8. PICK q \in Int : t - o = n * q + d
    <2>1. n * k \in Int /\ n * m \in Int /\ n * k - n * m = n * (k - m)
      BY <1>1, MultiplesApart
    <2>2. CASE t = x + d
      <3>1. t - o = n * k + d
        BY <1>1, <1>2, <1>3, <1>6, <2>1, <2>2
      <3> QED
        BY <3>1
    <2>3. CASE t = x + d - TtiMod
      <3>1. t - o = (n * k - n * m) + d
        BY <1>1, <1>2, <1>3, <1>6, <1>7, <2>1, <2>3
      <3>2. t - o = n * (k - m) + d /\ k - m \in Int
        BY <2>1, <3>1
      <3> QED
        BY <3>2
    <2> QED
      BY <1>3, <2>2, <2>3
  <1>9. (t - o) % n <= d /\ (t - o) % n \in Int
    <2>1. (n * q + d) % n <= d
      BY <1>1, <1>3, AfterMultiple
    <2>2. t - o \in Int
      BY <1>1, <1>2
    <2>3. (t - o) % n \in 0..(n - 1)
      BY <1>1, <2>2, DivMod
    <2> QED
      BY <1>8, <2>1, <2>3
  <1>10. (t - o) % n < SiWindow
    BY <1>1, <1>3, <1>5, <1>9
  <1> QED
    BY <1>10

(* The cycle of the frame number is a whole number of periods. *)
PeriodsFit == \A i \in Si \ {0} : TtiMod % (10 * Period[i]) = 0

SiState == [is_in_window : BOOLEAN, window_start : Tti, n_tx : Nat]

Opened(s, i) == s.is_in_window => OpensWindow(i, s.window_start)

LEMMA AfterTtiKeeps ==
    ASSUME NEW s \in SiState, NEW i \in Si, i # 0 => Opened(s, i), NEW t \in Tti
    PROVE  /\ AfterTti(s, i, t) \in SiState
           /\ i # 0 => Opened(AfterTti(s, i, t), i)
           /\ i # 0 /\ SiWindow > 1 /\ PeriodsFit /\ IsSent(Updated(s, i, t), i, t) =>
                 (t - WindowOffset(i)) % (10 * Period[i]) < SiWindow
  <1> PICK u : u = Updated(s, i, t)
    OBVIOUS
  <1>0. TtiMod \in Nat /\ TtiMod > 0 /\ t \in 0..(TtiMod - 1) /\ 0 \in Tti /\ i \in Nat
        /\ SiWindow \in Nat
    BY PhyWorkersAssumption, BroadcastAssumption DEF Tti, Si
  <1>1. u \in SiState
    BY <1>0 DEF Updated, SiState, Idle
  <1>2. i # 0 => Opened(u, i)
    BY <1>0 DEF Updated, SiState, Idle, Opened
  <1>3. i # 0 /\ u.is_in_window => TtiInterval(t, u.window_start) <= SiWindow
    <2> SUFFICES ASSUME i # 0, u.is_in_window PROVE TtiInterval(t, u.window_start) <= SiWindow
      OBVIOUS
    <2>1. CASE u.window_start = t
      BY <1>0, <2>1 DEF TtiInterval
    <2>2. CASE u = s /\ ~HasPassed(s, t)
      <3>1. s.window_start \in 0..(TtiMod - 1)
        BY DEF SiState, Tti
      <3>2. TtiInterval(t, s.window_start) \in Int
        BY <1>0, <3>1 DEF TtiInterval
      <3> QED
        BY <1>0, <2>2, <3>2 DEF HasPassed
    <2> QED
      BY <1>0, <2>1, <2>2 DEF Updated, SiState, Idle
  <1>4. AfterTti(s, i, t) = IF IsSent(u, i, t) THEN [u EXCEPT !.n_tx = @ + 1] ELSE u
    BY DEF AfterTti
  <1>5. AfterTti(s, i, t) \in SiState /\ (i # 0 => Opened(AfterTti(s, i, t), i))
    BY <1>1, <1>2, <1>4 DEF SiState, Opened
  <1>6. ASSUME i # 0, SiWindow > 1, PeriodsFit, IsSent(u, i, t)
        PROVE  (t - WindowOffset(i)) % (10 * Period[i]) < SiWindow
    <2>1. u.is_in_window /\ SfIdx(t) = 9
      BY <1>6 DEF IsSent
    <2>2. OpensWindow(i, u.window_start) /\ u.window_start \in Tti
      BY <1>1, <1>2, <1>6, <2>1 DEF Opened, SiState
    <2>3. TtiMod % (10 * Period[i]) = 0
      BY <1>6 DEF PeriodsFit
    <2> QED
      BY <1>3, <1>6, <2>1, <2>2, <2>3, NinthInWindow
  <1> QED
    BY <1>5, <1>6

SiInv ==
    /\ pending_sibs \in [Carrier -> [Si -> SiState]] /\ sched_cc \in Carrier
    /\ bcch_grants \in [Worker -> SUBSET (Carrier \X Si)]
    /\ \A cc \in Carrier, i \in Si \ {0} : Opened(pending_sibs[cc][i], i)
    /\ \A w \in Worker : bcch_grants[w] # {} => worker_pc[w] = "working"
    /\ SiInWindow

LEMMA InitSiInv == Init => SiInv
  <1> SUFFICES ASSUME Init PROVE SiInv
    OBVIOUS
  <1>1. Idle \in SiState /\ ~Idle.is_in_window
    BY PhyWorkersAssumption DEF Idle, SiState, Tti
  <1> QED
    BY <1>1, BroadcastAssumption DEF Init, SiInv, Opened, SiInWindow

LEMMA SchedCarrierKeepsSiInv ==
    ASSUME SiWindow > 1, PeriodsFit, PhyInv, SiInv, NEW w \in Worker, SchedCarrier(w),
           sched_cc' \in Carrier
    PROVE  SiInv'
  <1> DEFINE t == worker_tti[w]
  <1> DEFINE cc == sched_cc
  <1> DEFINE Sent == {i \in Si : IsSent(Updated(pending_sibs[cc][i], i, t), i, t)}
  <1>1. /\ worker_pc[w] = "working" /\ t \in Tti /\ cc \in Carrier
        /\ worker_pc' = worker_pc /\ worker_tti' = worker_tti
    BY DEF SchedCarrier, phy_vars, PhyInv, PhyTypeOK, SiInv
  <1>2. /\ pending_sibs' = [pending_sibs EXCEPT ![cc] = [i \in Si |-> AfterTti(@[i], i, t)]]
        /\ \E room \in SUBSET Sent :
             bcch_grants' = [bcch_grants EXCEPT ![w] = @ \cup {<<cc, i>> : i \in room}]
    <2>1. SiMessages(w)
      BY DEF SchedCarrier
    <2>2. (IF Collisions THEN SUBSET Sent ELSE {Sent}) \subseteq SUBSET Sent
      OBVIOUS
    <2> HIDE DEF Sent
    <2>3. /\ pending_sibs' = [pending_sibs EXCEPT ![cc] = [i \in Si |-> AfterTti(@[i], i, t)]]
          /\ \E room \in (IF Collisions THEN SUBSET Sent ELSE {Sent}) :
               bcch_grants' = [bcch_grants EXCEPT ![w] = @ \cup {<<cc, i>> : i \in room}]
      BY <2>1 DEF SiMessages, Sent
    <2> QED
      BY <2>2, <2>3
  <1> PICK room \in SUBSET Sent :
             bcch_grants' = [bcch_grants EXCEPT ![w] = @ \cup {<<cc, i>> : i \in room}]
    BY <1>2
  <1>3. \A i \in Si : pending_sibs[cc][i] \in SiState /\ (i # 0 => Opened(pending_sibs[cc][i], i))
    BY <1>1 DEF SiInv
  <1>4. \A i \in Si :
          /\ AfterTti(pending_sibs[cc][i], i, t) \in SiState
          /\ i # 0 => Opened(AfterTti(pending_sibs[cc][i], i, t), i)
          /\ i # 0 /\ i \in Sent => (t - WindowOffset(i)) % (10 * Period[i]) < SiWindow
    BY <1>1, <1>3, AfterTtiKeeps
  <1> HIDE DEF Sent
  <1>5. /\ pending_sibs' \in [Carrier -> [Si -> SiState]]
        /\ \A i \in Si : pending_sibs'[cc][i] = AfterTti(pending_sibs[cc][i], i, t)
        /\ \A c \in Carrier \ {cc} : pending_sibs'[c] = pending_sibs[c]
    <2> PICK new : new = [i \in Si |-> AfterTti(pending_sibs[cc][i], i, t)]
      OBVIOUS
    <2>1. new \in [Si -> SiState] /\ \A i \in Si : new[i] = AfterTti(pending_sibs[cc][i], i, t)
      BY <1>4
    <2>2. pending_sibs' = [pending_sibs EXCEPT ![cc] = new]
      BY <1>2
    <2> QED
      BY <1>1, <2>1, <2>2 DEF SiInv
  <1>6. \A c \in Carrier, i \in Si \ {0} : Opened(pending_sibs'[c][i], i)
    <2> TAKE c \in Carrier, i \in Si \ {0}
    <2>1. CASE c = cc
      BY <1>4, <1>5, <2>1
    <2>2. CASE c # cc
      BY <1>5, <2>2 DEF SiInv
    <2> QED
      BY <2>1, <2>2
  <1>7. room \subseteq Sent /\ Sent \subseteq Si
    BY DEF Sent
  <1>8. /\ bcch_grants' \in [Worker -> SUBSET (Carrier \X Si)]
        /\ \A v \in Worker \ {w} : bcch_grants'[v] = bcch_grants[v]
        /\ \A c \in Carrier, i \in Si : <<c, i>> \in bcch_grants'[w] =>
              <<c, i>> \in bcch_grants[w] \/ i \in Sent
    <2> PICK more : more = {<<cc, i>> : i \in room}
      OBVIOUS
    <2>1. more \subseteq Carrier \X Si /\ \A c, i : <<c, i>> \in more => i \in Sent
      BY <1>1, <1>7
    <2>2. bcch_grants' = [bcch_grants EXCEPT ![w] = @ \cup more]
      OBVIOUS
    <2> QED
      BY <2>1, <2>2 DEF SiInv
  <1>9. \A v \in Worker : bcch_grants'[v] # {} => worker_pc'[v] = "working"
    BY <1>1, <1>8 DEF SiInv
  <1>10. SiInWindow'
    <2> SUFFICES ASSUME NEW v \in Worker, NEW c \in Carrier, NEW i \in Si \ {0},
                        <<c, i>> \in bcch_grants'[v]
                 PROVE  (worker_tti[v] - WindowOffset(i)) % (10 * Period[i]) < SiWindow
      BY <1>1 DEF SiInWindow
    <2>1. CASE <<c, i>> \in bcch_grants[v]
      BY <2>1 DEF SiInv, SiInWindow
    <2>2. CASE v = w /\ i \in Sent
      BY <1>4, <2>2
    <2> QED
      BY <1>8, <2>1, <2>2
  <1> QED
    BY <1>5, <1>6, <1>8, <1>9, <1>10 DEF SiInv, Opened

LEMMA TransmitKeepsSiInv ==
    ASSUME PhyInv, SiInv, NEW w \in Worker, Transmit(w)
    PROVE  SiInv'
  <1>1. /\ worker_tti' = worker_tti /\ worker_pc' = [worker_pc EXCEPT ![w] = "sent"]
        /\ bcch_grants' = [bcch_grants EXCEPT ![w] = {}]
        /\ UNCHANGED <<pending_sibs, sched_cc>>
        /\ worker_pc \in [Worker -> {"waiting", "working", "sent"}]
    BY DEF Transmit, WorkerEnd, sched_vars, PhyInv, PhyTypeOK
  <1>2. /\ bcch_grants' \in [Worker -> SUBSET (Carrier \X Si)]
        /\ bcch_grants'[w] = {} /\ \A v \in Worker \ {w} : bcch_grants'[v] = bcch_grants[v]
    BY <1>1 DEF SiInv
  <1>3. \A v \in Worker : bcch_grants'[v] # {} => worker_pc'[v] = "working"
    BY <1>1, <1>2 DEF SiInv
  <1>4. SiInWindow'
    BY <1>1, <1>2 DEF SiInv, SiInWindow
  <1> QED
    BY <1>1, <1>2, <1>3, <1>4 DEF SiInv, Opened

LEMMA OtherStepKeepsSiInv ==
    ASSUME SiInv, UNCHANGED <<pending_sibs, bcch_grants>>, sched_cc' \in Carrier,
           \A w \in Worker : worker_pc[w] = "working" =>
              worker_pc'[w] = "working" /\ worker_tti'[w] = worker_tti[w]
    PROVE  SiInv'
  <1>1. \A w \in Worker : bcch_grants[w] # {} =>
              worker_pc'[w] = "working" /\ worker_tti'[w] = worker_tti[w]
    BY DEF SiInv
  <1>2. SiInWindow'
    BY <1>1 DEF SiInv, SiInWindow
  <1> QED
    BY <1>1, <1>2 DEF SiInv, Opened

(* The carrier that is scheduled next exists. *)
LEMMA NextCarrierExists ==
    ASSUME NEW w \in Worker, CarrierDone(w)
    PROVE  sched_cc' \in Carrier
  BY BroadcastAssumption DEF CarrierDone

LEMMA StepKeepsSiInv ==
    ASSUME SiWindow > 1, PeriodsFit
    PROVE  PhyInv /\ SiInv /\ [Next]_vars => SiInv'
  <1> SUFFICES ASSUME PhyInv, SiInv, [Next]_vars PROVE SiInv'
    OBVIOUS
  <1>1. sched_cc \in Carrier
    BY DEF SiInv
  <1>2. CASE UNCHANGED <<pending_sibs, bcch_grants, worker_pc, worker_tti>> /\ sched_cc' \in Carrier
    BY <1>2, OtherStepKeepsSiInv
  <1>3. ASSUME NEW u \in Ue, Page(u) PROVE SiInv'
    BY <1>1, <1>2, <1>3 DEF Page, phy_vars, sched_vars, mac_vars
  <1>4. CASE Start
    <2>1. /\ UNCHANGED <<pending_sibs, bcch_grants, sched_cc>>
          /\ StartWorker \/ LeaveLoop
      BY <1>4 DEF Start, sched_vars, mac_vars
    <2>2. \A w \in Worker : worker_pc[w] = "working" =>
              worker_pc'[w] = "working" /\ worker_tti'[w] = worker_tti[w]
      <3>1. CASE StartWorker
        <4>1. PICK w \in FinishedWorkers :
                 worker_tti' = [worker_tti EXCEPT ![w] = tti] /\ worker_pc' = worker_pc
          BY <3>1 DEF StartWorker
        <4>2. worker_pc[w] # "working"
          BY DEF FinishedWorkers, PhyInv, QueueIsWork
        <4> QED
          BY <4>1, <4>2 DEF PhyInv, PhyTypeOK
      <3> QED
        BY <2>1, <3>1 DEF LeaveLoop
    <2> QED
      BY <1>1, <2>1, <2>2, OtherStepKeepsSiInv
  <1>5. CASE StopPhy
    <2>1. /\ UNCHANGED <<pending_sibs, bcch_grants, sched_cc>>
          /\ Stop
      BY <1>5 DEF StopPhy, sched_vars, mac_vars
    <2>2. UNCHANGED <<worker_pc, worker_tti>>
      BY <2>1 DEF Stop, StopTxrx, TxrxEnded, StopPool, PoolEnded
    <2> QED
      BY <1>1, <1>2, <2>1, <2>2
  <1>6. ASSUME NEW w \in Worker, Work(w) PROVE SiInv'
    <2>1. CASE BeginWork(w) \/ EndWork(w)
      <3>1. /\ UNCHANGED <<pending_sibs, bcch_grants, sched_cc>>
            /\ WaitToStart(w) \/ Finished(w)
        BY <2>1 DEF BeginWork, EndWork, sched_vars, mac_vars
      <3>2. \A v \in Worker : worker_pc[v] = "working" =>
               worker_pc'[v] = "working" /\ worker_tti'[v] = worker_tti[v]
        BY <3>1 DEF WaitToStart, Finished, PhyInv, PhyTypeOK
      <3> QED
        BY <1>1, <3>1, <3>2, OtherStepKeepsSiInv
    <2>2. CASE SchedCarrier(w)
      <3>1. sched_cc' \in Carrier
        BY <1>1, <2>2, NextCarrierExists DEF SchedCarrier
      <3> QED
        BY <2>2, <3>1, SchedCarrierKeepsSiInv
    <2>3. CASE ClearBuffer(w)
      BY <1>1, <1>2, <2>3 DEF ClearBuffer, phy_vars, mac_vars
    <2>4. CASE PackMessage(w)
      BY <1>2, <2>4, NextCarrierExists DEF PackMessage, phy_vars
    <2>5. CASE ReadPduPcch(w) \/ EncodePdsch(w)
      BY <1>1, <1>2, <2>5 DEF ReadPduPcch, EncodePdsch, phy_vars, sched_vars
    <2>6. CASE Transmit(w)
      BY <2>6, TransmitKeepsSiInv
    <2> QED
      BY <1>6, <2>1, <2>2, <2>3, <2>4, <2>5, <2>6 DEF Work
  <1>7. CASE Ended \/ UNCHANGED vars
    BY <1>1, <1>2, <1>7 DEF Ended, vars, phy_vars, sched_vars, mac_vars
  <1> QED
    BY <1>3, <1>4, <1>5, <1>6, <1>7 DEF Next

(* System information is in its window: if a window is longer than a subframe
   (the message of a window of one would be sent one subframe late, HasPassed
   is tested with >) and the frame number does not wrap in mid-period. *)
THEOREM SiIsInWindow == SiWindow > 1 /\ PeriodsFit => (Spec => []SiInWindow)
  <1> SUFFICES ASSUME SiWindow > 1, PeriodsFit PROVE Spec => []SiInWindow
    OBVIOUS
  <1>1. PhyInv /\ SiInv /\ [Next]_vars => SiInv'
    BY StepKeepsSiInv
  <1>2. SiInv => SiInWindow
    BY DEF SiInv
  <1> QED
    BY <1>1, <1>2, InitSiInv, PhyIsImplemented, PhyInvHolds, PTL DEF Spec
=============================================================================
