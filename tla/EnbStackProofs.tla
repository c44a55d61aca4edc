---------------------------- MODULE EnbStackProofs ----------------------------
(***************************************************************************)
(* Proofs about the threads of the eNB's stack (EnbStack): its types, that  *)
(* S1AP is connected by the association whose answer it handled, and that   *)
(* the socket of an association is read.                                    *)
(*                                                                         *)
(* The second needs that of the answers of the MME at most one is on its    *)
(* way, that it is from the association opened last, and that the procedure *)
(* waits for it: it does not give up before, unless the MME is silent.      *)
(***************************************************************************)
EXTENDS EnbStack, FiniteSetTheorems, SequenceTheorems, TLAPS

ConnectionState == [running : BOOLEAN, mme_connected : BOOLEAN, socket : Associations \cup {0},
                    proc : {"idle", "on_going"}, s1setup_timeout : BOOLEAN,
                    mme_connect_timer : BOOLEAN]

QueueTypes ==
    /\ running \in BOOLEAN
    /\ buf \in [StackQueues -> Seq(StackTask)]
    /\ \A q \in StackQueues : Len(buf[q]) <= Capacity[q]
    /\ buf["mme"] \in Seq(Message)
    /\ pending \in [StackThreads -> {<<>>} \cup (StackQueues \X StackTask)]
    /\ \A t \in StackThreads : Blocked(t, "mme") => t = "sock" /\ pending[t][2] \in Message

SocketTypes ==
    /\ sock_pc \in {"loop", "select", "serve", "remove", "exited"}
    /\ todo \subseteq {"mme", "gtpu", "pipe"} /\ ("pipe" \in todo => pipefd # <<>>)
    /\ active_sockets \subseteq {"mme", "gtpu"} /\ total_fd_set \subseteq {"mme", "gtpu"}
    /\ pipefd \in Seq({"mme", "gtpu", "exit"})

\* An association is known to the MME only while it is the one opened last.
AssociationTypes ==
    /\ s1 \in ConnectionState /\ last \in Associations \cup {0}
    /\ rxq \in Seq(Message) /\ mme \in {"none", "up", "asked", "ready"}
    /\ s1.socket \in {0, last}
    /\ mme # "none" => s1.socket # 0

StackTypes ==
    /\ QueueTypes /\ SocketTypes /\ AssociationTypes
    /\ stack_pc \in {"launch", "init", "idle", "add", "stop", "join", "reset", "ended"}
    /\ stack_pc = "add" => mme \in {"up", "none"}
    /\ main_pc \in {"run", "stop", "ended"}
    /\ gtpu_rx \in BOOLEAN /\ answered \in Associations \cup {0}

-----------------------------------------------------------------------------
(* Constants and queues *)

LEMMA AssociationsAreNumbers ==
    /\ 0 \notin Associations
    /\ \A l \in Associations \cup {0} : (l % Cardinality(Associations)) + 1 \in Associations
  <1>1. Cardinality(Associations) \in Nat /\ Associations = 1 .. Cardinality(Associations)
        /\ Associations # {}
    BY StackAssumption, FS_CardinalityType
  <1> QED
    BY <1>1

LEMMA RoomForOne ==
    ASSUME NEW q \in StackQueues, NEW s \in Seq(StackTask), Len(s) < Capacity[q], NEW x \in StackTask
    PROVE  /\ Append(s, x) \in Seq(StackTask) /\ Len(Append(s, x)) <= Capacity[q]
  <1>1. Capacity[q] \in Nat /\ Len(s) \in Nat
    BY QueuesAssumption, StackAssumption, LenProperties
  <1>2. Append(s, x) \in Seq(StackTask) /\ Len(Append(s, x)) = Len(s) + 1
    BY AppendProperties
  <1> QED
    BY <1>1, <1>2

LEMMA QueueSteps ==
    ASSUME QueueTypes,
           \/ \E t \in StackThreads, q \in StackQueues, x \in StackTask :
                 /\ Put(t, q, x) \/ Block(t, q, x)
                 /\ q = "mme" => t = "sock" /\ x \in Message
           \/ \E t \in {"sock", "phy"} : Accept(t) \/ Drop(t)
           \/ \E q \in StackQueues : Take(q)
           \/ Stop \/ Clear \/ UNCHANGED bqvars
    PROVE  QueueTypes'
  <1>0. /\ running \in BOOLEAN
        /\ buf \in [StackQueues -> Seq(StackTask)] /\ buf["mme"] \in Seq(Message)
        /\ \A q \in StackQueues : Len(buf[q]) <= Capacity[q]
        /\ pending \in [StackThreads -> {<<>>} \cup (StackQueues \X StackTask)]
        /\ \A t \in StackThreads : Blocked(t, "mme") => t = "sock" /\ pending[t][2] \in Message
        /\ "mme" \in StackQueues
    BY DEF QueueTypes, StackQueues
  <1>1. ASSUME NEW q \in StackQueues, NEW x \in StackTask, q = "mme" => x \in Message, Room(q),
               buf' = [buf EXCEPT ![q] = Append(@, x)]
        PROVE  /\ buf' \in [StackQueues -> Seq(StackTask)] /\ buf'["mme"] \in Seq(Message)
               /\ \A r \in StackQueues : Len(buf'[r]) <= Capacity[r]
    <2>1. Append(buf[q], x) \in Seq(StackTask) /\ Len(Append(buf[q], x)) <= Capacity[q]
      BY <1>0, <1>1, RoomForOne DEF Room
    <2>2. q = "mme" => Append(buf[q], x) \in Seq(Message)
      BY <1>0, <1>1, AppendProperties
    <2> QED
      BY <1>0, <1>1, <2>1, <2>2
  <1>2. ASSUME NEW t \in StackThreads, NEW q \in StackQueues, NEW x \in StackTask,
               Put(t, q, x) \/ Block(t, q, x), q = "mme" => t = "sock" /\ x \in Message
        PROVE  QueueTypes'
    <2>1. CASE Put(t, q, x)
      <3>1. buf' = [buf EXCEPT ![q] = Append(@, x)] /\ Room(q) /\ UNCHANGED <<running, pending>>
        BY <2>1 DEF Put
      <3>2. /\ buf' \in [StackQueues -> Seq(StackTask)] /\ buf'["mme"] \in Seq(Message)
            /\ \A r \in StackQueues : Len(buf'[r]) <= Capacity[r]
        BY <1>1, <1>2, <3>1
      <3> QED
        BY <1>0, <3>1, <3>2 DEF QueueTypes, Blocked
    <2>2. CASE Block(t, q, x)
      <3>1. pending' = [pending EXCEPT ![t] = <<q, x>>] /\ UNCHANGED <<running, buf>>
        BY <2>2 DEF Block
      <3>2. pending' \in [StackThreads -> {<<>>} \cup (StackQueues \X StackTask)]
        BY <1>0, <3>1
      <3>3. \A u \in StackThreads : Blocked(u, "mme")' => u = "sock" /\ pending'[u][2] \in Message
        BY <1>0, <1>2, <3>1 DEF Blocked
      <3> QED
        BY <1>0, <3>1, <3>2, <3>3 DEF QueueTypes
    <2> QED
      BY <1>2, <2>1, <2>2
  <1>3. ASSUME NEW t \in {"sock", "phy"}, Accept(t) \/ Drop(t) PROVE QueueTypes'
    <2>0. t \in StackThreads
      BY DEF StackThreads
    <2>1. pending' = [pending EXCEPT ![t] = <<>>] /\ running' = running
      BY <1>3 DEF Accept, Drop
    <2>2. pending' \in [StackThreads -> {<<>>} \cup (StackQueues \X StackTask)]
      BY <1>0, <2>1
    <2>3. \A u \in StackThreads : Blocked(u, "mme")' => u = "sock" /\ pending'[u][2] \in Message
      BY <1>0, <2>0, <2>1 DEF Blocked
    <2>4. /\ buf' \in [StackQueues -> Seq(StackTask)] /\ buf'["mme"] \in Seq(Message)
          /\ \A r \in StackQueues : Len(buf'[r]) <= Capacity[r]
      <3>1. CASE Accept(t)
        <4>1. /\ pending[t] \in StackQueues \X StackTask
              /\ Room(pending[t][1])
              /\ buf' = [buf EXCEPT ![pending[t][1]] = Append(@, pending[t][2])]
          BY <1>0, <2>0, <3>1 DEF Accept
        <4>2. pending[t][1] = "mme" => pending[t][2] \in Message
          BY <1>0, <2>0, <3>1 DEF Accept, Blocked
        <4> QED
          BY <1>1, <4>1, <4>2
      <3>2. CASE Drop(t)
        BY <1>0, <3>2 DEF Drop
      <3> QED
        BY <1>3, <3>1, <3>2
    <2> QED
      BY <1>0, <2>1, <2>2, <2>3, <2>4 DEF QueueTypes
  <1>4. ASSUME NEW q \in StackQueues, Take(q) PROVE QueueTypes'
    <2>1. buf[q] # <<>> /\ buf' = [buf EXCEPT ![q] = Tail(@)] /\ UNCHANGED <<running, pending>>
      BY <1>4 DEF Take
    <2>2. Tail(buf[q]) \in Seq(StackTask) /\ Len(Tail(buf[q])) <= Capacity[q]
      <3>1. Tail(buf[q]) \in Seq(StackTask) /\ Len(Tail(buf[q])) = Len(buf[q]) - 1
        BY <1>0, <2>1, HeadTailProperties
      <3>2. Len(buf[q]) <= Capacity[q] /\ Len(buf[q]) \in Nat /\ Capacity[q] \in Nat
        BY <1>0, LenProperties, QueuesAssumption, StackAssumption
      <3> QED
        BY <3>1, <3>2
    <2>3. q = "mme" => Tail(buf[q]) \in Seq(Message)
      BY <1>0, <2>1, HeadTailProperties
    <2>4. /\ buf' \in [StackQueues -> Seq(StackTask)] /\ buf'["mme"] \in Seq(Message)
          /\ \A r \in StackQueues : Len(buf'[r]) <= Capacity[r]
      BY <1>0, <2>1, <2>2, <2>3
    <2> QED
      BY <1>0, <2>1, <2>4 DEF QueueTypes, Blocked
  <1>5. CASE Stop \/ UNCHANGED bqvars
    BY <1>0, <1>5 DEF Stop, bqvars, QueueTypes, Blocked
  <1>6. CASE Clear
    <2>1. buf' = [q \in StackQueues |-> <<>>] /\ UNCHANGED <<running, pending>>
      BY <1>6, StackAssumption DEF Clear
    <2>2. \A q \in StackQueues : Capacity[q] \in Nat /\ Len(<<>>) = 0
      BY QueuesAssumption, StackAssumption
    <2>3. <<>> \in Seq(StackTask) /\ <<>> \in Seq(Message)
      OBVIOUS
    <2> QED
      BY <1>0, <2>1, <2>2, <2>3 DEF QueueTypes, Blocked
  <1> QED
    BY <1>2, <1>3, <1>4, <1>5, <1>6
-----------------------------------------------------------------------------
(* The setup procedure.  A step of it opens an association, which it does when *)
(* it was idle, or keeps or closes the one there is.                           *)
Opens(t) == t.proc = "on_going" /\ s1.proc = "idle"
Moves(t) == IF Opens(t) THEN t.socket \in Associations ELSE t.socket \in {0, s1.socket}

\* The answer handled last is that of the association S1AP is connected by.
Connected(s, ans) == s.running /\ s.mme_connected => s.socket # 0 /\ s.socket = ans /\ s.proc = "idle"

LEMMA LaunchMoves ==
    ASSUME s1 \in ConnectionState, NEW s \in ConnectionState, s.proc = s1.proc, s.socket \in {0, s1.socket},
           NEW a \in Associations \cup {0}
    PROVE  /\ Launch(s, a) \in ConnectionState /\ Moves(Launch(s, a))
           /\ s.proc = "on_going" => Launch(s, a) = s
           /\ \A ans : Connected(s, ans) => Connected(Launch(s, a), ans)
  <1> USE DEF ConnectionState
  <1>1. CASE s.proc = "on_going"
    BY <1>1 DEF Launch, Moves, Opens
  <1>2. CASE s.proc = "idle"
    <2>1. Launch(s, a) = StartMmeConnection(s, a)
      BY <1>2 DEF Launch
    <2>2. CASE ~s.running
      BY <1>2, <2>1, <2>2 DEF StartMmeConnection, Fails, Moves, Opens, Connected
    <2>3. CASE s.running /\ s.mme_connected
      BY <1>2, <2>1, <2>3 DEF StartMmeConnection, Succeeds, Moves, Opens, Connected
    <2>4. CASE s.running /\ ~s.mme_connected /\ a = 0
      <3>1. Launch(s, a) = [s EXCEPT !.mme_connect_timer = TRUE, !.proc = "idle", !.socket = 0]
        BY <2>1, <2>4 DEF StartMmeConnection, CannotConnect, Fails
      <3> PICK t : t = [s EXCEPT !.mme_connect_timer = TRUE, !.proc = "idle", !.socket = 0]
        OBVIOUS
      <3>2. t \in ConnectionState /\ t.proc = "idle" /\ t.socket = 0 /\ t.mme_connected = s.mme_connected
        OBVIOUS
      <3>3. Moves(t) /\ \A ans : Connected(t, ans)
        BY <2>4, <3>2 DEF Moves, Opens, Connected
      <3> QED
        BY <1>2, <3>1, <3>2, <3>3
    <2>5. CASE s.running /\ ~s.mme_connected /\ a # 0
      BY <1>2, <2>1, <2>5 DEF StartMmeConnection, Moves, Opens, Connected
    <2> QED
      BY <2>2, <2>3, <2>4, <2>5
  <1> QED
    BY <1>1, <1>2

(* The message of an MME, from the association opened last if it is an answer. *)
LEMMA HandleMmeRxMoves ==
    ASSUME AssociationTypes, NEW msg \in Message, NEW a \in Associations \cup {0}
    PROVE  LET t == HandleMmeRx(s1, msg[1], a)
           IN  /\ t \in ConnectionState /\ Moves(t)
               /\ s1.proc = "on_going" => t.proc = "on_going" \/ (IsInit(s1) /\ msg[1] = "resp")
               /\ Connected(s1, answered) /\ (msg[1] = "resp" => s1.proc = "on_going" /\ msg[2] = last)
                  => Connected(t, IF IsInit(s1) /\ msg[1] = "resp" THEN msg[2] ELSE answered)
  <1> DEFINE t == HandleMmeRx(s1, msg[1], a)
             s == IF msg[1] \in {"shutdown", "empty"} THEN [s1 EXCEPT !.socket = 0] ELSE s1
  <1>0. s1 \in ConnectionState /\ s \in ConnectionState /\ s.proc = s1.proc /\ s.socket \in {0, s1.socket}
        /\ s1.socket \in {0, last} /\ msg[1] \in {"resp", "fail", "shutdown", "empty", "other"}
        /\ (msg[1] \notin {"shutdown", "empty"} => s = s1) /\ (msg[1] \in {"shutdown", "empty"} => ~IsInit(s))
    BY DEF AssociationTypes, ConnectionState, Message, IsInit
  <1>1. CASE ~IsInit(s)
    <2>1. t = Launch(Lost(s), a)
      BY <1>1 DEF HandleMmeRx
    <2>2. Lost(s) \in ConnectionState /\ Lost(s).proc = s1.proc /\ Lost(s).socket \in {0, s1.socket}
          /\ \A ans : Connected(Lost(s), ans)
      BY <1>0 DEF Lost, ConnectionState, Connected
    <2> HIDE DEF t, s
    <2> QED
      BY <1>0, <2>1, <2>2, LaunchMoves DEF t
  <1>2. CASE IsInit(s) /\ msg[1] = "resp"
    <2>1. t = Trigger([s EXCEPT !.mme_connected = TRUE], TRUE) /\ s = s1
      BY <1>0, <1>2 DEF HandleMmeRx
    <2>2. CASE s1.proc = "on_going"
      <3> HIDE DEF t, s
      <3>a. msg[1] = "resp" /\ IsInit(s1)
        BY <1>2, <2>1
      <3>b. s1.socket # 0
        BY <3>a DEF IsInit
      <3>c. /\ t \in ConnectionState /\ t.proc = "idle" /\ t.socket = s1.socket
        BY <1>0, <2>1, <2>2 DEF Trigger, Succeeds, ConnectionState
      <3>1. /\ t \in ConnectionState /\ t.proc = "idle" /\ t.socket = s1.socket
            /\ s1.socket # 0
        BY <3>b, <3>c
      <3>2. msg[1] = "resp" /\ IsInit(s1) /\ s1.socket = last
        BY <1>0, <3>a, <3>b
      <3>3. Moves(t) /\ (msg[2] = last => Connected(t, msg[2]))
        BY <2>2, <3>1, <3>2 DEF Moves, Opens, Connected
      <3> QED
        BY <1>2, <3>1, <3>2, <3>3 DEF t
    <2>3. CASE s1.proc = "idle"
      BY <1>0, <1>2, <2>1, <2>3 DEF Trigger, ConnectionState, Moves, Opens
    <2> QED
      BY <1>0, <2>2, <2>3 DEF ConnectionState
  <1>3. CASE IsInit(s) /\ msg[1] # "resp"
    <2>1. t = s /\ s = s1
      BY <1>0, <1>3 DEF HandleMmeRx
    <2> QED
      BY <1>0, <1>3, <2>1 DEF Moves, Opens
  <1> QED
    BY <1>1, <1>2, <1>3

LEMMA TimersMove ==
    ASSUME s1 \in ConnectionState, NEW a \in Associations \cup {0}
    PROVE  /\ S1SetupExpires(s1) \in ConnectionState /\ Moves(S1SetupExpires(s1))
           /\ MmeConnectExpires(s1, a) \in ConnectionState /\ Moves(MmeConnectExpires(s1, a))
           /\ s1.proc = "on_going" => MmeConnectExpires(s1, a).proc = "on_going"
           /\ \A ans : Connected(s1, ans) =>
                 Connected(S1SetupExpires(s1), ans) /\ Connected(MmeConnectExpires(s1, a), ans)
  <1>1. /\ S1SetupExpires(s1) \in ConnectionState /\ Moves(S1SetupExpires(s1))
        /\ \A ans : Connected(s1, ans) => Connected(S1SetupExpires(s1), ans)
    BY DEF S1SetupExpires, Trigger, Fails, ConnectionState, Moves, Opens, Connected
  <1> DEFINE s == [s1 EXCEPT !.mme_connect_timer = FALSE]
  <1>2. s \in ConnectionState /\ s.proc = s1.proc /\ s.socket \in {0, s1.socket}
        /\ \A ans : Connected(s1, ans) => Connected(s, ans)
    BY DEF ConnectionState, Connected
  <1>3. MmeConnectExpires(s1, a) = Launch(s, a)
    BY DEF MmeConnectExpires
  <1> HIDE DEF s
  <1> QED
    BY <1>1, <1>2, <1>3, LaunchMoves

LEMMA BecomesTypes ==
    ASSUME AssociationTypes, NEW t \in ConnectionState, Moves(t), S1Becomes(t)
    PROVE  AssociationTypes' /\ stack_pc' \in {"add", "idle", "init"} /\ (stack_pc' = "add" => mme' = "up")
  <1>0. /\ s1 \in ConnectionState /\ last \in Associations \cup {0}
        /\ rxq \in Seq(Message) /\ mme \in {"none", "up", "asked", "ready"}
        /\ s1.socket \in {0, last} /\ (mme # "none" => s1.socket # 0)
        /\ 0 \notin Associations /\ <<>> \in Seq(Message)
    BY AssociationsAreNumbers DEF AssociationTypes
  <1>1. CASE Opens(t)
    <2>1. s1' = t /\ last' = t.socket /\ mme' = "up" /\ rxq' = <<>> /\ stack_pc' = "add"
      BY <1>1 DEF S1Becomes, Opens
    <2> QED
      BY <1>0, <1>1, <2>1 DEF AssociationTypes, Moves
  <1>2. CASE ~Opens(t)
    <2>1. /\ s1' = t /\ last' = last /\ stack_pc' = TaskOver
          /\ mme' = IF t.socket = 0 /\ s1.socket # 0 THEN "none" ELSE mme
          /\ rxq' = IF t.socket = 0 /\ s1.socket # 0 THEN <<>> ELSE rxq
      BY <1>2 DEF S1Becomes, Opens
    <2>2. t.socket \in {0, s1.socket}
      BY <1>2 DEF Moves
    <2> QED
      BY <1>0, <2>1, <2>2 DEF AssociationTypes, TaskOver
  <1> QED
    BY <1>1, <1>2

-----------------------------------------------------------------------------
(* The types of the stack *)

LEMMA StackTypesInit == StackInit => StackTypes
  <1> SUFFICES ASSUME StackInit PROVE StackTypes
    OBVIOUS
  <1>1. QueueTypes
    <2>1. running = TRUE /\ buf = [q \in StackQueues |-> <<>>] /\ pending = [t \in StackThreads |-> <<>>]
      BY StackAssumption DEF StackInit, Init
    <2>2. \A q \in StackQueues : Capacity[q] \in Nat /\ Len(<<>>) = 0
      BY QueuesAssumption, StackAssumption
    <2>3. <<>> \in Seq(StackTask) /\ <<>> \in Seq(Message) /\ "mme" \in StackQueues
      BY DEF StackQueues
    <2> QED
      BY <2>1, <2>2, <2>3 DEF QueueTypes, Blocked
  <1>2. SocketTypes
    BY DEF StackInit, SocketTypes
  <1>3. AssociationTypes
    BY DEF StackInit, AssociationTypes, ConnectionState, S1Init
  <1> QED
    BY <1>1, <1>2, <1>3 DEF StackInit, StackTypes

LEMMA SocketsRegister ==
    ASSUME SocketTypes, NEW fd \in {"mme", "gtpu"}, AddSocketHandler(fd), UNCHANGED <<sock_pc, todo, total_fd_set>>
    PROVE  SocketTypes'
  <1>1. CASE fd \in active_sockets
    BY <1>1 DEF SocketTypes, AddSocketHandler
  <1>2. CASE fd \notin active_sockets
    <2>1. active_sockets' = active_sockets \cup {fd} /\ pipefd' = Append(pipefd, fd)
      BY <1>2 DEF AddSocketHandler
    <2>2. pipefd' \in Seq({"mme", "gtpu", "exit"}) /\ pipefd' # <<>>
      BY <2>1, AppendProperties DEF SocketTypes
    <2> QED
      BY <2>1, <2>2 DEF SocketTypes
  <1> QED
    BY <1>1, <1>2

\* The steps of the stack thread.
LEMMA StackThreadTypes ==
    ASSUME StackTypes, InitialLaunch \/ StackThread \/ RunMmeTask \/ RunGtpuTask \/ RunTtiTask
    PROVE  StackTypes'
  <1>0. /\ QueueTypes /\ SocketTypes /\ AssociationTypes
        /\ s1 \in ConnectionState /\ last \in Associations \cup {0} /\ rxq \in Seq(Message)
        /\ stack_pc \in {"launch", "init", "idle", "add", "stop", "join", "reset", "ended"}
        /\ NextAssociation \in Associations \cup {0} /\ <<>> \in Seq(Message)
    BY AssociationsAreNumbers DEF StackTypes, AssociationTypes, NextAssociation
  <1>1. CASE InitialLaunch
    <2>1. PICK a \in {0, NextAssociation} : S1Becomes(Launch(s1, a))
      BY <1>1 DEF InitialLaunch
    <2>2. AssociationTypes' /\ stack_pc' \in {"add", "idle", "init"} /\ (stack_pc' = "add" => mme' = "up")
      <3>1. a \in Associations \cup {0} /\ s1.socket \in {0, s1.socket}
        BY <1>0
      <3>2. Launch(s1, a) \in ConnectionState /\ Moves(Launch(s1, a))
        BY <1>0, <3>1, LaunchMoves
      <3> QED
        BY <1>0, <2>1, <3>2, BecomesTypes
    <2>3. UNCHANGED <<bqvars, socketvars, gtpu_rx, main_pc, answered>>
      BY <1>1 DEF InitialLaunch
    <2> QED
      BY <1>0, <2>2, <2>3, QueueSteps DEF StackTypes, SocketTypes, socketvars
  <1>2. CASE AddMmeSocket
    <2>1. AddSocketHandler("mme")
          /\ UNCHANGED <<bqvars, sock_pc, todo, total_fd_set, gtpu_rx, main_pc, last, answered>>
          /\ stack_pc' = TaskOver
      BY <1>2 DEF AddMmeSocket
    <2>2. SocketTypes'
      BY <1>0, <2>1, SocketsRegister
    <2>3. AssociationTypes'
      <3>1. CASE mme = "up"
        <4>1. s1' = [s1 EXCEPT !.s1setup_timeout = TRUE] /\ mme' = "asked" /\ rxq' = rxq
          BY <1>2, <3>1 DEF AddMmeSocket, SetupS1
        <4> QED
          BY <1>0, <2>1, <3>1, <4>1 DEF AssociationTypes, ConnectionState
      <3>2. CASE mme # "up"
        <4>1. s1' = [s1 EXCEPT !.running = FALSE, !.proc = "idle", !.socket = 0] /\ mme' = mme /\ rxq' = <<>>
          BY <1>2, <3>2 DEF AddMmeSocket, SetupS1, Fails
        <4>2. s1' \in ConnectionState /\ s1'.socket = 0
          BY <1>0, <4>1 DEF ConnectionState
        <4>3. mme = "none"
          BY <1>2, <3>2 DEF AddMmeSocket, StackTypes
        <4> QED
          BY <1>0, <2>1, <4>1, <4>2, <4>3 DEF AssociationTypes
      <3> QED
        BY <3>1, <3>2
    <2> QED
      BY <1>0, <2>1, <2>2, <2>3, QueueSteps DEF StackTypes, TaskOver
  <1>3. CASE AddGtpuSocket
    <2>1. AddSocketHandler("gtpu") /\ stack_pc' = "idle"
          /\ UNCHANGED <<bqvars, s1, main_pc, answered, sock_pc, todo, total_fd_set, mmevars, gtpu_rx>>
      BY <1>3 DEF AddGtpuSocket
    <2>2. SocketTypes'
      BY <1>0, <2>1, SocketsRegister
    <2> QED
      BY <1>0, <2>1, <2>2, QueueSteps DEF StackTypes, AssociationTypes, mmevars
  <1>4. CASE RunMmeTask
    <2>1. Take("mme") /\ UNCHANGED <<socketvars, gtpu_rx, main_pc>>
      BY <1>4 DEF RunMmeTask
    <2>2. QueueTypes' /\ Head(buf["mme"]) \in Message
      BY <1>0, <2>1, QueueSteps, HeadTailProperties DEF StackQueues, QueueTypes, Take
    <2>3. PICK a \in {0, NextAssociation} : S1Becomes(HandleMmeRx(s1, Head(buf["mme"])[1], a))
      BY <1>4 DEF RunMmeTask
    <2>4. AssociationTypes' /\ stack_pc' \in {"add", "idle", "init"} /\ (stack_pc' = "add" => mme' = "up")
      <3>1. a \in Associations \cup {0}
        BY <1>0
      <3>2. HandleMmeRx(s1, Head(buf["mme"])[1], a) \in ConnectionState
            /\ Moves(HandleMmeRx(s1, Head(buf["mme"])[1], a))
        BY <1>0, <2>2, <3>1, HandleMmeRxMoves
      <3> QED
        BY <1>0, <2>3, <3>2, BecomesTypes
    <2>5. answered' \in Associations \cup {0}
      <3>1. answered' = answered \/ answered' = Head(buf["mme"])[2]
        BY <1>4 DEF RunMmeTask
      <3> QED
        BY <2>2, <3>1 DEF StackTypes, Message
    <2> QED
      BY <1>0, <2>1, <2>2, <2>4, <2>5 DEF StackTypes, SocketTypes, socketvars
  <1>5. CASE RunGtpuTask
    <2>1. Take("gtpu") /\ UNCHANGED <<stackvars, socketvars, mmevars, gtpu_rx>>
      BY <1>5 DEF RunGtpuTask
    <2>2. QueueTypes'
      BY <1>0, <2>1, QueueSteps DEF StackQueues
    <2> QED
      BY <1>0, <2>1, <2>2 DEF StackTypes, SocketTypes, AssociationTypes, stackvars, socketvars, mmevars
  <1>6. CASE RunTtiTask
    <2>1. Take("sync") /\ UNCHANGED <<socketvars, gtpu_rx, main_pc, answered>>
      BY <1>6 DEF RunTtiTask
    <2>2. QueueTypes'
      BY <1>0, <2>1, QueueSteps DEF StackQueues
    <2>3. \/ NoTimer
          \/ S1Becomes(S1SetupExpires(s1))
          \/ \E a \in {0, NextAssociation} : S1Becomes(MmeConnectExpires(s1, a))
      BY <1>6 DEF RunTtiTask
    <2>4. AssociationTypes' /\ stack_pc' \in {"add", "idle", "init"} /\ (stack_pc' = "add" => mme' = "up")
      <3>1. CASE NoTimer
        BY <1>0, <1>6, <3>1 DEF NoTimer, mmevars, AssociationTypes, RunTtiTask
      <3>2. CASE S1Becomes(S1SetupExpires(s1))
        <4>1. S1SetupExpires(s1) \in ConnectionState /\ Moves(S1SetupExpires(s1))
          BY <1>0, TimersMove
        <4> QED
          BY <1>0, <3>2, <4>1, BecomesTypes
      <3>3. ASSUME NEW a \in {0, NextAssociation}, S1Becomes(MmeConnectExpires(s1, a))
            PROVE  AssociationTypes' /\ stack_pc' \in {"add", "idle", "init"} /\ (stack_pc' = "add" => mme' = "up")
        <4>1. a \in Associations \cup {0}
          BY <1>0
        <4>2. MmeConnectExpires(s1, a) \in ConnectionState /\ Moves(MmeConnectExpires(s1, a))
          BY <1>0, <4>1, TimersMove
        <4> QED
          BY <1>0, <3>3, <4>2, BecomesTypes
      <3> QED
        BY <2>3, <3>1, <3>2, <3>3
    <2> QED
      BY <1>0, <2>1, <2>2, <2>4 DEF StackTypes, SocketTypes, socketvars
  <1>7. CASE RunStopTask
    <2>1. Take("enb") /\ stack_pc' = "stop" /\ UNCHANGED <<s1, main_pc, answered, socketvars, mmevars, gtpu_rx>>
      BY <1>7 DEF RunStopTask
    <2>2. QueueTypes'
      BY <1>0, <2>1, QueueSteps DEF StackQueues
    <2> QED
      BY <1>0, <2>1, <2>2 DEF StackTypes, SocketTypes, AssociationTypes, socketvars, mmevars
  <1>8. CASE WriteExit
    <2>1. /\ pipefd' = Append(pipefd, "exit") /\ stack_pc' = "join"
          /\ UNCHANGED <<bqvars, s1, main_pc, answered, sock_pc, todo, active_sockets, total_fd_set, mmevars, gtpu_rx>>
      BY <1>8 DEF WriteExit
    <2>2. pipefd' \in Seq({"mme", "gtpu", "exit"}) /\ pipefd' # <<>>
      BY <1>0, <2>1, AppendProperties DEF SocketTypes
    <2> QED
      BY <1>0, <2>1, <2>2, QueueSteps DEF StackTypes, SocketTypes, AssociationTypes, mmevars
  <1>9. CASE StopLayers
    <2>1. /\ s1' = S1Stop(s1) /\ rxq' = <<>> /\ mme' = "none" /\ Stop /\ stack_pc' = "reset"
          /\ UNCHANGED <<main_pc, answered, socketvars, last, gtpu_rx>>
      BY <1>9 DEF StopLayers
    <2>2. AssociationTypes'
      <3>1. s1' \in ConnectionState /\ s1'.socket = 0
        BY <1>0, <2>1 DEF ConnectionState, S1Stop
      <3> QED
        BY <1>0, <2>1, <3>1 DEF AssociationTypes
    <2> QED
      BY <1>0, <2>1, <2>2, QueueSteps DEF StackTypes, SocketTypes, socketvars
  <1>10. CASE ResetQueues
    <2>1. Clear /\ stack_pc' = "ended" /\ UNCHANGED <<s1, main_pc, answered, socketvars, mmevars, gtpu_rx>>
      BY <1>10 DEF ResetQueues
    <2> QED
      BY <1>0, <2>1, QueueSteps DEF StackTypes, SocketTypes, AssociationTypes, socketvars, mmevars
  <1> QED
    BY <1>1, <1>2, <1>3, <1>4, <1>5, <1>6, <1>7, <1>8, <1>9, <1>10 DEF StackThread

LEMMA SocketThreadTypes ==
    ASSUME StackTypes, SocketThread
    PROVE  StackTypes'
  <1>0. /\ QueueTypes /\ SocketTypes /\ AssociationTypes
        /\ rxq \in Seq(Message) /\ pipefd \in Seq({"mme", "gtpu", "exit"})
        /\ todo \subseteq {"mme", "gtpu", "pipe"} /\ OpenFds \subseteq {"mme", "gtpu"}
        /\ active_sockets \subseteq {"mme", "gtpu"} /\ total_fd_set \subseteq {"mme", "gtpu"}
    BY DEF StackTypes, SocketTypes, AssociationTypes, OpenFds
  <1>1. CASE Select
    BY <1>0, <1>1, QueueSteps DEF Select, StackTypes, SocketTypes, AssociationTypes, stackvars, mmevars
  <1>2. CASE SelectReturns
    <2>1. /\ todo' = (Readable \cap total_fd_set) \cup (IF pipefd # <<>> THEN {"pipe"} ELSE {})
          /\ sock_pc' = "serve"
          /\ UNCHANGED <<bqvars, stackvars, active_sockets, total_fd_set, pipefd, mmevars, gtpu_rx>>
      BY <1>2 DEF SelectReturns
    <2>2. todo' \subseteq {"mme", "gtpu", "pipe"} /\ ("pipe" \in todo' => pipefd # <<>>)
      BY <1>0, <2>1
    <2> QED
      BY <1>0, <2>1, <2>2, QueueSteps DEF StackTypes, SocketTypes, AssociationTypes, stackvars, mmevars
  <1>3. CASE ServeMme
    <2>1. /\ todo' = todo \ {"mme"} /\ sock_pc' \in {"serve", "remove"}
          /\ UNCHANGED <<stackvars, active_sockets, total_fd_set, pipefd, mme, last, gtpu_rx>>
      BY <1>3 DEF ServeMme
    <2>2. CASE UNCHANGED <<bqvars, rxq>>
      BY <1>0, <2>1, <2>2, QueueSteps DEF StackTypes, SocketTypes, AssociationTypes, stackvars
    <2>3. CASE rxq # <<>> /\ rxq' = Tail(rxq) /\ HandsOn("mme", Head(rxq))
      <3>1. Head(rxq) \in Message /\ rxq' \in Seq(Message)
        BY <1>0, <2>3, HeadTailProperties
      <3>2. QueueTypes'
        <4>1. "sock" \in StackThreads /\ "mme" \in StackQueues /\ Head(rxq) \in StackTask
          BY <3>1 DEF StackThreads, StackQueues, StackTask
        <4>2. Put("sock", "mme", Head(rxq)) \/ Block("sock", "mme", Head(rxq))
          BY <2>3 DEF HandsOn
        <4> QED
          BY <1>0, <3>1, <4>1, <4>2, QueueSteps
      <3> QED
        BY <1>0, <2>1, <2>3, <3>1, <3>2 DEF StackTypes, SocketTypes, AssociationTypes, stackvars
    <2> QED
      BY <1>3, <2>2, <2>3 DEF ServeMme
  <1>7. CASE RemoveMme
    <2>1. /\ active_sockets' \subseteq active_sockets /\ total_fd_set' \subseteq total_fd_set
          /\ todo' \subseteq todo /\ sock_pc' = "serve"
          /\ UNCHANGED <<bqvars, stackvars, pipefd, mmevars, gtpu_rx>>
      BY <1>7 DEF RemoveMme, ActiveAfter
    <2> QED
      BY <1>0, <2>1, QueueSteps DEF StackTypes, SocketTypes, AssociationTypes, stackvars, mmevars
  <1>4. CASE ServeGtpu
    <2>1. /\ todo' = todo \ {"gtpu"} /\ gtpu_rx' = FALSE /\ HandsOn("gtpu", "packet")
          /\ UNCHANGED <<stackvars, sock_pc, active_sockets, total_fd_set, pipefd, mmevars>>
      BY <1>4 DEF ServeGtpu
    <2>2. QueueTypes'
      <3>1. "sock" \in StackThreads /\ "gtpu" \in StackQueues /\ "packet" \in StackTask
        BY DEF StackThreads, StackQueues, StackTask
      <3>2. Put("sock", "gtpu", "packet") \/ Block("sock", "gtpu", "packet")
        BY <2>1 DEF HandsOn
      <3> QED
        BY <1>0, <3>1, <3>2, QueueSteps
    <2>3. SocketTypes'
      BY <2>1 DEF StackTypes, SocketTypes
    <2>4. AssociationTypes'
      BY <2>1 DEF StackTypes, AssociationTypes, stackvars, mmevars
    <2>5. /\ UNCHANGED <<stack_pc, main_pc, answered, mme>>
          /\ gtpu_rx' \in BOOLEAN
      BY <2>1 DEF stackvars, mmevars
    <2> QED
      BY <2>2, <2>3, <2>4, <2>5 DEF StackTypes
  <1>5. CASE ServePipe
    <2>1. todo' = {} /\ UNCHANGED <<bqvars, stackvars, active_sockets, mmevars, gtpu_rx>>
      BY <1>5 DEF ServePipe
    <2>2. SocketTypes'
      <3>1. CASE "pipe" \notin todo
        BY <1>0, <1>5, <2>1, <3>1 DEF ServePipe, SocketTypes
      <3>2. CASE "pipe" \in todo
        <4>1. pipefd # <<>> /\ pipefd' = Tail(pipefd)
          BY <1>0, <1>5, <3>2 DEF ServePipe, SocketTypes
        <4>2. Head(pipefd) \in {"mme", "gtpu", "exit"} /\ pipefd' \in Seq({"mme", "gtpu", "exit"})
          BY <1>0, <4>1, HeadTailProperties
        <4>3. sock_pc' \in {"exited", "loop"} /\ total_fd_set' \subseteq {"mme", "gtpu"}
          BY <1>0, <1>5, <3>2, <4>2 DEF ServePipe
        <4> QED
          BY <1>0, <2>1, <4>2, <4>3 DEF SocketTypes
      <3> QED
        BY <3>1, <3>2
    <2> QED
      BY <1>0, <2>1, <2>2, QueueSteps DEF StackTypes, AssociationTypes, stackvars, mmevars
  <1>6. CASE Unblock("sock")
    BY <1>0, <1>6, QueueSteps
       DEF Unblock, StackTypes, SocketTypes, AssociationTypes, stackvars, socketvars, mmevars
  <1> QED
    BY <1>1, <1>2, <1>3, <1>4, <1>5, <1>6, <1>7 DEF SocketThread

\* The PHY, the main thread, the MME and the network.
LEMMA OutsideTypes ==
    ASSUME StackTypes,
           \/ PhyTick \/ StopEnb \/ JoinStack \/ Unblock("phy")
           \/ MmeAnswers \/ MmeMessage \/ MmeShutdown \/ GtpuPacket
    PROVE  StackTypes'
  <1>0. /\ QueueTypes /\ SocketTypes /\ AssociationTypes
        /\ rxq \in Seq(Message) /\ last \in Associations \cup {0} /\ s1.socket \in {0, last}
        /\ mme # "none" => s1.socket # 0
        /\ {"phy", "main"} \subseteq StackThreads /\ {"sync", "enb"} \subseteq StackQueues
        /\ "tti" \in StackTask /\ "stop" \in StackTask
    BY DEF StackTypes, AssociationTypes, StackThreads, StackQueues, StackTask
  <1>1. CASE PhyTick
    <2>1. QueueTypes'
      BY <1>0, <1>1, QueueSteps DEF PhyTick
    <2> QED
      BY <1>0, <1>1, <2>1 DEF PhyTick, StackTypes, SocketTypes, AssociationTypes, stackvars, socketvars, mmevars
  <1>2. CASE StopEnb
    <2>1. QueueTypes'
      BY <1>0, <1>2, QueueSteps DEF StopEnb
    <2> QED
      BY <1>0, <1>2, <2>1 DEF StopEnb, StackTypes, SocketTypes, AssociationTypes, socketvars, mmevars
  <1>3. CASE JoinStack
    BY <1>0, <1>3, QueueSteps DEF JoinStack, StackTypes, SocketTypes, AssociationTypes, socketvars, mmevars
  <1>4. CASE Unblock("phy")
    BY <1>0, <1>4, QueueSteps
       DEF Unblock, StackTypes, SocketTypes, AssociationTypes, stackvars, socketvars, mmevars
  <1>5. ASSUME NEW kind \in {"resp", "fail", "shutdown", "empty", "other"}, MmeSends(kind), mme # "none"
        PROVE  rxq' \in Seq(Message)
    <2>1. <<kind, s1.socket>> \in Message
      BY <1>0, <1>5 DEF Message
    <2> QED
      BY <1>0, <1>5, <2>1, AppendProperties DEF MmeSends
  <1>6. CASE MmeAnswers \/ MmeMessage \/ MmeShutdown
    <2>1. rxq' \in Seq(Message) /\ mme # "none"
      <3>1. CASE MmeAnswers
        BY <1>5, <3>1 DEF MmeAnswers
      <3>2. CASE MmeMessage
        BY <1>5, <3>2 DEF MmeMessage
      <3>3. CASE MmeShutdown
        BY <1>5, <3>3 DEF MmeShutdown
      <3> QED
        BY <1>6, <3>1, <3>2, <3>3
    <2>2. mme' \in {"none", "up", "ready"} /\ (stack_pc = "add" => mme' \in {"up", "none"})
      BY <1>6 DEF MmeAnswers, MmeMessage, MmeShutdown, StackTypes
    <2>3. UNCHANGED <<bqvars, stackvars, socketvars, last, gtpu_rx>>
      BY <1>6 DEF MmeAnswers, MmeMessage, MmeShutdown
    <2> QED
      BY <1>0, <2>1, <2>2, <2>3, QueueSteps DEF StackTypes, SocketTypes, AssociationTypes, stackvars, socketvars
  <1>7. CASE GtpuPacket
    BY <1>0, <1>7, QueueSteps
       DEF GtpuPacket, StackTypes, SocketTypes, AssociationTypes, stackvars, socketvars, mmevars
  <1> QED
    BY <1>1, <1>2, <1>3, <1>4, <1>6, <1>7

LEMMA StackTypesStep == StackTypes /\ [StackNext]_vars => StackTypes'
  <1> SUFFICES ASSUME StackTypes, [StackNext]_vars PROVE StackTypes'
    OBVIOUS
  <1>1. CASE UNCHANGED vars
    BY <1>1, QueueSteps DEF vars, StackTypes, SocketTypes, AssociationTypes, stackvars, socketvars, mmevars
  <1> QED
    BY <1>1, StackThreadTypes, SocketThreadTypes, OutsideTypes DEF StackNext

(* Every queue keeps its limit and its tasks, and the state of s1ap, of the sockets *)
(* and of the threads has its type.                                                *)
THEOREM StackTypeCorrect == StackSpec => []StackTypeOK
  <1>1. StackTypes => StackTypeOK
    BY DEF StackTypes, QueueTypes, SocketTypes, AssociationTypes, ConnectionState, StackTypeOK
  <1> QED
    BY <1>1, StackTypesInit, StackTypesStep, PTL DEF StackSpec
-----------------------------------------------------------------------------
(* The socket of the MME *)

\* A shutdown that waits in the kernel has taken the association from the MME, so that
\* the descriptor is taken out only when nothing is expected of it any more, and nothing
\* is until the stack thread has registered the next one, for which it waits.
ReadInv ==
    /\ mme # "none" => \A i \in DOMAIN rxq : rxq[i][1] # "shutdown"
    /\ "mme" \in active_sockets => "mme" \in total_fd_set \/ \E i \in DOMAIN pipefd : pipefd[i] = "mme"
    /\ mme \in {"asked", "ready"} => "mme" \in active_sockets
    /\ sock_pc = "remove" => mme \in {"none", "up"}

LEMMA PipeKeeps ==
    ASSUME NEW s \in Seq({"mme", "gtpu", "exit"}), \E i \in DOMAIN s : s[i] = "mme"
    PROVE  /\ \A x \in {"mme", "gtpu", "exit"} :
                 \E i \in DOMAIN Append(s, x) : Append(s, x)[i] = "mme"
           /\ Head(s) = "mme" \/ \E i \in DOMAIN Tail(s) : Tail(s)[i] = "mme"
  <1>1. PICK i \in 1 .. Len(s) : s[i] = "mme"
    BY ElementOfSeq, LenProperties
  <1>2. ASSUME NEW x \in {"mme", "gtpu", "exit"}
        PROVE  \E j \in DOMAIN Append(s, x) : Append(s, x)[j] = "mme"
    <2>1. i \in DOMAIN Append(s, x) /\ Append(s, x)[i] = s[i]
      BY LenProperties, AppendProperties
    <2> QED
      BY <1>1, <2>1
  <1>3. CASE i = 1
    BY <1>1, <1>2, <1>3
  <1>4. CASE i # 1
    <2>1. s # <<>> /\ Len(s) \in Nat /\ i \in Int /\ 1 <= i /\ i <= Len(s)
      BY <1>1, LenProperties
    <2>2. i - 1 \in DOMAIN Tail(s) /\ Tail(s)[i - 1] = s[i]
      BY <1>4, <2>1, HeadTailProperties
    <2> QED
      BY <1>1, <1>2, <2>2
  <1> QED
    BY <1>3, <1>4

LEMMA BecomesRead ==
    ASSUME ReadInv, NEW t, S1Becomes(t), UNCHANGED socketvars
    PROVE  ReadInv'
  <1>1. rxq' = <<>> \/ (mme' = mme /\ rxq' = rxq)
    BY DEF S1Becomes
  <1>2. mme' = mme \/ mme' \in {"none", "up"}
    BY DEF S1Becomes
  <1>3. mme' # "none" => \A i \in DOMAIN rxq' : rxq'[i][1] # "shutdown"
    <2>1. CASE rxq' = <<>>
      BY <2>1
    <2>2. CASE rxq' # <<>>
      BY <1>1, <2>2 DEF ReadInv
    <2> QED
      BY <2>1, <2>2
  <1> QED
    BY <1>2, <1>3 DEF ReadInv, socketvars

LEMMA MmeSendsRead ==
    ASSUME AssociationTypes, ReadInv, NEW kind \in {"resp", "fail", "shutdown", "empty", "other"},
           MmeSends(kind), mme # "none", UNCHANGED socketvars, mme' \in {"none", "up", "ready"},
           kind = "shutdown" => mme' = "none", mme' = "ready" => mme \in {"asked", "ready"}
    PROVE  ReadInv'
  <1>1. rxq \in Seq(Message) /\ rxq' = Append(rxq, <<kind, s1.socket>>) /\ <<kind, s1.socket>> \in Message
    <2>1. s1.socket \in Associations
      BY DEF AssociationTypes
    <2> QED
      BY <2>1 DEF AssociationTypes, MmeSends, Message
  <1>2. mme' # "none" => \A i \in DOMAIN rxq' : rxq'[i][1] # "shutdown"
    <2>1. SUFFICES ASSUME mme' # "none", NEW i \in DOMAIN rxq' PROVE rxq'[i][1] # "shutdown"
      OBVIOUS
    <2>2. \/ i = Len(rxq) + 1 /\ rxq'[i] = <<kind, s1.socket>>
          \/ i \in DOMAIN rxq /\ rxq'[i] = rxq[i]
      BY <1>1, <2>1, AppendProperties, LenProperties
    <2> QED
      BY <2>1, <2>2 DEF ReadInv
  <1> QED
    BY <1>2 DEF ReadInv, socketvars

LEMMA ReadStep == StackTypes /\ ReadInv /\ [StackNext]_vars => ReadInv'
  <1> SUFFICES ASSUME StackTypes, ReadInv, [StackNext]_vars PROVE ReadInv'
    OBVIOUS
  <1>0. /\ AssociationTypes /\ rxq \in Seq(Message) /\ pipefd \in Seq({"mme", "gtpu", "exit"})
        /\ SocketTypes
    BY DEF StackTypes, AssociationTypes, SocketTypes
  <1>1. CASE /\ UNCHANGED <<active_sockets, total_fd_set, pipefd, rxq, mme>>
             /\ sock_pc' = sock_pc \/ sock_pc' \in {"loop", "select", "serve", "exited"}
    BY <1>1 DEF ReadInv
  <1>2. CASE InitialLaunch
    BY <1>2, BecomesRead DEF InitialLaunch
  <1>3. CASE RunMmeTask
    BY <1>3, BecomesRead DEF RunMmeTask
  <1>4. CASE RunTtiTask
    <2>1. CASE NoTimer
      BY <1>1, <1>4, <2>1 DEF RunTtiTask, NoTimer, socketvars, mmevars
    <2> QED
      BY <1>4, <2>1, BecomesRead DEF RunTtiTask
  <1>5. ASSUME NEW fd \in {"mme", "gtpu"}, AddSocketHandler(fd), UNCHANGED total_fd_set
        PROVE  /\ fd \in active_sockets' /\ active_sockets \subseteq active_sockets'
               /\ "mme" \in active_sockets' => "mme" \in total_fd_set' \/ \E i \in DOMAIN pipefd' : pipefd'[i] = "mme"
    <2>1. CASE fd \in active_sockets
      BY <1>5, <2>1 DEF AddSocketHandler, ReadInv
    <2>2. CASE fd \notin active_sockets
      <3>1. active_sockets' = active_sockets \cup {fd} /\ pipefd' = Append(pipefd, fd)
        BY <1>5, <2>2 DEF AddSocketHandler
      <3>2. \E i \in DOMAIN Append(pipefd, fd) : Append(pipefd, fd)[i] = fd
        <4>1. Len(pipefd) + 1 \in DOMAIN Append(pipefd, fd) /\ Append(pipefd, fd)[Len(pipefd) + 1] = fd
          BY <1>0, AppendProperties, LenProperties
        <4> QED
          BY <4>1
      <3>3. "mme" \in active_sockets => "mme" \in total_fd_set \/ \E i \in DOMAIN Append(pipefd, fd) : Append(pipefd, fd)[i] = "mme"
        <4>1. SUFFICES ASSUME \E i \in DOMAIN pipefd : pipefd[i] = "mme"
              PROVE  \E i \in DOMAIN Append(pipefd, fd) : Append(pipefd, fd)[i] = "mme"
          BY DEF ReadInv
        <4> QED
          BY <1>0, <4>1, PipeKeeps
      <3> QED
        BY <1>5, <3>1, <3>2, <3>3
    <2> QED
      BY <2>1, <2>2
  <1>6. CASE AddMmeSocket
    <2>1. /\ mme' = (IF mme = "up" THEN "asked" ELSE mme) /\ rxq' = (IF mme = "up" THEN rxq ELSE <<>>)
          /\ AddSocketHandler("mme") /\ UNCHANGED <<sock_pc, total_fd_set>> /\ sock_pc # "remove"
      BY <1>6 DEF AddMmeSocket, AddSocketHandler, SocketMutexFree
    <2>2. mme' # "none" => \A i \in DOMAIN rxq' : rxq'[i][1] # "shutdown"
      BY <2>1 DEF ReadInv
    <2> QED
      BY <1>5, <2>1, <2>2 DEF ReadInv
  <1>7. CASE AddGtpuSocket
    BY <1>5, <1>7 DEF AddGtpuSocket, ReadInv, mmevars
  <1>8. CASE WriteExit
    <2>1. pipefd' = Append(pipefd, "exit") /\ UNCHANGED <<sock_pc, active_sockets, total_fd_set, mmevars>>
      BY <1>8 DEF WriteExit
    <2> QED
      BY <1>0, <2>1, PipeKeeps DEF ReadInv, mmevars
  <1>9. CASE StopLayers
    BY <1>9 DEF StopLayers, ReadInv, socketvars
  <1>10. CASE ServeMme
    <2>1. UNCHANGED <<active_sockets, total_fd_set, pipefd, mme>>
      BY <1>10 DEF ServeMme
    <2>2. CASE UNCHANGED <<rxq, sock_pc>>
      BY <2>1, <2>2 DEF ReadInv
    <2>3. CASE /\ rxq # <<>> /\ rxq' = Tail(rxq)
               /\ sock_pc' = (IF Head(rxq)[1] = "shutdown" THEN "remove" ELSE "serve")
      <3>1. mme' # "none" => \A i \in DOMAIN rxq' : rxq'[i][1] # "shutdown"
        <4>1. SUFFICES ASSUME mme # "none", NEW i \in DOMAIN Tail(rxq) PROVE Tail(rxq)[i][1] # "shutdown"
          BY <2>1, <2>3
        <4>2. i + 1 \in DOMAIN rxq /\ Tail(rxq)[i] = rxq[i + 1]
          BY <1>0, <2>3, HeadTailProperties, LenProperties
        <4> QED
          BY <4>1, <4>2 DEF ReadInv
      <3>2. Head(rxq)[1] = "shutdown" => mme = "none"
        <4>1. 1 \in DOMAIN rxq /\ Head(rxq) = rxq[1]
          BY <1>0, <2>3, HeadTailProperties, LenProperties, EmptySeq
        <4> QED
          BY <4>1 DEF ReadInv
      <3> QED
        BY <2>1, <2>3, <3>1, <3>2 DEF ReadInv
    <2> QED
      BY <1>10, <2>2, <2>3 DEF ServeMme
  <1>16. CASE RemoveMme
    <2>1. /\ sock_pc = "remove" /\ sock_pc' = "serve" /\ active_sockets' = active_sockets \ {"mme"}
          /\ UNCHANGED <<pipefd, mmevars>>
      BY <1>16 DEF RemoveMme, ActiveAfter
    <2> QED
      BY <2>1 DEF ReadInv, mmevars
  <1>11. CASE ServePipe
    <2>1. UNCHANGED <<active_sockets, mmevars>> /\ sock_pc' # "remove"
      BY <1>11 DEF ServePipe
    <2>2. CASE "pipe" \notin todo
      BY <1>11, <2>1, <2>2 DEF ServePipe, ReadInv, mmevars
    <2>3. CASE "pipe" \in todo
      <3>1. pipefd' = Tail(pipefd)
            /\ total_fd_set' = (IF Head(pipefd) = "exit" THEN total_fd_set ELSE total_fd_set \cup {Head(pipefd)})
        BY <1>11, <2>3 DEF ServePipe
      <3> QED
        BY <1>0, <2>1, <3>1, PipeKeeps DEF ReadInv, mmevars
    <2> QED
      BY <2>2, <2>3
  <1>12. CASE MmeAnswers \/ MmeMessage \/ MmeShutdown
    <2>1. CASE MmeAnswers
      BY <1>0, <2>1, MmeSendsRead DEF MmeAnswers
    <2>2. CASE MmeMessage
      BY <1>0, <2>2, MmeSendsRead DEF MmeMessage
    <2>3. CASE MmeShutdown
      BY <1>0, <2>3, MmeSendsRead DEF MmeShutdown
    <2> QED
      BY <1>12, <2>1, <2>2, <2>3
  <1>13. CASE UNCHANGED vars \/ RunGtpuTask \/ RunStopTask \/ ResetQueues
    BY <1>1, <1>13 DEF vars, RunGtpuTask, RunStopTask, ResetQueues, socketvars, mmevars
  <1>14. CASE Select \/ SelectReturns \/ ServeGtpu \/ Unblock("sock")
    BY <1>1, <1>14 DEF Select, SelectReturns, ServeGtpu, Unblock, socketvars, mmevars
  <1>15. CASE PhyTick \/ StopEnb \/ JoinStack \/ Unblock("phy") \/ GtpuPacket
    BY <1>1, <1>15 DEF PhyTick, StopEnb, JoinStack, Unblock, GtpuPacket, socketvars, mmevars
  <1> QED
    BY <1>2, <1>3, <1>4, <1>6, <1>7, <1>8, <1>9, <1>10, <1>11, <1>12, <1>13, <1>14, <1>15, <1>16
       DEF StackNext, StackThread, SocketThread

(* While an answer or messages of the MME are to come, its socket is one select *)
(* waits for or will wait for (s1ap::connect_mme, rx_multisocket_handler).      *)
THEOREM AssociationIsReadHolds == StackSpec => []AssociationIsRead
  <1>1. StackInit => ReadInv
    BY DEF StackInit, ReadInv
  <1>2. ReadInv => AssociationIsRead
    BY DEF ReadInv, AssociationIsRead
  <1> QED
    BY <1>1, <1>2, ReadStep, StackTypesInit, StackTypesStep, PTL DEF StackSpec
-----------------------------------------------------------------------------
(* The answer of the MME, on its way from the kernel, rxq, through a push of the *)
(* socket thread that blocks, to the queue of the stack thread.                  *)

Quiet(s) == \A i \in DOMAIN s : s[i][1] # "resp"
OneIn(s, l) == \A i \in DOMAIN s : s[i][1] = "resp" =>
                  s[i][2] = l /\ \A j \in DOMAIN s : s[j][1] = "resp" => j = i
QuietPush(p) == ~(p # <<>> /\ p[1] = "mme" /\ p[2][1] = "resp")

Expected(b, p, r, m) == m = "asked" \/ ~Quiet(r) \/ ~QuietPush(p) \/ ~Quiet(b)

\* One answer, from the association l, in one place.
OneAnswer(b, p, r, m, l) ==
    /\ OneIn(r, l) /\ OneIn(b, l) /\ (~QuietPush(p) => p[2][2] = l)
    /\ m = "asked" => Quiet(r) /\ QuietPush(p) /\ Quiet(b)
    /\ ~Quiet(r) => QuietPush(p) /\ Quiet(b)
    /\ ~QuietPush(p) => Quiet(b)

AnswerInv ==
    /\ OneAnswer(buf["mme"], pending["sock"], rxq, mme, last)
    /\ Expected(buf["mme"], pending["sock"], rxq, mme) => s1.proc = "on_going"
    /\ stack_pc = "add" => s1.proc = "on_going" /\ ~Expected(buf["mme"], pending["sock"], rxq, mme)
    /\ Connected(s1, answered)

LEMMA AppendAnswer ==
    ASSUME NEW s \in Seq(Message), NEW msg \in Message, NEW l
    PROVE  /\ Quiet(Append(s, msg)) <=> Quiet(s) /\ msg[1] # "resp"
           /\ OneIn(s, l) /\ msg[1] # "resp" => OneIn(Append(s, msg), l)
           /\ Quiet(s) /\ msg[2] = l => OneIn(Append(s, msg), l)
  <1>1. /\ DOMAIN Append(s, msg) = DOMAIN s \cup {Len(s) + 1} /\ Append(s, msg)[Len(s) + 1] = msg
        /\ \A i \in DOMAIN s : Append(s, msg)[i] = s[i]
    BY AppendProperties, LenProperties
  <1>2. Quiet(Append(s, msg)) <=> Quiet(s) /\ msg[1] # "resp"
    BY <1>1 DEF Quiet
  <1>3. ASSUME OneIn(s, l), msg[1] # "resp" PROVE OneIn(Append(s, msg), l)
    BY <1>1, <1>3 DEF OneIn
  <1>4. ASSUME Quiet(s), msg[2] = l PROVE OneIn(Append(s, msg), l)
    BY <1>1, <1>4 DEF OneIn, Quiet
  <1> QED
    BY <1>2, <1>3, <1>4

LEMMA TailAnswer ==
    ASSUME NEW s \in Seq(Message), s # <<>>, NEW l
    PROVE  /\ Head(s) \in Message /\ Tail(s) \in Seq(Message)
           /\ Quiet(s) <=> Quiet(Tail(s)) /\ Head(s)[1] # "resp"
           /\ OneIn(s, l) => OneIn(Tail(s), l)
           /\ OneIn(s, l) /\ Head(s)[1] = "resp" => Quiet(Tail(s)) /\ Head(s)[2] = l
  <1>1. /\ Head(s) \in Message /\ Tail(s) \in Seq(Message)
        /\ 1 \in DOMAIN s /\ Head(s) = s[1]
        /\ \A i \in DOMAIN Tail(s) : i \in Nat /\ i # 0 /\ i + 1 \in DOMAIN s /\ Tail(s)[i] = s[i + 1]
        /\ \A i \in DOMAIN s : i = 1 \/ (i \in Nat /\ i - 1 \in DOMAIN Tail(s) /\ Tail(s)[i - 1] = s[i])
    BY HeadTailProperties, LenProperties, EmptySeq
  <1>2. Quiet(s) <=> Quiet(Tail(s)) /\ Head(s)[1] # "resp"
    <2>1. ASSUME Quiet(s) PROVE Quiet(Tail(s)) /\ Head(s)[1] # "resp"
      BY <1>1, <2>1 DEF Quiet
    <2>2. ASSUME Quiet(Tail(s)), Head(s)[1] # "resp" PROVE Quiet(s)
      BY <1>1, <2>2 DEF Quiet
    <2> QED
      BY <2>1, <2>2
  <1>3. ASSUME OneIn(s, l) PROVE OneIn(Tail(s), l)
    <2>1. SUFFICES ASSUME NEW i \in DOMAIN Tail(s), Tail(s)[i][1] = "resp"
                   PROVE  Tail(s)[i][2] = l /\ \A j \in DOMAIN Tail(s) : Tail(s)[j][1] = "resp" => j = i
      BY DEF OneIn
    <2>2. i \in Nat /\ i + 1 \in DOMAIN s /\ Tail(s)[i] = s[i + 1]
      BY <1>1, <2>1
    <2>3. s[i + 1][2] = l /\ \A j \in DOMAIN s : s[j][1] = "resp" => j = i + 1
      BY <1>3, <2>1, <2>2 DEF OneIn
    <2>4. ASSUME NEW j \in DOMAIN Tail(s), Tail(s)[j][1] = "resp" PROVE j = i
      <3>1. j \in Nat /\ j + 1 \in DOMAIN s /\ Tail(s)[j] = s[j + 1]
        BY <1>1
      <3>2. j + 1 = i + 1
        BY <2>3, <2>4, <3>1
      <3> QED
        BY <2>2, <3>1, <3>2
    <2> QED
      BY <2>2, <2>3, <2>4
  <1>4. ASSUME OneIn(s, l), Head(s)[1] = "resp" PROVE Quiet(Tail(s)) /\ Head(s)[2] = l
    <2>1. s[1][2] = l /\ \A j \in DOMAIN s : s[j][1] = "resp" => j = 1
      BY <1>1, <1>4 DEF OneIn
    <2>2. \A i \in DOMAIN Tail(s) : i + 1 # 1
      BY <1>1
    <2> QED
      BY <1>1, <2>1, <2>2 DEF Quiet
  <1> QED
    BY <1>1, <1>2, <1>3, <1>4

LEMMA NothingQuiet == Quiet(<<>>) /\ \A l : OneIn(<<>>, l)
  BY DEF Quiet, OneIn

\* The stack thread goes on from t, with b and p what is in the queue and in the push then.
LEMMA BecomesAnswer ==
    ASSUME NEW t, Moves(t), S1Becomes(t),
           OneAnswer(buf["mme"]', pending["sock"]', rxq, mme, last),
           Expected(buf["mme"]', pending["sock"]', rxq, mme) => s1.proc = "on_going" /\ t.proc = "on_going",
           Connected(t, answered')
    PROVE  AnswerInv'
  <1>1. CASE Opens(t)
    <2>1. s1' = t /\ mme' = "up" /\ rxq' = <<>> /\ stack_pc' = "add"
      BY <1>1 DEF S1Becomes, Opens
    <2>2. ~Expected(buf["mme"]', pending["sock"]', rxq, mme)
      BY <1>1 DEF Opens
    <2>3. ~Expected(buf["mme"]', pending["sock"]', rxq', mme')
      BY <2>1, <2>2, NothingQuiet DEF Expected
    <2>4. OneAnswer(buf["mme"]', pending["sock"]', rxq', mme', last')
      <3>1. Quiet(buf["mme"]') /\ QuietPush(pending["sock"]') /\ Quiet(rxq') /\ mme' # "asked"
        BY <2>1, <2>3 DEF Expected
      <3>2. OneIn(buf["mme"]', last') /\ OneIn(rxq', last')
        BY <3>1 DEF OneIn, Quiet
      <3> QED
        BY <3>1, <3>2 DEF OneAnswer
    <2> QED
      BY <1>1, <2>1, <2>3, <2>4 DEF AnswerInv, Opens
  <1>2. CASE ~Opens(t)
    <2>1. /\ s1' = t /\ last' = last /\ stack_pc' # "add"
          /\ (mme' = mme /\ rxq' = rxq) \/ (mme' = "none" /\ rxq' = <<>>)
      BY <1>2 DEF S1Becomes, Opens, TaskOver
    <2>2. OneAnswer(buf["mme"]', pending["sock"]', rxq', mme', last')
          /\ (Expected(buf["mme"]', pending["sock"]', rxq', mme')
              => Expected(buf["mme"]', pending["sock"]', rxq, mme))
      BY <2>1, NothingQuiet DEF OneAnswer, Expected
    <2> QED
      BY <2>1, <2>2 DEF AnswerInv
  <1> QED
    BY <1>1, <1>2

LEMMA MmeSendsAnswer ==
    ASSUME StackTypes, AnswerInv, NEW kind \in {"resp", "fail", "shutdown", "empty", "other"},
           MmeSends(kind), mme # "none", kind = "resp" => mme = "asked", mme' \in {"none", "up", "ready"},
           UNCHANGED <<bqvars, stackvars, last>>
    PROVE  AnswerInv'
  <1> DEFINE b == buf["mme"]  p == pending["sock"]
  <1>1. /\ rxq \in Seq(Message) /\ s1.socket \in Associations /\ s1.socket = last
    BY DEF StackTypes, AssociationTypes
  <1>2. rxq' = Append(rxq, <<kind, last>>) /\ <<kind, last>> \in Message
    BY <1>1 DEF MmeSends, Message
  <1>3. /\ Quiet(rxq') <=> Quiet(rxq) /\ kind # "resp"
        /\ OneIn(rxq, last) /\ kind # "resp" => OneIn(rxq', last)
        /\ Quiet(rxq) => OneIn(rxq', last)
    BY <1>1, <1>2, AppendAnswer
  <1>4. b' = b /\ p' = p /\ last' = last /\ UNCHANGED <<s1, stack_pc, answered>> /\ mme' # "asked"
    BY DEF bqvars, stackvars
  <1>5. OneAnswer(b, p, rxq, mme, last) /\ (Expected(b, p, rxq, mme) => s1.proc = "on_going")
        /\ (stack_pc = "add" => s1.proc = "on_going" /\ ~Expected(b, p, rxq, mme)) /\ Connected(s1, answered)
    BY DEF AnswerInv
  <1> HIDE DEF b, p
  <1>6. OneAnswer(b, p, rxq', mme', last)
    BY <1>3, <1>4, <1>5 DEF OneAnswer
  <1>7. Expected(b, p, rxq', mme') => Expected(b, p, rxq, mme)
    BY <1>3, <1>4 DEF Expected
  <1>8. OneAnswer(b', p', rxq', mme', last') /\ (Expected(b', p', rxq', mme') => s1'.proc = "on_going")
        /\ (stack_pc' = "add" => s1'.proc = "on_going" /\ ~Expected(b', p', rxq', mme')) /\ Connected(s1', answered')
    BY <1>4, <1>5, <1>6, <1>7
  <1> QED
    BY <1>8 DEF AnswerInv, b, p

LEMMA RunMmeTaskAnswer == ASSUME StackTypes, AnswerInv, RunMmeTask PROVE AnswerInv'
  <1> DEFINE b == buf["mme"]  p == pending["sock"]  msg == Head(buf["mme"])
  <1>0. /\ AssociationTypes /\ b \in Seq(Message) /\ b # <<>>
        /\ b' = Tail(b) /\ p' = p /\ "mme" \in StackQueues
        /\ NextAssociation \in Associations \cup {0}
    <2>1. buf \in [StackQueues -> Seq(StackTask)] /\ "mme" \in StackQueues
      BY DEF StackTypes, QueueTypes, StackQueues
    <2> QED
      BY <2>1, AssociationsAreNumbers DEF StackTypes, QueueTypes, AssociationTypes, NextAssociation, RunMmeTask, Take
  <1>1. PICK a \in {0, NextAssociation} : S1Becomes(HandleMmeRx(s1, msg[1], a))
    BY DEF RunMmeTask
  <1>2. answered' = IF IsInit(s1) /\ msg[1] = "resp" THEN msg[2] ELSE answered
    BY DEF RunMmeTask
  <1>3. OneAnswer(b, p, rxq, mme, last) /\ (Expected(b, p, rxq, mme) => s1.proc = "on_going")
        /\ Connected(s1, answered)
    BY DEF AnswerInv
  <1>4. msg = Head(b)
    OBVIOUS
  <1> HIDE DEF b, p, msg
  <1>5. /\ msg \in Message
        /\ Quiet(b) <=> Quiet(b') /\ msg[1] # "resp"
        /\ OneIn(b', last)
        /\ msg[1] = "resp" => Quiet(b') /\ msg[2] = last
    BY <1>0, <1>3, <1>4, TailAnswer DEF OneAnswer
  <1>6. OneAnswer(b', p', rxq, mme, last)
    BY <1>0, <1>3, <1>5 DEF OneAnswer
  <1>7. Expected(b', p', rxq, mme) => Expected(b, p, rxq, mme) /\ msg[1] # "resp"
    BY <1>0, <1>3, <1>5 DEF OneAnswer, Expected
  <1>8. msg[1] = "resp" => s1.proc = "on_going" /\ msg[2] = last
    BY <1>3, <1>5 DEF Expected
  <1>9. a \in Associations \cup {0}
    BY <1>0
  <1> DEFINE t == HandleMmeRx(s1, msg[1], a)
  <1>10. /\ Moves(t)
         /\ s1.proc = "on_going" => t.proc = "on_going" \/ (IsInit(s1) /\ msg[1] = "resp")
         /\ Connected(t, answered')
    BY <1>0, <1>2, <1>3, <1>5, <1>8, <1>9, HandleMmeRxMoves
  <1>11. Expected(b', p', rxq, mme) => s1.proc = "on_going" /\ t.proc = "on_going"
    BY <1>3, <1>7, <1>10
  <1> HIDE DEF t
  <1>12. S1Becomes(t)
    BY <1>1 DEF t
  <1> QED
    BY <1>6, <1>10, <1>11, <1>12, BecomesAnswer DEF b, p

\* The procedure is not given up while an answer is to come, unless the MME is silent.
LEMMA RunTtiTaskAnswer ==
    ASSUME StackTypes, AnswerInv, "silent" \notin MmeFails, RunTtiTask PROVE AnswerInv'
  <1> DEFINE b == buf["mme"]  p == pending["sock"]
  <1>0. /\ AssociationTypes /\ s1 \in ConnectionState
        /\ b' = b /\ p' = p /\ answered' = answered
        /\ NextAssociation \in Associations \cup {0}
    <2>1. buf \in [StackQueues -> Seq(StackTask)] /\ "mme" \in StackQueues /\ "sync" \in StackQueues
      BY DEF StackTypes, QueueTypes, StackQueues
    <2> QED
      BY <2>1, AssociationsAreNumbers DEF StackTypes, AssociationTypes, NextAssociation, RunTtiTask, Take
  <1>1. OneAnswer(b, p, rxq, mme, last) /\ (Expected(b, p, rxq, mme) => s1.proc = "on_going")
        /\ (stack_pc = "add" => s1.proc = "on_going" /\ ~Expected(b, p, rxq, mme)) /\ Connected(s1, answered)
    BY DEF AnswerInv
  <1>2. CASE NoTimer
    BY <1>0, <1>1, <1>2 DEF NoTimer, mmevars, AnswerInv
  <1>3. CASE Late /\ S1Becomes(S1SetupExpires(s1))
    <2>1. ~Expected(b, p, rxq, mme)
      <3>1. mme # "asked" /\ "resp" \notin InFlight
        BY <1>3 DEF Late
      <3>2. Quiet(rxq) /\ Quiet(b) /\ QuietPush(p)
        BY <3>1 DEF InFlight, BlockedMessage, Blocked, Quiet, QuietPush
      <3> QED
        BY <3>1, <3>2 DEF Expected
    <2>2. Moves(S1SetupExpires(s1)) /\ Connected(S1SetupExpires(s1), answered)
      BY <1>0, <1>1, TimersMove
    <2> HIDE DEF b, p
    <2> QED
      BY <1>0, <1>1, <1>3, <2>1, <2>2, BecomesAnswer DEF b, p
  <1>4. ASSUME NEW a \in {0, NextAssociation}, S1Becomes(MmeConnectExpires(s1, a)) PROVE AnswerInv'
    <2>1. a \in Associations \cup {0}
      BY <1>0
    <2>2. /\ Moves(MmeConnectExpires(s1, a)) /\ Connected(MmeConnectExpires(s1, a), answered)
          /\ s1.proc = "on_going" => MmeConnectExpires(s1, a).proc = "on_going"
      BY <1>0, <1>1, <2>1, TimersMove
    <2> HIDE DEF b, p
    <2> QED
      BY <1>0, <1>1, <1>4, <2>2, BecomesAnswer DEF b, p
  <1> QED
    BY <1>2, <1>3, <1>4 DEF RunTtiTask

LEMMA InitialLaunchAnswer == ASSUME StackTypes, AnswerInv, InitialLaunch PROVE AnswerInv'
  <1>0. s1 \in ConnectionState /\ NextAssociation \in Associations \cup {0} /\ UNCHANGED <<bqvars, answered>>
    BY AssociationsAreNumbers DEF StackTypes, AssociationTypes, NextAssociation, InitialLaunch
  <1>1. PICK a \in {0, NextAssociation} : S1Becomes(Launch(s1, a))
    BY DEF InitialLaunch
  <1>2. a \in Associations \cup {0} /\ s1.socket \in {0, s1.socket}
    BY <1>0
  <1>3. /\ Moves(Launch(s1, a)) /\ Connected(Launch(s1, a), answered)
        /\ s1.proc = "on_going" => Launch(s1, a) = s1
    BY <1>0, <1>2, LaunchMoves DEF AnswerInv
  <1> QED
    BY <1>0, <1>1, <1>3, BecomesAnswer DEF AnswerInv, bqvars

LEMMA AddMmeSocketAnswer == ASSUME StackTypes, AnswerInv, AddMmeSocket PROVE AnswerInv'
  <1> DEFINE b == buf["mme"]  p == pending["sock"]
  <1>1. /\ UNCHANGED <<b, p, last, answered>> /\ stack_pc' = TaskOver /\ stack_pc = "add"
        /\ s1 \in ConnectionState
    BY DEF AddMmeSocket, bqvars, StackTypes, AssociationTypes
  <1>2. /\ OneAnswer(b, p, rxq, mme, last) /\ s1.proc = "on_going" /\ ~Expected(b, p, rxq, mme)
        /\ Connected(s1, answered)
    BY <1>1 DEF AnswerInv
  <1> HIDE DEF b, p
  <1>3. Quiet(b) /\ QuietPush(p) /\ Quiet(rxq) /\ OneIn(b, last) /\ OneIn(rxq, last)
    BY <1>2 DEF Expected, OneAnswer
  <1>4. CASE mme = "up"
    <2>1. s1' = [s1 EXCEPT !.s1setup_timeout = TRUE] /\ mme' = "asked" /\ rxq' = rxq
      BY <1>4 DEF AddMmeSocket, SetupS1
    <2>2. OneAnswer(b', p', rxq', mme', last')
      BY <1>1, <1>3, <2>1 DEF OneAnswer
    <2>3. s1'.proc = "on_going" /\ Connected(s1', answered')
      BY <1>1, <1>2, <2>1 DEF ConnectionState, Connected
    <2> QED
      BY <1>1, <2>2, <2>3 DEF AnswerInv, b, p, TaskOver
  <1>5. CASE mme # "up"
    <2>1. s1' = [s1 EXCEPT !.running = FALSE, !.proc = "idle", !.socket = 0] /\ mme' = mme /\ rxq' = <<>>
      BY <1>5 DEF AddMmeSocket, SetupS1, Fails
    <2>2. OneAnswer(b', p', rxq', mme', last') /\ ~Expected(b', p', rxq', mme')
      BY <1>1, <1>2, <1>3, <2>1, NothingQuiet DEF OneAnswer, Expected
    <2>3. Connected(s1', answered')
      BY <1>1, <2>1 DEF ConnectionState, Connected
    <2> QED
      BY <1>1, <2>2, <2>3 DEF AnswerInv, b, p, TaskOver
  <1> QED
    BY <1>4, <1>5

LEMMA StoppingAnswer == ASSUME StackTypes, AnswerInv, StopLayers \/ ResetQueues PROVE AnswerInv'
  <1> DEFINE b == buf["mme"]  p == pending["sock"]
  <1>1. OneAnswer(b, p, rxq, mme, last) /\ (Expected(b, p, rxq, mme) => s1.proc = "on_going")
        /\ Connected(s1, answered)
    BY DEF AnswerInv
  <1>2. CASE StopLayers
    <2>1. /\ UNCHANGED <<b, p, last, answered>> /\ stack_pc' # "add" /\ rxq' = <<>> /\ mme' = "none"
          /\ s1' = [s1 EXCEPT !.running = FALSE, !.socket = 0] /\ s1 \in ConnectionState
      BY <1>2 DEF StopLayers, Stop, S1Stop, StackTypes, AssociationTypes
    <2>2. s1'.proc = s1.proc /\ ~s1'.running
      BY <2>1 DEF ConnectionState
    <2> HIDE DEF b, p
    <2>3. OneAnswer(b', p', rxq', mme', last') /\ (Expected(b', p', rxq', mme') => Expected(b, p, rxq, mme))
      BY <1>1, <2>1, NothingQuiet DEF OneAnswer, Expected
    <2> QED
      BY <1>1, <2>1, <2>2, <2>3 DEF AnswerInv, Connected, b, p
  <1>3. CASE ResetQueues
    <2>1. /\ UNCHANGED <<p, rxq, mme, s1, last, answered>> /\ stack_pc' # "add" /\ b' = <<>>
      BY <1>3, StackAssumption DEF ResetQueues, Clear, mmevars, StackQueues
    <2> HIDE DEF b, p
    <2>2. OneAnswer(b', p', rxq', mme', last') /\ (Expected(b', p', rxq', mme') => Expected(b, p, rxq, mme))
      BY <1>1, <2>1, NothingQuiet DEF OneAnswer, Expected
    <2> QED
      BY <1>1, <2>1, <2>2 DEF AnswerInv, b, p
  <1> QED
    BY <1>2, <1>3

LEMMA ServeMmeAnswer == ASSUME StackTypes, AnswerInv, ServeMme PROVE AnswerInv'
  <1> DEFINE b == buf["mme"]  p == pending["sock"]  msg == Head(rxq)
  <1>0. /\ UNCHANGED <<s1, stack_pc, answered, mme, last>> /\ p = <<>>
        /\ b \in Seq(Message) /\ rxq \in Seq(Message)
        /\ buf \in [StackQueues -> Seq(StackTask)] /\ "mme" \in StackQueues
        /\ pending \in [StackThreads -> {<<>>} \cup (StackQueues \X StackTask)] /\ "sock" \in StackThreads
    BY DEF ServeMme, stackvars, StackTypes, QueueTypes, AssociationTypes, StackQueues, StackThreads
  <1>1. /\ OneAnswer(b, p, rxq, mme, last) /\ (Expected(b, p, rxq, mme) => s1.proc = "on_going")
        /\ (stack_pc = "add" => s1.proc = "on_going" /\ ~Expected(b, p, rxq, mme)) /\ Connected(s1, answered)
    BY DEF AnswerInv
  <1>2. CASE UNCHANGED <<bqvars, rxq>>
    BY <1>0, <1>2 DEF AnswerInv, bqvars
  <1>3. CASE rxq # <<>> /\ rxq' = Tail(rxq) /\ HandsOn("mme", msg)
    <2>1. \/ b' = Append(b, msg) /\ p' = p
          \/ b' = b /\ p' = <<"mme", msg>>
      BY <1>0, <1>3 DEF HandsOn, Put, Block
    <2>2. /\ msg \in Message /\ (Quiet(rxq) <=> Quiet(rxq') /\ msg[1] # "resp")
          /\ OneIn(rxq', last)
          /\ msg[1] = "resp" => Quiet(rxq') /\ msg[2] = last
      BY <1>0, <1>1, <1>3, TailAnswer DEF OneAnswer
    <2> HIDE DEF b, p, msg
    <2>3. OneAnswer(b', p', rxq', mme, last) /\ (Expected(b', p', rxq', mme) => Expected(b, p, rxq, mme))
      <3>1. CASE b' = Append(b, msg) /\ p' = p
        <4>1. /\ Quiet(b') <=> Quiet(b) /\ msg[1] # "resp"
              /\ OneIn(b, last) /\ msg[1] # "resp" => OneIn(b', last)
              /\ Quiet(b) /\ msg[2] = last => OneIn(b', last)
          BY <1>0, <2>2, <3>1, AppendAnswer
        <4> QED
          BY <1>1, <2>2, <3>1, <4>1 DEF OneAnswer, Expected
      <3>2. CASE b' = b /\ p' = <<"mme", msg>>
        <4>1. (QuietPush(p') <=> msg[1] # "resp") /\ p'[2] = msg /\ QuietPush(p)
          BY <1>0, <3>2 DEF QuietPush
        <4> QED
          BY <1>1, <2>2, <3>2, <4>1 DEF OneAnswer, Expected
      <3> QED
        BY <2>1, <3>1, <3>2
    <2>4. /\ OneAnswer(b', p', rxq', mme', last') /\ (Expected(b', p', rxq', mme') => s1'.proc = "on_going")
          /\ (stack_pc' = "add" => s1'.proc = "on_going" /\ ~Expected(b', p', rxq', mme'))
          /\ Connected(s1', answered')
      BY <1>0, <1>1, <2>3
    <2> QED
      BY <2>4 DEF AnswerInv, b, p
  <1> QED
    BY <1>2, <1>3 DEF ServeMme

LEMMA UnblockAnswer == ASSUME StackTypes, AnswerInv, NEW th \in {"sock", "phy"}, Unblock(th) PROVE AnswerInv'
  <1> DEFINE b == buf["mme"]  p == pending["sock"]
  <1>0. /\ UNCHANGED <<s1, stack_pc, answered, rxq, mme, last>>
        /\ b \in Seq(Message)
        /\ buf \in [StackQueues -> Seq(StackTask)] /\ "mme" \in StackQueues
        /\ pending \in [StackThreads -> {<<>>} \cup (StackQueues \X StackTask)]
        /\ {"sock", "phy"} \subseteq StackThreads
        /\ \A t \in StackThreads : Blocked(t, "mme") => t = "sock" /\ pending[t][2] \in Message
    BY DEF Unblock, stackvars, mmevars, StackTypes, QueueTypes, StackQueues, StackThreads
  <1>1. /\ OneAnswer(b, p, rxq, mme, last) /\ (Expected(b, p, rxq, mme) => s1.proc = "on_going")
        /\ (stack_pc = "add" => s1.proc = "on_going" /\ ~Expected(b, p, rxq, mme)) /\ Connected(s1, answered)
    BY DEF AnswerInv
  <1>2. \/ b' = b /\ p' = p
        \/ b' = b /\ p' = <<>>
        \/ p # <<>> /\ p[1] = "mme" /\ p[2] \in Message /\ b' = Append(b, p[2]) /\ p' = <<>>
    <2>1. pending' = [pending EXCEPT ![th] = <<>>] /\ (p' = p \/ (th = "sock" /\ p' = <<>>)) /\ th \in StackThreads
      BY <1>0 DEF Unblock, Accept, Drop
    <2>2. CASE Drop(th)
      BY <1>0, <2>1, <2>2 DEF Drop
    <2>3. CASE Accept(th) /\ pending[th][1] # "mme"
      <3>1. b' = b
        BY <1>0, <2>3 DEF Accept
      <3> QED
        BY <2>1, <3>1
    <2>4. CASE Accept(th) /\ pending[th][1] = "mme"
      <3>1. th = "sock" /\ p # <<>> /\ p[2] \in Message
        BY <1>0, <2>1, <2>4 DEF Accept, Blocked
      <3>2. b' = Append(b, p[2]) /\ p' = <<>>
        BY <1>0, <2>1, <2>4, <3>1 DEF Accept
      <3> QED
        BY <2>4, <3>1, <3>2
    <2> QED
      BY <2>2, <2>3, <2>4 DEF Unblock
  <1> HIDE DEF b, p
  <1>3. OneAnswer(b', p', rxq, mme, last) /\ (Expected(b', p', rxq, mme) => Expected(b, p, rxq, mme))
    <2>0. QuietPush(<<>>)
      BY DEF QuietPush
    <2>1. CASE b' = b /\ p' = p
      BY <1>1, <2>1
    <2>2. CASE b' = b /\ p' = <<>>
      BY <1>1, <2>0, <2>2 DEF OneAnswer, Expected
    <2>3. CASE p # <<>> /\ p[1] = "mme" /\ p[2] \in Message /\ b' = Append(b, p[2]) /\ p' = <<>>
      <3>1. /\ Quiet(b') <=> Quiet(b) /\ p[2][1] # "resp"
            /\ OneIn(b, last) /\ p[2][1] # "resp" => OneIn(b', last)
            /\ Quiet(b) /\ p[2][2] = last => OneIn(b', last)
        BY <1>0, <2>3, AppendAnswer
      <3>2. QuietPush(p) <=> p[2][1] # "resp"
        BY <2>3 DEF QuietPush
      <3> QED
        BY <1>1, <2>0, <2>3, <3>1, <3>2 DEF OneAnswer, Expected
    <2> QED
      BY <1>2, <2>1, <2>2, <2>3
  <1>4. /\ OneAnswer(b', p', rxq', mme', last') /\ (Expected(b', p', rxq', mme') => s1'.proc = "on_going")
        /\ (stack_pc' = "add" => s1'.proc = "on_going" /\ ~Expected(b', p', rxq', mme'))
        /\ Connected(s1', answered')
    BY <1>0, <1>1, <1>3
  <1> QED
    BY <1>4 DEF AnswerInv, b, p

LEMMA AnswerStep ==
    ASSUME "silent" \notin MmeFails PROVE StackTypes /\ AnswerInv /\ [StackNext]_vars => AnswerInv'
  <1> SUFFICES ASSUME StackTypes, AnswerInv, [StackNext]_vars PROVE AnswerInv'
    OBVIOUS
  <1>1. CASE UNCHANGED <<buf["mme"], pending["sock"], rxq, mme, last, s1, answered>> /\ stack_pc' \in {stack_pc, "idle", "stop", "join"}
    BY <1>1 DEF AnswerInv
  <1>2. buf \in [StackQueues -> Seq(StackTask)] /\ pending \in [StackThreads -> {<<>>} \cup (StackQueues \X StackTask)]
        /\ StackQueues = {"sync", "mme", "gtpu", "enb"} /\ StackThreads = {"sock", "phy", "main"}
    BY DEF StackTypes, QueueTypes, StackQueues, StackThreads
  <1>3. CASE UNCHANGED vars \/ AddGtpuSocket \/ WriteExit \/ Select \/ SelectReturns \/ ServePipe \/ JoinStack \/ GtpuPacket
    BY <1>1, <1>3 DEF vars, bqvars, stackvars, mmevars, AddGtpuSocket, WriteExit, Select, SelectReturns,
                      ServePipe, JoinStack, GtpuPacket
  <1>4. CASE RunGtpuTask \/ RunStopTask
    BY <1>1, <1>2, <1>4 DEF RunGtpuTask, RunStopTask, Take, stackvars, mmevars
  <1>5. CASE ServeGtpu
    <2>1. UNCHANGED <<buf["mme"], rxq, mme, last, s1, answered, stack_pc>>
      BY <1>2, <1>5 DEF ServeGtpu, HandsOn, Put, Block, stackvars, mmevars
    <2>2. pending["sock"] = <<>> /\ (pending' = pending \/ pending'["sock"] = <<"gtpu", "packet">>)
      BY <1>2, <1>5 DEF ServeGtpu, HandsOn, Put, Block
    <2>3. QuietPush(pending["sock"]) /\ QuietPush(pending'["sock"])
      BY <2>2 DEF QuietPush
    <2> QED
      BY <2>1, <2>3 DEF AnswerInv, OneAnswer, Expected
  <1>6. CASE PhyTick \/ StopEnb
    BY <1>1, <1>2, <1>6 DEF PhyTick, StopEnb, Put, Block, stackvars, mmevars
  <1>7. CASE MmeAnswers \/ MmeMessage \/ MmeShutdown
    <2>1. CASE MmeAnswers
      BY <2>1, MmeSendsAnswer DEF MmeAnswers
    <2>2. CASE MmeMessage
      BY <2>2, MmeSendsAnswer DEF MmeMessage
    <2>3. CASE MmeShutdown
      BY <2>3, MmeSendsAnswer DEF MmeShutdown
    <2> QED
      BY <1>7, <2>1, <2>2, <2>3
  <1>8. CASE RemoveMme
    BY <1>1, <1>8 DEF RemoveMme, bqvars, stackvars, mmevars
  <1> QED
    BY <1>3, <1>4, <1>5, <1>6, <1>7, <1>8, InitialLaunchAnswer, AddMmeSocketAnswer, StoppingAnswer,
       RunMmeTaskAnswer, RunTtiTaskAnswer, ServeMmeAnswer, UnblockAnswer
       DEF StackNext, StackThread, SocketThread

(* Unless the MME stays silent, S1AP holds itself connected only by the association *)
(* whose S1SetupResponse it handled last, whatever is still in mme_task_queue from   *)
(* an association that is gone (s1ap::handle_mme_rx_msg, s1_setup_proc_t).           *)
THEOREM ConnectedOnAnswerHolds ==
    ASSUME "silent" \notin MmeFails PROVE StackSpec => []ConnectedOnAnswer
  <1>1. StackInit => AnswerInv
    <2> SUFFICES ASSUME StackInit PROVE AnswerInv
      OBVIOUS
    <2>1. buf["mme"] = <<>> /\ pending["sock"] = <<>> /\ rxq = <<>> /\ mme = "none" /\ stack_pc = "launch"
          /\ ~s1.mme_connected
      BY StackAssumption DEF StackInit, Init, StackQueues, StackThreads, S1Init
    <2> QED
      BY <2>1, NothingQuiet DEF AnswerInv, OneAnswer, Expected, QuietPush, Connected
  <1>2. AnswerInv => ConnectedOnAnswer
    BY DEF AnswerInv, Connected, ConnectedOnAnswer, IsInit
  <1>3. StackTypes /\ AnswerInv /\ [StackNext]_vars => AnswerInv'
    BY AnswerStep
  <1> QED
    BY <1>1, <1>2, <1>3, StackTypesInit, StackTypesStep, PTL DEF StackSpec
=============================================================================
