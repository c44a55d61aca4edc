------------------------------- MODULE EnbStack -------------------------------
(***************************************************************************)
(* The threads of the eNB's stack: the stack thread that runs tasks        *)
(* (enb_stack_lte), the thread that reads the sockets of the MME and of    *)
(* GTP-U (rx_multisocket_handler), the PHY thread that ticks, and the main *)
(* thread that stops them, with the task queues between them, the mutex    *)
(* of the socket thread, and the MME and the kernel around.               *)
(***************************************************************************)
EXTENDS BlockingQueues, S1Setup, FiniteSets

CONSTANTS Associations,   \* identities of SCTP associations, reused cyclically: 1 .. n
          MmeFails,       \* what an MME does wrong: "refuses" a setup, stays "silent", "leaves" before it
                          \* answers, or "breaks" the association, which is then read as no bytes
          Failing,        \* the associations on which the MME refuses, leaves or breaks
          Overload        \* GTP-U packets keep coming while their queue is full

StackThreads == {"sock", "phy", "main"}
StackQueues == {"sync", "mme", "gtpu", "enb"}
Message == {"resp", "fail", "shutdown", "empty", "other"} \X Associations
StackTask == {"tti", "packet", "stop"} \cup Message

ASSUME StackAssumption ==
    /\ Threads = StackThreads /\ Queues = StackQueues
    /\ IsFiniteSet(Associations) /\ Associations # {}
    /\ Associations = 1 .. Cardinality(Associations)

VARIABLES s1,          \* s1ap and its setup procedure
          stack_pc,    \* what the stack thread is doing
          main_pc,     \* "run", "stop" while enb::stop runs, "ended"
          sock_pc,     \* "loop", "select", "serve" and "remove" with socket_mutex held, "exited"
          todo,        \* what the last select found readable and is still to be served
          active_sockets, total_fd_set, pipefd,   \* of the socket thread
          rxq,         \* in the kernel: messages of the open association, not yet read
          gtpu_rx,     \* in the kernel: a GTP-U packet waits
          mme,         \* the MME's view: "none", "up", "asked" or "ready"
          last,        \* the association opened last
          answered     \* the association whose S1SetupResponse was handled last

socketvars == <<sock_pc, todo, active_sockets, total_fd_set, pipefd>>
mmevars == <<rxq, mme, last>>
stackvars == <<s1, stack_pc, main_pc, answered>>
vars == <<bqvars, stackvars, socketvars, mmevars, gtpu_rx>>

StackInit ==
    /\ Init
    /\ s1 = S1Init
    /\ stack_pc = "launch" /\ main_pc = "run"
    /\ sock_pc = "loop" /\ todo = {}
    /\ active_sockets = {} /\ total_fd_set = {} /\ pipefd = <<>>
    /\ rxq = <<>> /\ gtpu_rx = FALSE /\ mme = "none" /\ last = 0 /\ answered = 0

(* socket_mutex is held by the socket thread from select's return to the next select. *)
SocketMutexFree == sock_pc \notin {"serve", "remove"}

(* close() and reopening: the kernel drops what was not read; the descriptor *)
(* of the MME socket is the lowest free one, the same each time.             *)
OpenFds == {"gtpu"} \cup (IF IsInit(s1) THEN {"mme"} ELSE {})
Readable == {fd \in OpenFds : IF fd = "mme" THEN rxq # <<>> ELSE gtpu_rx}
NextAssociation == (last % Cardinality(Associations)) + 1

-----------------------------------------------------------------------------
(* The stack thread takes on the state t of s1ap; a new association, which   *)
(* has still to be registered, is the one case in which the task is not over.*)
TaskOver == IF "gtpu" \in active_sockets THEN "idle" ELSE "init"
S1Becomes(t) ==
    LET opened == t.proc = "on_going" /\ s1.proc = "idle"
        closed == t.socket = 0 /\ s1.socket # 0
    IN  /\ s1' = t
        /\ stack_pc' = IF opened THEN "add" ELSE TaskOver
        /\ last' = IF opened THEN t.socket ELSE last
        /\ mme' = CASE opened -> "up" [] closed /\ ~opened -> "none" [] OTHER -> mme
        /\ rxq' = IF opened \/ closed THEN <<>> ELSE rxq

(* s1ap::init launches the procedure and gtpu::init registers its socket before *)
(* the stack thread starts: they are its first steps here.                      *)
InitialLaunch ==
    /\ stack_pc = "launch"
    /\ \E a \in {0, NextAssociation} : S1Becomes(Launch(s1, a))
    /\ UNCHANGED <<bqvars, socketvars, gtpu_rx, main_pc, answered>>

\* (faulty) the reading thread is not told
AddSocketHandlerSilent(fd) ==
    /\ SocketMutexFree
    /\ active_sockets' = active_sockets \cup {fd}
    /\ UNCHANGED pipefd

(* connect_mme registers the socket, waiting for the mutex, and setup_s1 sends the request. *)
AddSocketHandler(fd) ==
    /\ SocketMutexFree
    /\ IF fd \in active_sockets
       THEN UNCHANGED <<active_sockets, pipefd>>
       ELSE /\ active_sockets' = active_sockets \cup {fd}
            /\ pipefd' = Append(pipefd, fd)

AddMmeSocket ==
    /\ stack_pc = "add" /\ AddSocketHandler("mme")
    /\ LET sent == mme = "up"
       IN  /\ s1' = SetupS1(s1, sent)
           /\ mme' = IF sent THEN "asked" ELSE mme
           /\ rxq' = IF sent THEN rxq ELSE <<>>
    /\ stack_pc' = TaskOver
    /\ UNCHANGED <<bqvars, sock_pc, todo, total_fd_set, gtpu_rx, main_pc, last, answered>>

AddGtpuSocket ==
    /\ stack_pc = "init" /\ AddSocketHandler("gtpu")
    /\ stack_pc' = "idle"
    /\ UNCHANGED <<bqvars, s1, main_pc, answered, sock_pc, todo, total_fd_set, mmevars, gtpu_rx>>

RunMmeTask ==
    /\ stack_pc = "idle" /\ Take("mme")
    /\ LET msg == Head(buf["mme"])
       IN  /\ \E a \in {0, NextAssociation} : S1Becomes(HandleMmeRx(s1, msg[1], a))
           /\ answered' = IF IsInit(s1) /\ msg[1] = "resp" THEN msg[2] ELSE answered
    /\ UNCHANGED <<socketvars, gtpu_rx, main_pc>>

RunGtpuTask ==
    /\ stack_pc = "idle" /\ Take("gtpu")
    /\ UNCHANGED <<stackvars, socketvars, mmevars, gtpu_rx>>

(* tti_clock_impl steps the timers: at most one of s1ap's expires in a TTI. *)
(* The five seconds for the setup pass only if the MME is silent, or no answer is on its way: *)
(* in the kernel, in a push that blocks, or in the queue.                                     *)
Blocked(t, q) == pending[t] # <<>> /\ pending[t][1] = q
BlockedMessage == IF Blocked("sock", "mme") THEN {pending["sock"][2]} ELSE {}
InFlight == {msg[1] : msg \in BlockedMessage \cup {rxq[i] : i \in DOMAIN rxq}
                              \cup {buf["mme"][i] : i \in DOMAIN buf["mme"]}}
Late == "silent" \in MmeFails \/ (mme # "asked" /\ "resp" \notin InFlight)
NoTimer == UNCHANGED <<s1, stack_pc, mmevars>>
RunTtiTask ==
    /\ stack_pc = "idle" /\ Take("sync")
    /\ \/ NoTimer
       \/ s1.s1setup_timeout /\ Late /\ S1Becomes(S1SetupExpires(s1))
       \/ s1.mme_connect_timer /\ \E a \in {0, NextAssociation} : S1Becomes(MmeConnectExpires(s1, a))
    /\ UNCHANGED <<socketvars, gtpu_rx, main_pc, answered>>

(* stop_impl: rx_sockets->stop() writes EXIT under the mutex and joins the    *)
(* socket thread, then the layers stop and the queues are reset.             *)
RunStopTask ==
    /\ stack_pc = "idle" /\ Take("enb")
    /\ stack_pc' = "stop"
    /\ UNCHANGED <<s1, main_pc, answered, socketvars, mmevars, gtpu_rx>>

\* (faulty) the socket thread is joined without being told
WriteExitSilent ==
    /\ stack_pc = "stop" /\ SocketMutexFree
    /\ stack_pc' = "join"
    /\ UNCHANGED <<bqvars, s1, main_pc, answered, socketvars, mmevars, gtpu_rx>>

WriteExit ==
    /\ stack_pc = "stop" /\ SocketMutexFree
    /\ pipefd' = Append(pipefd, "exit")
    /\ stack_pc' = "join"
    /\ UNCHANGED <<bqvars, s1, main_pc, answered, sock_pc, todo, active_sockets, total_fd_set, mmevars, gtpu_rx>>

StopLayers ==
    /\ stack_pc = "join" /\ sock_pc = "exited"
    /\ s1' = S1Stop(s1)
    /\ rxq' = <<>> /\ mme' = "none"
    /\ Stop
    /\ stack_pc' = "reset"
    /\ UNCHANGED <<main_pc, answered, socketvars, last, gtpu_rx>>

ResetQueues ==
    /\ stack_pc = "reset" /\ Clear
    /\ stack_pc' = "ended"
    /\ UNCHANGED <<s1, main_pc, answered, socketvars, mmevars, gtpu_rx>>

-----------------------------------------------------------------------------
(* The socket thread.  select() fails at once if a descriptor of its set is   *)
(* closed, and the loop starts again; one closed later does not end it.      *)
Select ==
    /\ sock_pc = "loop" /\ total_fd_set \subseteq OpenFds
    /\ sock_pc' = "select"
    /\ UNCHANGED <<bqvars, stackvars, todo, active_sockets, total_fd_set, pipefd, mmevars, gtpu_rx>>

SelectReturns ==
    /\ sock_pc = "select"
    /\ todo' = (Readable \cap total_fd_set) \cup (IF pipefd # <<>> THEN {"pipe"} ELSE {})
    /\ todo' # {}
    /\ sock_pc' = "serve"
    /\ UNCHANGED <<bqvars, stackvars, active_sockets, total_fd_set, pipefd, mmevars, gtpu_rx>>

(* A callback pushes what it read into a task queue and may block there. *)
HandsOn(q, x) == Put("sock", q, x) \/ Block("sock", q, x)

ToServe == todo \cap active_sockets

\* (faulty) taken out of the set of select only
ActiveAfterCleared(fds) == active_sockets

(* remove_socket_unprotected. *)
ActiveAfter(fds) == active_sockets \ fds

(* The read of a descriptor closed since fails; one with nothing to read waits. *)
ServeMme ==
    /\ sock_pc = "serve" /\ pending["sock"] = <<>> /\ "mme" \in ToServe
    /\ todo' = todo \ {"mme"}
    /\ \/ /\ ~IsInit(s1)
          /\ UNCHANGED <<bqvars, rxq, sock_pc>>
       \/ /\ IsInit(s1) /\ rxq # <<>>
          /\ rxq' = Tail(rxq)
          /\ HandsOn("mme", Head(rxq))
          /\ sock_pc' = IF Head(rxq)[1] = "shutdown" THEN "remove" ELSE "serve"
    /\ UNCHANGED <<stackvars, active_sockets, total_fd_set, pipefd, mme, last, gtpu_rx>>

(* The callback has returned false.  The entry is erased under the loop that   *)
(* stands on it, which goes on behind it or ends (undefined behaviour).        *)
RemoveMme ==
    /\ sock_pc = "remove" /\ pending["sock"] = <<>>
    /\ active_sockets' = ActiveAfter({"mme"})
    /\ total_fd_set' = total_fd_set \ {"mme"}
    /\ todo' \in {todo, todo \cap {"pipe"}}
    /\ sock_pc' = "serve"
    /\ UNCHANGED <<bqvars, stackvars, pipefd, mmevars, gtpu_rx>>

ServeGtpu ==
    /\ sock_pc = "serve" /\ pending["sock"] = <<>> /\ ToServe = {"gtpu"}
    /\ todo' = todo \ {"gtpu"}
    /\ gtpu_rx' = FALSE
    /\ HandsOn("gtpu", "packet")
    /\ UNCHANGED <<stackvars, sock_pc, active_sockets, total_fd_set, pipefd, mmevars>>

(* One control message, after the sockets; then select again. *)
ServePipe ==
    /\ sock_pc = "serve" /\ pending["sock"] = <<>> /\ ToServe = {}
    /\ todo' = {}
    /\ IF "pipe" \notin todo
       THEN /\ sock_pc' = "loop" /\ UNCHANGED <<pipefd, total_fd_set>>
       ELSE /\ pipefd' = Tail(pipefd)
            /\ IF Head(pipefd) = "exit"
               THEN sock_pc' = "exited" /\ UNCHANGED total_fd_set
               ELSE sock_pc' = "loop" /\ total_fd_set' = total_fd_set \cup {Head(pipefd)}
    /\ UNCHANGED <<bqvars, stackvars, active_sockets, mmevars, gtpu_rx>>

-----------------------------------------------------------------------------
(* enb::stop stops the PHY first: the thread that ticks is then out of its push. *)
PhyTick ==
    /\ main_pc = "run" /\ "gtpu" \in active_sockets
    /\ Put("phy", "sync", "tti") \/ Block("phy", "sync", "tti")
    /\ UNCHANGED <<stackvars, socketvars, mmevars, gtpu_rx>>

StopEnb ==
    /\ main_pc = "run" /\ "gtpu" \in active_sockets /\ pending["phy"] = <<>>
    /\ Put("main", "enb", "stop")
    /\ main_pc' = "stop"
    /\ UNCHANGED <<s1, stack_pc, answered, socketvars, mmevars, gtpu_rx>>

JoinStack ==
    /\ main_pc = "stop" /\ stack_pc = "ended"
    /\ main_pc' = "ended"
    /\ UNCHANGED <<bqvars, s1, stack_pc, answered, socketvars, mmevars, gtpu_rx>>

(* A push that blocked goes on, or ends because the queues were stopped. *)
Unblock(t) ==
    /\ Accept(t) \/ Drop(t)
    /\ UNCHANGED <<stackvars, socketvars, mmevars, gtpu_rx>>

-----------------------------------------------------------------------------
(* The MME and the network. *)
MmeMay(what) == what \in MmeFails /\ s1.socket \in Failing
MmeSends(kind) == rxq' = Append(rxq, <<kind, s1.socket>>)

MmeAnswers ==
    /\ mme = "asked"
    /\ \/ MmeSends("resp") /\ mme' = "ready"
       \/ MmeMay("refuses") /\ MmeSends("fail") /\ mme' = "up"
    /\ UNCHANGED <<bqvars, stackvars, socketvars, last, gtpu_rx>>

MmeMessage ==
    /\ mme = "ready" /\ rxq = <<>>
    /\ Overload \/ Len(buf["mme"]) + 2 < Capacity["mme"]
    /\ MmeSends("other")
    /\ UNCHANGED <<bqvars, stackvars, socketvars, mme, last, gtpu_rx>>

MmeShutdown ==
    /\ mme = "ready" \/ (MmeMay("leaves") /\ mme \in {"up", "asked"})
    /\ MmeSends("shutdown") \/ (MmeMay("breaks") /\ MmeSends("empty"))
    /\ mme' = "none"
    /\ UNCHANGED <<bqvars, stackvars, socketvars, last, gtpu_rx>>

GtpuPacket ==
    /\ ~gtpu_rx /\ "gtpu" \in active_sockets /\ main_pc # "ended"
    /\ Overload \/ Len(buf["gtpu"]) + 1 < Capacity["gtpu"]
    /\ gtpu_rx' = TRUE
    /\ UNCHANGED <<bqvars, stackvars, socketvars, mmevars>>

-----------------------------------------------------------------------------
StackThread == \/ AddMmeSocket \/ AddGtpuSocket \/ RunStopTask \/ WriteExit \/ StopLayers \/ ResetQueues
SocketThread == Select \/ SelectReturns \/ ServeMme \/ RemoveMme \/ ServeGtpu \/ ServePipe \/ Unblock("sock")

StackNext ==
    \/ InitialLaunch \/ StackThread \/ RunMmeTask \/ RunGtpuTask \/ RunTtiTask
    \/ SocketThread
    \/ PhyTick \/ StopEnb \/ JoinStack \/ Unblock("phy")
    \/ MmeAnswers \/ MmeMessage \/ MmeShutdown \/ GtpuPacket

(***************************************************************************)
(* Every thread goes on when it can.  The queues are served in turn        *)
(* (BlockingQueues), PHY ticks come, a timer that runs expires, the MME    *)
(* answers, and it can be reached if it is tried again and again.          *)
(***************************************************************************)
Reaches == s1'.socket # 0
StackFairness ==
    /\ WF_vars(InitialLaunch) /\ WF_vars(StackThread) /\ WF_vars(SocketThread)
    /\ SF_vars(RunMmeTask) /\ SF_vars(RunGtpuTask) /\ SF_vars(RunTtiTask) /\ SF_vars(RunStopTask)
    /\ WF_vars(Unblock("phy"))
    /\ WF_vars(PhyTick) /\ WF_vars(JoinStack) /\ WF_vars(MmeAnswers)
    /\ SF_vars(RunTtiTask /\ ~s1'.s1setup_timeout /\ s1.s1setup_timeout)
    /\ SF_vars(RunTtiTask /\ s1.mme_connect_timer /\ ~IsInit(s1) /\ Reaches)
    /\ SF_vars(InitialLaunch /\ Reaches)

StackSpec == StackInit /\ [][StackNext]_vars /\ StackFairness

-----------------------------------------------------------------------------
StackTypeOK ==
    /\ running \in BOOLEAN /\ gtpu_rx \in BOOLEAN
    /\ buf \in [StackQueues -> Seq(StackTask)]
    /\ \A q \in StackQueues : Len(buf[q]) <= Capacity[q]
    /\ s1.socket \in Associations \cup {0} /\ s1.proc \in {"idle", "on_going"}
    /\ stack_pc \in {"launch", "init", "idle", "add", "stop", "join", "reset", "ended"}
    /\ main_pc \in {"run", "stop", "ended"}
    /\ sock_pc \in {"loop", "select", "serve", "remove", "exited"}
    /\ active_sockets \subseteq {"mme", "gtpu"} /\ total_fd_set \subseteq {"mme", "gtpu"}
    /\ mme \in {"none", "up", "asked", "ready"}
    /\ last \in Associations \cup {0} /\ answered \in Associations \cup {0}

(* As long as S1AP holds itself connected, it is connected by the association *)
(* whose S1SetupResponse it handled, and not by one that was opened since:    *)
(* messages of an association that is gone are still in mme_task_queue.       *)
ConnectedOnAnswer == s1.running /\ s1.mme_connected => IsInit(s1) /\ s1.socket = answered

(* Once the request was sent on an association, and until the MME shuts it    *)
(* down, the socket thread has its descriptor in the set of its select, or    *)
(* will put it there: also when the same descriptor was registered and taken *)
(* out for an earlier association (add_socket_handler, s1ap::connect_mme).   *)
AssociationIsRead == s1.running /\ mme \in {"asked", "ready"} =>
    "mme" \in active_sockets /\ ("mme" \in total_fd_set \/ "mme" \in {pipefd[i] : i \in DOMAIN pipefd})

(* Whenever the connection to the MME is lost, it is set up again, also when  *)
(* the MME cannot be reached for a while (s1ap::handle_mme_rx_msg).           *)
Reconnects == s1.running /\ ~s1.mme_connected ~> (s1.mme_connected \/ ~s1.running \/ main_pc # "run")

(* What stops the socket thread for ever: select fails on a descriptor of its  *)
(* set that was closed, and a read of a socket opened since select returned    *)
(* waits with socket_mutex, which the stack thread needs to use this socket.   *)
ReadWaits == sock_pc = "serve" /\ "mme" \in ToServe /\ IsInit(s1) /\ rxq = <<>>
SocketThreadGoesOn == []<>(total_fd_set \subseteq OpenFds /\ ~ReadWaits)

(* The same as far as it goes: an eNB whose association is gone starts to       *)
(* connect again, and one that starts, whose setup is under way or whose timer *)
(* for the next one runs, is connected in the end, unless an MME has refused   *)
(* this setup or left it without an answer, which nothing tries again          *)
(* (s1_setup_proc_t::then), or the socket thread is stopped for ever.          *)
Connecting == stack_pc = "launch" \/ s1.proc = "on_going" \/ s1.mme_connect_timer
SetupFailed == s1.s1setup_timeout /\ Late
Stopping == ~s1.running \/ main_pc # "run"
ConnectsAgain ==
    SocketThreadGoesOn =>
        /\ s1.mme_connected /\ mme = "none" ~> (Connecting \/ Stopping)
        /\ Connecting ~> (s1.mme_connected \/ SetupFailed \/ Stopping)

(* A GTP-U packet is read whatever else the same thread and the same select    *)
(* serve, unless the thread is stopped for ever (rx_multisocket_handler).      *)
SocketServed == SocketThreadGoesOn => (gtpu_rx ~> (~gtpu_rx \/ main_pc # "run"))

(* The eNB can be stopped: enb::stop and what it waits for come to an end, and *)
(* nobody is left waiting for anybody, unless the socket thread, which         *)
(* enb_stack_lte::stop_impl joins, is stopped for ever.                        *)
EnbStopEnds == SocketThreadGoesOn => (main_pc = "stop" ~> main_pc = "ended")
=============================================================================
