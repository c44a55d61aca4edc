------------------------------- MODULE S1Setup -------------------------------
(***************************************************************************)
(* The connection of the eNB to its MME: s1ap with s1_setup_proc_t, which   *)
(* runs in the stack thread.  A state of it is a record                    *)
(*   running           s1ap::running                                       *)
(*   mme_connected     s1ap::mme_connected                                 *)
(*   socket            the association s1ap_socket stands for, 0 if closed *)
(*   proc              "idle" or "on_going", from proc_base_t              *)
(*   s1setup_timeout, mme_connect_timer   whether the timers run           *)
(* Timer durations are abstracted: a running timer may expire at any TTI.  *)
(***************************************************************************)

S1Init == [running |-> TRUE, mme_connected |-> FALSE, socket |-> 0, proc |-> "idle",
           s1setup_timeout |-> FALSE, mme_connect_timer |-> FALSE]

IsInit(s) == s.socket # 0

(* A procedure that ends is idle again, and one that fails closes the socket. *)
Succeeds(s) == [s EXCEPT !.proc = "idle"]
Fails(s) == [s EXCEPT !.proc = "idle", !.socket = 0]

\* (faulty) without the reconnection timer
CannotConnectOnce(s) == Fails(s)

CannotConnect(s) == Fails([s EXCEPT !.mme_connect_timer = TRUE])

(* start_mme_connection up to the registration of the socket; the MME        *)
(* accepts the association a, or the connection cannot be made and a is 0.   *)
StartMmeConnection(s, a) ==
    CASE ~s.running -> Fails(s)
      [] s.running /\ s.mme_connected -> Succeeds(s)
      [] s.running /\ ~s.mme_connected /\ a = 0 -> CannotConnect(s)
      [] OTHER -> [s EXCEPT !.proc = "on_going", !.socket = a]

(* A procedure that is busy cannot be launched again. *)
Launch(s, a) == IF s.proc = "on_going" THEN s ELSE StartMmeConnection(s, a)

(* The rest of start_mme_connection, with the socket registered: the request is sent or not. *)
SetupS1(s, sent) == IF sent THEN [s EXCEPT !.s1setup_timeout = TRUE]
                            ELSE Fails([s EXCEPT !.running = FALSE])

(* s1setup_proc.trigger and react. *)
Trigger(s, success) ==
    IF s.proc # "on_going" THEN s
    ELSE LET stopped == [s EXCEPT !.s1setup_timeout = FALSE]
         IN  IF success THEN Succeeds(stopped) ELSE Fails(stopped)

S1SetupExpires(s) == Trigger([s EXCEPT !.s1setup_timeout = FALSE], FALSE)
MmeConnectExpires(s, a) == Launch([s EXCEPT !.mme_connect_timer = FALSE], a)

\* (faulty) still held for connected
LostStays(s) == s

Lost(s) == [s EXCEPT !.mme_connected = FALSE]

(* handle_mme_rx_msg: what came from the MME is "resp" or "fail" to the       *)
(* setup, the "shutdown" of the association, a read of no bytes ("empty"), or *)
(* an "other" message.                                                        *)
HandleMmeRx(s, kind, a) ==
    LET t == IF kind \in {"shutdown", "empty"} THEN [s EXCEPT !.socket = 0] ELSE s
    IN  CASE ~IsInit(t) -> Launch(Lost(t), a)
          [] IsInit(t) /\ kind = "resp" -> Trigger([t EXCEPT !.mme_connected = TRUE], TRUE)
          [] OTHER -> t

S1Stop(s) == [s EXCEPT !.running = FALSE, !.socket = 0]
=============================================================================
