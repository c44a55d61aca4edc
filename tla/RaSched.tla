------------------------------- MODULE RaSched --------------------------------
(***************************************************************************)
(* The base station's scheduling of random-access responses: ra_sched, run  *)
(* once per downlink TTI with sched_mutex held, after the broadcast and     *)
(* before the users.  Each pass of its loop is an action.                   *)
(***************************************************************************)
EXTENDS Integers, Sequences

CONSTANTS prach_rar_window,   \* cell_cfg_t::prach_rar_window
          NoRoom,             \* the TTIs in which the PRBs may be taken by others
          SchedTtis           \* TTIs to a cycle: 10240

ASSUME RaSchedAssumption ==
    prach_rar_window \in Nat \ {0} /\ SchedTtis \in Nat \ {0} /\ NoRoom \subseteq 0 .. SchedTtis - 1

PRACH_RAR_OFFSET == 3

VARIABLES pending_rars,   \* the RARs to send: [prach_tti, grants], grants by their temporary C-RNTIs
          rar_allocs,     \* the RARs sent in this TTI
          scheduled       \* the TTI has been scheduled

rasvars == <<pending_rars, rar_allocs, scheduled>>

RaSchedInit == pending_rars = <<>> /\ rar_allocs = {} /\ scheduled = FALSE

-----------------------------------------------------------------------------
\* (faulty) the newest in front
DlRachInfoFirst(prach_tti, rnti) ==
    pending_rars' = <<[prach_tti |-> prach_tti, grants |-> {rnti}]>> \o pending_rars

(* dl_rach_info: the preambles of one PRACH are answered together. *)
DlRachInfo(prach_tti, rnti) ==
    LET same == {i \in DOMAIN pending_rars : pending_rars[i].prach_tti = prach_tti}
    IN  \/ /\ same = {}
           /\ pending_rars' = Append(pending_rars, [prach_tti |-> prach_tti, grants |-> {rnti}])
        \/ \E i \in same :
              /\ \A j \in same : i <= j
              /\ pending_rars' = [pending_rars EXCEPT ![i].grants = @ \cup {rnti}]

-----------------------------------------------------------------------------
(* sched_utils::is_in_tti_interval. *)
IsInTtiInterval(tti, tti1, tti2) ==
    LET t1 == tti1 % SchedTtis
        t2 == tti2 % SchedTtis
    IN  IF t1 <= t2 THEN t1 <= tti /\ tti <= t2 ELSE tti >= t1 \/ tti <= t2

WindowStart(rar) == rar.prach_tti + PRACH_RAR_OFFSET

\* (faulty) the window is counted from the TTI after its first
WindowEndLate(rar) == WindowStart(rar) + prach_rar_window + 1

WindowEnd(rar) == WindowStart(rar) + prach_rar_window
InWindow(rar, tti) == IsInTtiInterval(tti, WindowStart(rar), WindowEnd(rar))

(* Without the modulo of the interval: not of a window that straddles the end of the cycle. *)
PastWindow(rar, tti) == tti >= WindowEnd(rar)

Front == Head(pending_rars)

Discard(tti) ==
    /\ ~scheduled /\ pending_rars # <<>>
    /\ ~InWindow(Front, tti) /\ PastWindow(Front, tti)
    /\ pending_rars' = Tail(pending_rars)
    /\ UNCHANGED <<rar_allocs, scheduled>>

(* alloc_rar: all grants, or some if there is no room for all their Msg3; in *)
(* which order they are kept is not modelled.  The others stay to be sent.    *)
AllocRar(tti) ==
    /\ ~scheduled /\ pending_rars # <<>>
    /\ InWindow(Front, tti)
    /\ \E sent \in (SUBSET Front.grants) \ {{}} :
          /\ sent # Front.grants => tti \in NoRoom
          /\ rar_allocs' = rar_allocs \cup {[prach_tti |-> Front.prach_tti, grants |-> sent]}
          /\ pending_rars' = IF sent = Front.grants THEN Tail(pending_rars)
                             ELSE [pending_rars EXCEPT ![1].grants = @ \ sent]
    /\ UNCHANGED scheduled

(* Nothing more in this TTI: no RAR, one whose window has not begun, or no PRBs. *)
NoMoreRars(tti) ==
    /\ ~scheduled
    /\ pending_rars # <<>> => \/ InWindow(Front, tti) /\ tti \in NoRoom
                              \/ ~InWindow(Front, tti) /\ ~PastWindow(Front, tti)
    /\ scheduled' = TRUE
    /\ UNCHANGED <<pending_rars, rar_allocs>>

DlSched(tti) == Discard(tti) \/ AllocRar(tti) \/ NoMoreRars(tti)

(* sched_result of the next TTI. *)
NextResult == rar_allocs' = {} /\ scheduled' = FALSE /\ UNCHANGED pending_rars
=============================================================================
