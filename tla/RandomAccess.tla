----------------------------- MODULE RandomAccess -----------------------------
(***************************************************************************)
(* Random access of several UEs to one cell, from the preamble to the end  *)
(* of the contention: ra_proc of each UE (RaProc), the scheduler of RARs    *)
(* (RaSched), and the base station's MAC and RRC, which make a user of      *)
(* every preamble, hear Msg3 and answer it, and remove the user if nothing  *)
(* is heard.  TTIs are counted, as windows and RA-RNTIs depend on them; the *)
(* durations of timers and the HARQ of Msg3 and Msg4 are abstracted.  The   *)
(* air may lose every message.                                             *)
(*                                                                         *)
(* In a TTI the base station first schedules (under sched_mutex); then come *)
(* in any order the threads of both sides.  The next TTI comes when each    *)
(* thread has done what it does in every TTI.                               *)
(***************************************************************************)
EXTENDS RaProc, RaSched, FiniteSets

CONSTANTS Ue,             \* identities, also the contention resolution identity
          Preambles,      \* preambles a UE chooses from
          PrachPeriod,    \* TTIs between two PRACH opportunities
          RachDelay,      \* TTIs until a preamble was detected and its task has run, at most
          DecodeTtis,     \* TTIs a UE takes to decode a RAR, at most
          NofRnti         \* bound: C-RNTIs given out

Rnti == 1 .. NofRnti
NoUe == "none"

ASSUME RandomAccessAssumption ==
    /\ NoUe \notin Ue /\ NofTtis = SchedTtis /\ responseWindowSize = prach_rar_window
    /\ PrachPeriod \in Nat \ {0} /\ RachDelay \in Nat \ {0} /\ DecodeTtis \in Nat \ {0}
    /\ NofRnti \in Nat

VARIABLES tti,
          ra,             \* ra_proc of each UE
          decoding,       \* the RAR a UE's PHY worker has found and not yet handed on: {[tti, grants]}
          rar_grant,      \* the C-RNTI of the RAR grant the UE's PHY will use for Msg3, 0 if none
          prach,          \* preambles on the air: [tti, preamble, by]
          user,           \* eNB's user of each RNTI: "unused", "msg3_rx", "connected", "removed"
          of,             \* the preamble each RNTI is for: [preamble, by]
          conres_id,      \* ue::conres_id in the eNB's MAC
          rx_pdu_queue,   \* of the eNB's RRC: <<rnti, "srb0" or "rem_user">>
          msg3,           \* the UEs that send Msg3 on each RNTI
          msg4            \* RNTIs with a Msg4 to be sent

uevars == <<ra, decoding, rar_grant>>
enbvars == <<user, of, conres_id, rx_pdu_queue>>
airvars == <<prach, msg3, msg4>>
vars == <<tti, uevars, enbvars, airvars, rasvars>>

Init ==
    /\ RaSchedInit
    /\ tti = 0
    /\ ra = [u \in Ue |-> RaInit]
    /\ decoding = [u \in Ue |-> {}] /\ rar_grant = [u \in Ue |-> 0]
    /\ prach = {} /\ msg3 = [r \in Rnti |-> {}] /\ msg4 = {}
    /\ user = [r \in Rnti |-> "unused"]
    /\ of = [r \in Rnti |-> [preamble |-> 0, by |-> {}]]
    /\ conres_id = [r \in Rnti |-> NoUe]
    /\ rx_pdu_queue = <<>>

Age(t) == (tti - t) % NofTtis
Exists(r) == user[r] \in {"msg3_rx", "connected"}
Unused == {r \in Rnti : user[r] = "unused"}
RaBecomes(u, s) == ra' = [ra EXCEPT ![u] = s]
Enqueue(r, cmd) == rx_pdu_queue' = Append(rx_pdu_queue, <<r, cmd>>)

-----------------------------------------------------------------------------
(* UE: the stack thread.  It does nothing between a timer's mark and its callback. *)

(* sr_proc: the UE has something to send and no resource for it.  When, within *)
(* a PRACH period, makes no difference, and none starts that no RNTI is left for. *)
Start(u) ==
    /\ tti % PrachPeriod = 0
    /\ Cardinality(prach) + Cardinality({v \in Ue : ra[v].ra_tti = Pending}) < Cardinality(Unused)
    /\ ra[u].state = "IDLE" /\ ~ra[u].expiring
    /\ \E p \in Preambles : RaBecomes(u, StartMacOrder(ra[u], p))
    /\ UNCHANGED <<tti, decoding, rar_grant, enbvars, airvars, rasvars>>

TimerExpires(u) ==
    /\ ra[u].timer
    /\ RaBecomes(u, TimerMarked(ra[u]))
    /\ UNCHANGED <<tti, decoding, rar_grant, enbvars, airvars, rasvars>>

TimerCallback(u) ==
    /\ ra[u].expiring
    /\ \E p \in Preambles : RaBecomes(u, TimerExpired(ra[u], p))
    /\ UNCHANGED <<tti, decoding, rar_grant, enbvars, airvars, rasvars>>

(* RRC leaves the connection or the cell. *)
Reset(u) ==
    /\ ~ra[u].expiring /\ (ra[u].state # "IDLE" \/ ra[u].crnti # 0)
    /\ RaBecomes(u, MacReset(ra[u]))
    /\ UNCHANGED <<tti, decoding, rar_grant, enbvars, airvars, rasvars>>

(* UE: the PHY and its workers. *)

(* All that send a preamble in a TTI send one preamble to the base station. *)
SendPrach(u) ==
    /\ tti % PrachPeriod = 0 /\ ra[u].ra_tti = Pending
    /\ RaBecomes(u, [ra[u] EXCEPT !.ra_tti = tti])
    /\ LET same == {x \in prach : x.tti = tti /\ x.preamble = ra[u].preamble}
           by   == (UNION {x.by : x \in same}) \cup {u}
       IN  prach' = (prach \ same) \cup {[tti |-> tti, preamble |-> ra[u].preamble, by |-> by]}
    /\ UNCHANGED <<tti, decoding, rar_grant, enbvars, msg3, msg4, rasvars>>

(* A worker finds the PDCCH of a RAR with the UE's RA-RNTI. *)
Hears(u, rar) == ListensToRaRnti(ra[u], tti) /\ RaRnti(rar.prach_tti) = RaRnti(ra[u].ra_tti)

FindRar(u) ==
    /\ decoding[u] = {}
    /\ \E rar \in rar_allocs :
          /\ Hears(u, rar)
          /\ decoding' = [decoding EXCEPT ![u] = {[tti |-> tti, grants |-> rar.grants]}]
    /\ UNCHANGED <<tti, ra, rar_grant, enbvars, airvars, rasvars>>

(* The RAPIDs of the RAR that are sel_preamble. *)
ForMe(u, rar) == {r \in rar.grants : of[r].preamble = ra[u].preamble}

TbDecodedOk(u) ==
    /\ \E rar \in decoding[u] :
          IF ForMe(u, rar) = {} THEN UNCHANGED <<ra, rar_grant>>
          ELSE \E r \in ForMe(u, rar) : /\ RaBecomes(u, TakeRar(ra[u], r))
                                        /\ rar_grant' = [rar_grant EXCEPT ![u] = r]
    /\ decoding' = [decoding EXCEPT ![u] = {}]
    /\ UNCHANGED <<tti, enbvars, airvars, rasvars>>

SendMsg3(u) ==
    /\ rar_grant[u] # 0
    /\ RaBecomes(u, Msg3Get(ra[u]))
    /\ msg3' = IF ra[u].msg3 = "flushed" THEN msg3
               ELSE [msg3 EXCEPT ![rar_grant[u]] = @ \cup {u}]
    /\ rar_grant' = [rar_grant EXCEPT ![u] = 0]
    /\ UNCHANGED <<tti, decoding, enbvars, prach, msg4, rasvars>>

(* A NACK has Msg3 sent again. *)
HarqRetx(u) ==
    /\ ra[u].temp_rnti # 0 /\ u \in msg3[ra[u].temp_rnti]
    /\ RaBecomes(u, HarqRetxTimer(ra[u]))
    /\ UNCHANGED <<tti, decoding, rar_grant, enbvars, airvars, rasvars>>

(* Every transmission of Msg3 was answered by NACK. *)
HarqMaxRetx(u) ==
    /\ ra[u].temp_rnti # 0 /\ u \in msg3[ra[u].temp_rnti]
    /\ msg3' = [msg3 EXCEPT ![ra[u].temp_rnti] = @ \ {u}]
    /\ \E p \in Preambles : RaBecomes(u, ResponseError(ra[u], p))
    /\ UNCHANGED <<tti, decoding, rar_grant, enbvars, prach, msg4, rasvars>>

(* A worker decodes the Msg4 of the RNTI it listens to. *)
ContentionResolutionIdReceived(u) ==
    /\ ListensToTempRnti(ra[u]) /\ ra[u].temp_rnti \in msg4
    /\ \E p \in Preambles :
          RaBecomes(u, ContentionResolution(ra[u], conres_id[ra[u].temp_rnti] = u, p))
    /\ UNCHANGED <<tti, decoding, rar_grant, enbvars, airvars, rasvars>>

(* A UE that had a C-RNTI when it started gets an uplink grant for it. *)
PdcchReceived(u) ==
    /\ ra[u].state = "CONTENTION_RESOLUTION" /\ ra[u].crnti # 0 /\ user[ra[u].crnti] = "connected"
    /\ RaBecomes(u, PdcchToCrnti(ra[u]))
    /\ UNCHANGED <<tti, decoding, rar_grant, enbvars, airvars, rasvars>>

-----------------------------------------------------------------------------
(* eNB *)

(* allocate_rnti counts up; that it does not come round to a number in use *)
(* is assumed (it would after some 60000 preambles).                        *)
NextRnti == CHOOSE r \in Rnti : user[r] = "unused" /\ \A q \in 1 .. r - 1 : user[q] # "unused"

(* rach_detected and the task it gives to the stack thread, of which nobody  *)
(* sees the half: the user is added to MAC, scheduler and RRC, and the RAR   *)
(* is ordered.                                                              *)
RachDetected ==
    /\ Unused # {}
    /\ \E x \in prach :
          /\ x.tti # tti
          /\ prach' = prach \ {x}
          /\ user' = [user EXCEPT ![NextRnti] = "msg3_rx"]
          /\ of' = [of EXCEPT ![NextRnti] = [preamble |-> x.preamble, by |-> x.by]]
          /\ DlRachInfo(x.tti, NextRnti)
    /\ UNCHANGED <<tti, uevars, conres_id, rx_pdu_queue, msg3, msg4, rar_allocs, scheduled>>

PrachMissed ==
    /\ \E x \in prach : x.tti # tti /\ prach' = prach \ {x}
    /\ UNCHANGED <<tti, uevars, enbvars, msg3, msg4, rasvars>>

DlSchedule == DlSched(tti) /\ UNCHANGED <<tti, uevars, enbvars, airvars>>

(* All that were given a RNTI send in the same TTI, and one of them at most is *)
(* decoded: then a connection request goes to RRC, and a C-RNTI of a user      *)
(* that exists has RRC remove the temporary one (ue::process_ce, upd_user).    *)
HoldsGrant(u, r) == rar_grant[u] = r \/ \E rar \in decoding[u] : r \in rar.grants
AllHaveSent(r) == /\ \A rar \in rar_allocs : r \notin rar.grants
                  /\ \A u \in Ue : ~HoldsGrant(u, r)

Msg3Decoded(r, u) ==
    /\ u \in msg3[r] /\ AllHaveSent(r) /\ Exists(r)
    /\ msg3' = [msg3 EXCEPT ![r] = {}]
    /\ \/ /\ ra[u].transmitted_crnti = 0
          /\ conres_id' = [conres_id EXCEPT ![r] = u]
          /\ Enqueue(r, "srb0")
       \/ /\ ra[u].transmitted_crnti # 0 /\ Exists(ra[u].transmitted_crnti)
          /\ Enqueue(r, "rem_user")
          /\ UNCHANGED conres_id
    /\ UNCHANGED <<tti, uevars, user, of, prach, msg4, rasvars>>

(* Msg3 is given up, or names a C-RNTI that is no more. *)
Msg3Lost(r) ==
    /\ msg3[r] # {} /\ AllHaveSent(r)
    /\ msg3' = [msg3 EXCEPT ![r] = {}]
    /\ UNCHANGED <<tti, uevars, enbvars, prach, msg4, rasvars>>

(* rrc::tti_clock takes an entry: the request is answered by Msg4, with the  *)
(* identity the MAC has kept, and the timer is now that of inactivity.       *)
RrcTtiClock ==
    /\ rx_pdu_queue # <<>>
    /\ rx_pdu_queue' = Tail(rx_pdu_queue)
    /\ LET r == Head(rx_pdu_queue)[1]
       IN  \/ ~Exists(r) /\ UNCHANGED <<user, msg4>>
           \/ /\ Exists(r) /\ Head(rx_pdu_queue)[2] = "srb0"
              /\ user' = [user EXCEPT ![r] = "connected"] /\ msg4' = msg4 \cup {r}
           \/ /\ Exists(r) /\ Head(rx_pdu_queue)[2] = "rem_user"
              /\ user' = [user EXCEPT ![r] = "removed"] /\ msg4' = msg4 \ {r}
    /\ UNCHANGED <<tti, uevars, of, conres_id, prach, msg3, rasvars>>

(* activity_timer with MSG3_RX_TIMEOUT: no request was taken in that time, *)
(* though one may be in the queue.  Inactivity of users is not modelled.    *)
ActivityTimerExpires(r) ==
    /\ user[r] = "msg3_rx" /\ <<r, "rem_user">> \notin {rx_pdu_queue[i] : i \in DOMAIN rx_pdu_queue}
    /\ Enqueue(r, "rem_user")
    /\ UNCHANGED <<tti, uevars, user, of, conres_id, airvars, rasvars>>

(* HARQ gives up a Msg4 or has it acknowledged. *)
Msg4Ends(r) ==
    /\ r \in msg4 /\ msg4' = msg4 \ {r}
    /\ UNCHANGED <<tti, uevars, enbvars, prach, msg3, rasvars>>

-----------------------------------------------------------------------------
(* The next TTI: preambles are sent in theirs, Msg3 of all that were given a *)
(* RNTI is heard or lost at once, RRC's queue is drained, what has its time   *)
(* has not been longer, and each UE's ra_proc takes its step.                 *)
NextTti ==
    /\ scheduled /\ rx_pdu_queue = <<>>
    /\ \A r \in Rnti : msg3[r] # {} => ~AllHaveSent(r)
    /\ \A x \in prach : Age(x.tti) < RachDelay
    /\ \A u \in Ue : /\ ~ra[u].expiring /\ rar_grant[u] = 0
                     /\ tti % PrachPeriod = 0 => ra[u].ra_tti # Pending
                     /\ \A rar \in decoding[u] : Age(rar.tti) + 1 < DecodeTtis
    /\ tti' = (tti + 1) % NofTtis
    /\ \E p \in [Ue -> Preambles] : ra' = [u \in Ue |-> RaStep(ra[u], tti, p[u])]
    /\ NextResult
    /\ UNCHANGED <<decoding, rar_grant, enbvars, airvars>>

UeNext(u) ==
    \/ Start(u) \/ TimerExpires(u) \/ TimerCallback(u) \/ Reset(u)
    \/ SendPrach(u) \/ FindRar(u) \/ TbDecodedOk(u) \/ SendMsg3(u) \/ HarqRetx(u) \/ HarqMaxRetx(u)
    \/ ContentionResolutionIdReceived(u) \/ PdcchReceived(u)

EnbNext ==
    \/ RachDetected \/ PrachMissed \/ RrcTtiClock
    \/ \E r \in Rnti : ActivityTimerExpires(r) \/ Msg4Ends(r) \/ Msg3Lost(r)
                       \/ \E u \in Ue : Msg3Decoded(r, u)

Next ==
    \/ DlSchedule
    \/ NextTti
    \/ scheduled /\ EnbNext
    \/ scheduled /\ \E u \in Ue : UeNext(u)

Spec == Init /\ [][Next]_vars

-----------------------------------------------------------------------------
(* No RAR is kept past its window, also not behind others or after a part of *)
(* its grants was sent: a UE that sent its preamble a cycle later would take  *)
(* it (ra_sched::dl_sched).                                                  *)
RarInTime ==
    scheduled => \A i \in DOMAIN pending_rars :
                    Age(pending_rars[i].prach_tti) <= PRACH_RAR_OFFSET + prach_rar_window

(* The RAR that a UE hears answers the last preamble it sent, and none that it   *)
(* or another UE sent before, although RA-RNTIs come back every NofRaRnti TTIs,  *)
(* a RAR waits for room, the windows of both sides differ, and the UE may have    *)
(* given up an attempt and begun anew (mac::is_in_window, ra_sched::dl_sched).    *)
RarIsAnswer ==
    \A u \in Ue : \A rar \in rar_allocs : Hears(u, rar) =>
        /\ rar.prach_tti = ra[u].ra_tti
        /\ \A r \in rar.grants : of[r].preamble = ra[u].preamble => u \in of[r].by

(* No two UEs have the same C-RNTI, whoever heard the same RAR, however late it *)
(* was decoded and whatever became of Msg3 and Msg4                             *)
(* (ra_proc::contention_resolution_id_received, ue::process_pdu).               *)
OneUePerRnti == \A u, v \in Ue : ra[u].crnti # 0 /\ ra[u].crnti = ra[v].crnti => u = v

(* A UE that waits for the end of the contention is never without an end in    *)
(* sight: the timer runs or has expired, or it will be started because Msg3    *)
(* was sent or has its grant (ra_proc::state_contention_resolution, mux).      *)
ContentionEnds ==
    \A u \in Ue : ra[u].state = "CONTENTION_RESOLUTION" =>
        \/ ra[u].timer \/ ra[u].expiring \/ ra[u].msg3 = "transmitted"
        \/ ra[u].msg3 = "pending" /\ rar_grant[u] # 0
=============================================================================
