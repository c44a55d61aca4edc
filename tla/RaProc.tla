-------------------------------- MODULE RaProc --------------------------------
(***************************************************************************)
(* The random-access procedure of the UE's MAC: ra_proc, with the part of   *)
(* the multiplexing unit that keeps Msg3 and the C-RNTIs the MAC listens    *)
(* to.  A UE's state is a record                                           *)
(*   state      ra_proc::state                                             *)
(*   preamble   sel_preamble                                               *)
(*   tries      preambleTransmissionCounter                                *)
(*   ra_tti     the TTI the preamble was sent in, or Pending while the PHY  *)
(*              has it and has not sent it                                 *)
(*   temp_rnti, crnti, transmitted_crnti     0 is none                     *)
(*   msg3       "flushed", "pending" or "transmitted", from mux            *)
(*   stored     the Msg3 buffer is filled: a retry sends the same Msg3     *)
(*   timer      contention_resolution_timer runs                           *)
(*   expiring   it was marked expired and its callback is still to run     *)
(* Several threads use it without a lock: the stack thread (step, timers),  *)
(* and the PHY workers (tb_decoded_ok and the two ends of the contention).  *)
(***************************************************************************)
EXTENDS Integers

CONSTANTS NofTtis,              \* TTIs to a cycle: 10240
          NofRaRnti,            \* RA-RNTIs of a cell: 10
          responseWindowSize,
          preambleTransMax

ASSUME RaProcAssumption ==
    /\ NofTtis \in Nat \ {0} /\ NofRaRnti \in Nat \ {0}
    /\ responseWindowSize \in Nat \ {0} /\ responseWindowSize + 5 < NofTtis
    /\ preambleTransMax \in Nat \ {0}

Pending == -1
RaRnti(t) == 1 + (t % NofRaRnti)

RaInit == [state |-> "IDLE", preamble |-> 0, tries |-> 0, ra_tti |-> 0,
           temp_rnti |-> 0, crnti |-> 0, transmitted_crnti |-> 0,
           msg3 |-> "flushed", stored |-> FALSE, timer |-> FALSE, expiring |-> FALSE]

-----------------------------------------------------------------------------
(* srslte_tti_interval; a second TTI that has passed the end of the cycle   *)
(* may give a negative number, which the code holds for a huge one.         *)
TtiInterval(tti1, tti2) == IF tti1 >= tti2 THEN tti1 - tti2 ELSE NofTtis - tti2 + tti1

(* mac::is_in_window for the RAR window.  Its first TTI is left out if the  *)
(* window straddles the end of the cycle, and one TTI too many is let in.   *)
InRarWindow(s, tti) ==
    LET st == s.ra_tti + 3
    IN  /\ TtiInterval(tti, st) \in 0 .. responseWindowSize + 4
        /\ IF tti > st THEN tti <= st + responseWindowSize
                       ELSE tti <= (st + responseWindowSize) % NofTtis

ListensToRaRnti(s, tti) == s.state = "RESPONSE_RECEPTION" /\ InRarWindow(s, tti)
ListensToTempRnti(s) == s.temp_rnti # 0 /\ s.crnti = 0

-----------------------------------------------------------------------------
(* preamble_transmission with the preamble p of resource_selection. *)
PreambleTransmission(s, p) ==
    [s EXCEPT !.state = "PDCCH_SETUP", !.preamble = p, !.ra_tti = Pending]

(* The next attempt comes at once: no RAR of this base station has a backoff. *)
(* A TTI the procedure will not look at again is 0; a preamble that the PHY   *)
(* has is sent though no attempt is left.                                     *)
ResponseError(s, p) ==
    LET t == [s EXCEPT !.temp_rnti = 0, !.tries = @ + 1, !.timer = FALSE]
    IN  IF t.tries > preambleTransMax 
        THEN [t EXCEPT !.state = "IDLE", !.ra_tti = IF @ = Pending THEN @ ELSE 0]
        ELSE PreambleTransmission(t, p)

Complete(s) ==
    [s EXCEPT !.crnti = IF s.transmitted_crnti = 0 THEN s.temp_rnti ELSE @,
              !.temp_rnti = 0, !.msg3 = "flushed", !.stored = FALSE,
              !.state = "START_WAIT_COMPLETION"]

StartMacOrder(s, p) ==
    PreambleTransmission([s EXCEPT !.tries = 1, !.msg3 = "flushed", !.stored = FALSE], p)

(* mac::reset; the PHY still has what it was given. *)
MacReset(s) ==
    [s EXCEPT !.state = "IDLE", !.timer = FALSE, !.temp_rnti = 0, !.crnti = 0,
              !.msg3 = "flushed", !.stored = FALSE]

-----------------------------------------------------------------------------
(* step, once per TTI.  The window is over when the TTI is past its end by  *)
(* less than a limit, 100 TTIs in the code and half a cycle here.           *)
WindowOver(s, tti) ==
    TtiInterval(tti, s.ra_tti + 3 + responseWindowSize - 1) \in 1 .. NofTtis \div 2

StateContentionResolution(s) ==
    IF s.msg3 = "transmitted" /\ ~s.timer THEN [s EXCEPT !.timer = TRUE] ELSE s

RaStep(s, tti, p) ==
    CASE s.state = "PDCCH_SETUP" /\ s.ra_tti # Pending -> [s EXCEPT !.state = "RESPONSE_RECEPTION"]
      [] s.state = "RESPONSE_RECEPTION" /\ WindowOver(s, tti) -> ResponseError(s, p)
      [] s.state = "CONTENTION_RESOLUTION" -> StateContentionResolution(s)
      [] s.state = "START_WAIT_COMPLETION" -> [s EXCEPT !.state = "IDLE"]
      [] OTHER -> s

\* (faulty) msg3_prepare was forgotten
TakeRarUnprepared(s, rnti) ==
    [s EXCEPT !.temp_rnti = rnti, !.transmitted_crnti = IF s.stored THEN @ ELSE s.crnti,
              !.ra_tti = IF @ = Pending THEN @ ELSE 0, !.state = "CONTENTION_RESOLUTION"]

(* tb_decoded_ok for a RAR that answers the preamble selected now; the state *)
(* is not looked at.                                                        *)
TakeRar(s, rnti) ==
    [s EXCEPT !.temp_rnti = rnti, !.msg3 = "pending",
              !.transmitted_crnti = IF s.stored THEN @ ELSE s.crnti,
              !.ra_tti = IF @ = Pending THEN @ ELSE 0,
              !.state = "CONTENTION_RESOLUTION"]

(* The PHY has a grant from a RAR: mux::msg3_get, if a Msg3 is wanted. *)
Msg3Get(s) ==
    IF s.msg3 = "flushed" THEN s ELSE [s EXCEPT !.msg3 = "transmitted", !.stored = TRUE]

\* (faulty) whoever is named
ContentionResolutionAny(s, mine, p) == Complete([s EXCEPT !.timer = FALSE])

(* contention_resolution_id_received in the state it is meant for. *)
ContentionResolution(s, mine, p) ==
    LET t == [s EXCEPT !.timer = FALSE]
    IN  IF mine THEN Complete(t) ELSE ResponseError(t, p)

(* pdcch_to_crnti with a new uplink transmission. *)
PdcchToCrnti(s) == Complete([s EXCEPT !.timer = FALSE])

(* harq_retx *)
HarqRetxTimer(s) == [s EXCEPT !.timer = TRUE]

(* timer_handler marks the timer, and calls back without its lock held. *)
TimerMarked(s) == [s EXCEPT !.timer = FALSE, !.expiring = TRUE]
TimerExpired(s, p) == ResponseError([s EXCEPT !.expiring = FALSE], p)

RaStates == {"IDLE", "PDCCH_SETUP", "RESPONSE_RECEPTION", "CONTENTION_RESOLUTION",
             "START_WAIT_COMPLETION"}
=============================================================================
