------------------------------- MODULE BcSched -------------------------------
(***************************************************************************)
(* The scheduling of the system information messages of one carrier:       *)
(* bc_sched in srsenb/src/stack/mac/scheduler_carrier.cc.  The state of an *)
(* SI message is a record [is_in_window, window_start, n_tx]; the          *)
(* operators say what update_si_windows and alloc_sibs make of it in a     *)
(* TTI.  Message 0 is SIB1; SIB2 and the SIBs of sched_info, SIB10 among   *)
(* them, are in the messages from 1 on.                                    *)
(***************************************************************************)
EXTENDS Integers

CONSTANTS
    NofSi,              \* SI messages with data, SIB1 among them
    Period,             \* period_rf of a message, in frames; 8 for SIB1
    SiWindow,           \* si_window_ms
    TtiMod              \* 10240

Si == 0..(NofSi - 1)

Sfn(t) == t \div 10
SfIdx(t) == t % 10

Idle == [is_in_window |-> FALSE, window_start |-> 0, n_tx |-> 0]

\* srslte_tti_interval
TtiInterval(t1, t2) == IF t1 >= t2 THEN t1 - t2 ELSE TtiMod - t2 + t1

WindowOffset(i) == (i - 1) * SiWindow

OpensWindow(i, t) ==
    IF i = 0 THEN Sfn(t) % Period[0] = 0 /\ SfIdx(t) = 5
    ELSE /\ Sfn(t) % Period[i] = WindowOffset(i) \div 10
         /\ SfIdx(t) = WindowOffset(i) % 10

HasPassed(s, t) == TtiInterval(t, s.window_start) > SiWindow

\* update_si_windows
Updated(s, i, t) ==
    IF ~s.is_in_window
    THEN IF OpensWindow(i, t)
         THEN [is_in_window |-> TRUE, window_start |-> t, n_tx |-> 0]
         ELSE s
    ELSE IF i > 0
         THEN IF HasPassed(s, t) THEN Idle ELSE s
         ELSE IF s.n_tx = 4 THEN [s EXCEPT !.n_tx = 0] ELSE s

\* transmissions in a window
NofTx == LET frames == (SiWindow + 9) \div 10 IN IF frames < 4 THEN frames ELSE 4

\* n_sf is uint32_t: a TTI before the start of the window is far after it
Reached(s, t) ==
    \/ t < s.window_start
    \/ t - s.window_start >= (SiWindow \div NofTx) * s.n_tx

\* (faulty) in any subframe
IsSentAnySf(s, i, t) ==
    /\ s.is_in_window /\ s.n_tx < 4
    /\ IF i = 0 THEN Sfn(t) % 2 = 0 /\ SfIdx(t) = 5 ELSE Reached(s, t)

\* alloc_sibs sends the message in this TTI
IsSent(s, i, t) ==
    /\ s.is_in_window /\ s.n_tx < 4
    /\ IF i = 0 THEN Sfn(t) % 2 = 0 /\ SfIdx(t) = 5
       ELSE Reached(s, t) /\ SfIdx(t) = 9

\* dl_sched: n_tx counts the attempt, also one for which there was no room
AfterTti(s, i, t) ==
    LET u == Updated(s, i, t)
    IN IF IsSent(u, i, t) THEN [u EXCEPT !.n_tx = @ + 1] ELSE u
==============================================================================
