------------------------------- MODULE MCTimers -------------------------------
(* Instances of Timers for TLC. *)
EXTENDS Timers

MCFirst == {0}
MCDurations3 == {1, 3}
MCStopClear == {"stop", "clear"}
===============================================================================
