----------------------------- MODULE MCMultiQueue -----------------------------
(***************************************************************************)
(* Two threads that push, the stack thread and the main thread, on two     *)
(* queues of one and two places.                                          *)
(***************************************************************************)
EXTENDS MultiQueue, TLC

CONSTANTS phy, sock, stack, main

MCThreads == {phy, sock, stack, main}
MCResetters == {stack, main}
MCCapacity == (0 :> 1) @@ (1 :> 2)
(* The PHY thread has a queue for itself and shares the other with the socket thread. *)
MCTargets == [t \in MCThreads |-> CASE t = phy -> {0, 1} [] t = sock -> {1} [] OTHER -> {}]
=============================================================================
