------------------------------ MODULE MCEnbStack ------------------------------
(***************************************************************************)
(* The eNB stack with small queues; the code's hold 512 tasks, the queue of *)
(* the PHY one when the eNB does not run in real time.                     *)
(***************************************************************************)
EXTENDS EnbStack, TLC

CONSTANTS NofAssociations, MmeCapacity, GtpuCapacity

MCAssociations == 1 .. NofAssociations
MCCapacity == ("sync" :> 1) @@ ("enb" :> 1) @@ ("mme" :> MmeCapacity) @@ ("gtpu" :> GtpuCapacity)
=============================================================================
