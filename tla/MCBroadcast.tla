----------------------------- MODULE MCBroadcast -----------------------------
(* Instances of Broadcast for TLC. *)
EXTENDS Broadcast

MCUe1 == {0}
MCUe2 == {0, 1}
MCOneCarrier == {0}
MCTwoCarriers == {0, 1}
MCPeriod1 == [i \in {0} |-> 2]
MCPeriod3 == [i \in 0..2 |-> 2]
==============================================================================
