----------------------------- MODULE MCUmBearer -----------------------------
(* Instances of UmBearer for TLC. *)
EXTENDS UmBearer

MCGrants == {1, 2, 3}
MCAnyFault == {"duplicate", "overtake"}
MCOvertake == {"overtake"}
==============================================================================
