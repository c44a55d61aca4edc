------------------------------- MODULE MCRlcAm -------------------------------
(* Instances of RlcAm for TLC. *)
EXTENDS RlcAm

MCGrants12 == {1, 2}
MCGrants34 == {3, 4}
MCRooms01 == {0, 1}
MCRooms2 == {2}

MCAnyFault == {"lose", "duplicate", "overtake", "lose status", "duplicate status"}
MCLoss == {"lose", "lose status"}
MCLostStatus == {"overtake", "lose status"}
==============================================================================
