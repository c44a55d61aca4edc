---------------------------- MODULE MCRandomAccess ----------------------------
(***************************************************************************)
(* Two UEs and a cycle of twelve TTIs with a PRACH every four, whose       *)
(* window ends when the next one's begins.  The PRBs may be taken in the     *)
(* whole windows of the first two, not in that of the last, which straddles  *)
(* the end of the cycle.                                                    *)
(***************************************************************************)
EXTENDS RandomAccess, TLC

MCNoRoom == 3 .. 10
MCSymmetry == Permutations(Ue) \cup Permutations(Preambles)
=============================================================================
