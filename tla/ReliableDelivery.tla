-------------------------- MODULE ReliableDelivery --------------------------
(***************************************************************************)
(* What an acknowledged-mode bearer promises its PDCP entities: the SDUs   *)
(* accepted by one end come out of the other end whole, once each and in   *)
(* the order in which they were accepted.                                  *)
(***************************************************************************)
EXTENDS Sequences, SequencesExt, Naturals

CONSTANT Sdu

VARIABLES sent, received

Init == sent = << >> /\ received = << >>

Accept == /\ \E sdu \in Sdu : sent' = Append(sent, sdu)
          /\ UNCHANGED received

\* One PDU may complete several SDUs.
Deliver == /\ \E n \in (Len(received) + 1)..Len(sent) : received' = SubSeq(sent, 1, n)
           /\ UNCHANGED sent

Next == Accept \/ Deliver

Spec == Init /\ [][Next]_<<sent, received>>
==============================================================================
