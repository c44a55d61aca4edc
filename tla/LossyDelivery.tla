---------------------------- MODULE LossyDelivery ----------------------------
(***************************************************************************)
(* What an unacknowledged bearer promises to the network layer: the SDUs   *)
(* that come out are SDUs that went in, in their order and once each; some *)
(* may be missing.  received holds their places in sent.                   *)
(***************************************************************************)
EXTENDS Naturals, Sequences

CONSTANT Sdu

VARIABLES sent, received

Init == sent = << >> /\ received = << >>

Accept == /\ \E sdu \in Sdu : sent' = Append(sent, sdu)
          /\ UNCHANGED received

Later == {n \in 1..Len(sent) : \A i \in 1..Len(received) : received[i] < n}

\* Places in sent, in their order.
InOrder(places) == \A i, j \in 1..Len(places) : i < j => places[i] < places[j]

\* One PDU may complete several SDUs.
Deliver == /\ \E n \in 1..Len(sent) : \E more \in [1..n -> Later] :
                 InOrder(more) /\ received' = received \o more
           /\ UNCHANGED sent

Next == Accept \/ Deliver

Spec == Init /\ [][Next]_<<sent, received>>
==============================================================================
