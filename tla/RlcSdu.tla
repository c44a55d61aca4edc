------------------------------- MODULE RlcSdu -------------------------------
(***************************************************************************)
(* The SDUs of a bearer as the transmitting half of an LTE RLC entity cuts *)
(* and joins them: build_data_pdu in lib/src/upper/rlc_am_lte.cc and       *)
(* rlc_um_lte.cc.  SDUs are numbered from 1 on; a byte is <<sdu, k>>, the  *)
(* k-th byte of an SDU of SduLen bytes.                                    *)
(***************************************************************************)
EXTENDS Integers, Sequences, SequencesExt, FiniteSets

CONSTANTS
    SduLen,             \* bytes of every SDU
    MaxSdus             \* bound: SDUs the upper layer writes

ASSUME SduAssumption == SduLen \in Nat \ {0} /\ MaxSdus \in Nat

SduBytes(id) == [k \in 1..SduLen |-> <<id, k>>]

\* The bytes that wait: the rest of the SDU being sent, then those of the queue.
Pending(sdu, queue) ==
    sdu \o FlattenSeq([i \in 1..Len(queue) |-> SduBytes(queue[i])])

\* What is left of an SDU after its k-th byte, and of the queue after SDU id.
Rest(id, k) == SubSeq(SduBytes(id), k + 1, SduLen)
LeftOf(queue, id) ==
    SubSeq(queue, Cardinality({i \in 1..Len(queue) : queue[i] <= id}) + 1, Len(queue))

BytesIn(s) == {s[i] : i \in 1..Len(s)}
==============================================================================
