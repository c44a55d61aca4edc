------------------------------- MODULE PdcpLte -------------------------------
(***************************************************************************)
(* Two LTE PDCP entities of a radio bearer on RLC UM, one at each end:     *)
(* pdcp_entity_lte in lib/src/upper/pdcp_entity_lte.cc.  The sender counts *)
(* its SDUs (COUNT) and sends the low bits (SN); the receiver rebuilds     *)
(* COUNT, the input of the ciphering algorithm, from the SNs it gets.      *)
(*                                                                         *)
(* An SDU is known by its place in written, which holds the COUNT it was   *)
(* ciphered with.  A PDCP PDU is its bytes <<place, k>>; its header is in  *)
(* the first byte.                                                         *)
(***************************************************************************)
EXTENDS Integers, Sequences, SequencesExt

CONSTANT maximum_pdcp_sn        \* 2^sn_len - 1

ASSUME PdcpAssumption == maximum_pdcp_sn \in Nat

VARIABLES
    written,                    \* the COUNTs of the SDUs written
    next_pdcp_tx_sn, tx_hfn,    \* st of the sending entity
    rx_st,                      \* st of the receiving one
    pdcp_delivered              \* SDUs passed to the gateway, with their COUNT

pdcp_vars == <<written, next_pdcp_tx_sn, tx_hfn, rx_st, pdcp_delivered>>

PdcpReset == [next_pdcp_rx_sn |-> 0, rx_hfn |-> 0]

PdcpInit ==
    /\ written = << >>
    /\ next_pdcp_tx_sn = 0 /\ tx_hfn = 0
    /\ rx_st = PdcpReset
    /\ pdcp_delivered = << >>

COUNT(hfn, sn) == hfn * (maximum_pdcp_sn + 1) + sn

(* write_sdu, but for the call of the RLC entity *)
PdcpWriteSdu ==
    /\ written' = Append(written, COUNT(tx_hfn, next_pdcp_tx_sn))
    /\ IF next_pdcp_tx_sn + 1 > maximum_pdcp_sn
       THEN next_pdcp_tx_sn' = 0 /\ tx_hfn' = tx_hfn + 1
       ELSE next_pdcp_tx_sn' = next_pdcp_tx_sn + 1 /\ tx_hfn' = tx_hfn

\* (faulty) the wrap of SN is taken into account when the next number comes
HandleUmSnLate(st, sn) ==
    [count |-> COUNT(IF sn < st.next_pdcp_rx_sn THEN st.rx_hfn + 1 ELSE st.rx_hfn, sn),
     st    |-> [next_pdcp_rx_sn |-> (sn + 1) % (maximum_pdcp_sn + 1),
                rx_hfn |-> IF sn < st.next_pdcp_rx_sn THEN st.rx_hfn + 1
                           ELSE st.rx_hfn]]

\* handle_um_drb_pdu: COUNT and the state after a PDU numbered sn
HandleUmSn(st, sn) ==
    LET hfn == IF sn < st.next_pdcp_rx_sn THEN st.rx_hfn + 1 ELSE st.rx_hfn
    IN [count |-> COUNT(hfn, sn),
        st    |-> IF sn + 1 > maximum_pdcp_sn
                  THEN [next_pdcp_rx_sn |-> 0, rx_hfn |-> hfn + 1]
                  ELSE [next_pdcp_rx_sn |-> sn + 1, rx_hfn |-> hfn]]

\* read_data_header of a PDCP PDU
ReadSn(pdu) == written[pdu[1][1]] % (maximum_pdcp_sn + 1)

HandleUmDrbPdu(acc, pdu) ==
    LET h == HandleUmSn(acc.st, ReadSn(pdu))
    IN [st |-> h.st, out |-> Append(acc.out, [sdu |-> pdu, count |-> h.count])]

\* write_pdu of each of the SDUs the RLC entity has reassembled; st is the state
\* the entity is in.
Received(st, pdus) ==
    FoldLeft(HandleUmDrbPdu, [st |-> st, out |-> pdcp_delivered], pdus)

PdcpWritePdus(st, pdus) ==
    LET acc == Received(st, pdus)
    IN /\ rx_st' = acc.st
       /\ pdcp_delivered' = acc.out
==============================================================================
