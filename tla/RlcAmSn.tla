------------------------------- MODULE RlcAmSn -------------------------------
(***************************************************************************)
(* Sequence-number arithmetic of the LTE acknowledged-mode RLC entity      *)
(* (lib/src/upper/rlc_am_lte.cc): numbers are taken modulo MOD and are     *)
(* compared relative to the lower edge of a window.  The code has          *)
(* MOD = 1024 and RLC_AM_WINDOW_SIZE = 512.                                *)
(***************************************************************************)
EXTENDS Integers, RlcSdu

CONSTANTS
    MOD, RLC_AM_WINDOW_SIZE

ASSUME SnAssumption ==
    /\ MOD \in Nat
    /\ RLC_AM_WINDOW_SIZE \in Nat \ {0}
    /\ 2 * RLC_AM_WINDOW_SIZE <= MOD

SN == 0..(MOD - 1)

\* RX_MOD_BASE(x) with edge = vr_r, TX_MOD_BASE(x) with edge = vt_a.
ModBase(x, edge) == (x - edge) % MOD

\* (faulty) without wrap-around
IncUnbounded(x) == x + 1

Inc(x) == (x + 1) % MOD

\* while (D has x) x = (x + 1) % MOD;  D never holds every number.
FirstNotIn(x, D) ==
    CHOOSE y \in SN \ D : \A z \in SN \ D : ModBase(y, x) <= ModBase(z, x)
==============================================================================
