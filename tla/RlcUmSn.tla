------------------------------- MODULE RlcUmSn -------------------------------
(***************************************************************************)
(* Sequence numbers of the LTE unacknowledged-mode RLC entity              *)
(* (lib/src/upper/rlc_um_lte.cc), modulo 32 or 1024 with a window of half  *)
(* of that.                                                                *)
(***************************************************************************)
EXTENDS Integers

CONSTANTS
    UM_MOD,             \* tx_mod and rx_mod
    UM_WINDOW           \* rx_window_size

ASSUME UmSnAssumption == UM_WINDOW \in Nat \ {0} /\ UM_MOD = 2 * UM_WINDOW

UmSN == 0..(UM_MOD - 1)

\* (faulty) without wrap-around
Next1Unbounded(x) == x + 1

Next1(x) == (x + 1) % UM_MOD

\* RX_MOD_BASE(x) with vr_uh = uh: the window is what it maps below UM_WINDOW.
RxModBase(x, uh) == (x - uh - UM_WINDOW) % UM_MOD

\* inside_reordering_window with rx_window holding the numbers W
InsideReorderingWindow(sn, uh, W) ==
    \/ W = {}
    \/ /\ RxModBase(uh - UM_WINDOW, uh) <= RxModBase(sn, uh)
       /\ RxModBase(sn, uh) < RxModBase(uh, uh)

\* The rx_window numbers W that are left once VR(UR) has moved from x by n.
LeftAfter(W, x, n) == {s \in W : (s - x) % UM_MOD >= n}

\* How far the first loop of reassemble_rx_sdus moves VR(UR) from x: into the
\* window, or past all that is held.
CatchUp(x, uh, W) ==
    CHOOSE n \in 0..UM_MOD :
        /\ InsideReorderingWindow((x + n) % UM_MOD, uh, LeftAfter(W, x, n))
        /\ \A m \in 0..(n - 1) :
              ~InsideReorderingWindow((x + m) % UM_MOD, uh, LeftAfter(W, x, m))

\* (faulty) one step at a time
InSequenceOne(x, W) == IF x \in W THEN 1 ELSE 0

\* How far the second loop moves it: to the first number not received.
InSequence(x, W) ==
    CHOOSE n \in 0..UM_MOD :
        /\ (x + n) % UM_MOD \notin W
        /\ \A m \in 0..(n - 1) : (x + m) % UM_MOD \in W

(* A window: VR(UR) is the first number missing, inside the window while PDUs W are
   held, which are above it up to the one below VR(UH), and equal to VR(UH)
   otherwise. *)
IsWindow(ur, uh, W) ==
    /\ W = {} => ur = uh
    /\ W # {} => \E s \in W : RxModBase(s, uh) = UM_WINDOW - 1
    /\ \A s \in W :
          RxModBase(ur, uh) < RxModBase(s, uh) /\ RxModBase(s, uh) < UM_WINDOW
==============================================================================
