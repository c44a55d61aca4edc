----------------------------- MODULE RlcAmProofs -----------------------------
(***************************************************************************)
(* The two entities of an RLC AM bearer (RlcAm) for every window size,     *)
(* modulus and SDU length.                                                 *)
(*                                                                         *)
(* The receiver alone, against any peer, is first.  RxInv is inductive:    *)
(* the window invariant needs ReorderingInv where the reordering timer     *)
(* overwrites vr_ms with vr_x, and ReorderingInv needs the window to bound *)
(* how far vr_x can be from the lower edge that moves under it.  That      *)
(* vr_ms never moves back needs CompleteFromVrX: where vr_x has been       *)
(* overtaken by vr_ms, all in between has come.                            *)
(*                                                                         *)
(* The types of both are next: what a sender keeps, sends and sends again  *)
(* is well formed, and the receiver's invariants (RxInv) hold in           *)
(* composition because every PDU it is handed is.                          *)
(*                                                                         *)
(* Then the windows.  The transmitter holds exactly the numbers from vt_a  *)
(* to vt_s (Window) and the receiver is not below vt_a nor above vt_s; an  *)
(* ACK in a STATUS on its way is what the receiver's lower edge was when   *)
(* it was sent, so it is at or above vt_a as long as no STATUS overtakes   *)
(* another (Agreed).  Both need that no more than a window is outstanding, *)
(* which build_data_pdu does not ensure when an SDU is cut; it is a        *)
(* hypothesis there, and proved where an SDU fits in one byte.             *)
(*                                                                         *)
(* Then the data.  The bytes of all SDUs are one stream, and every copy of *)
(* a byte, in the queues, the windows, the channel, the segments held and  *)
(* in reassembly, is the one that its place in the stream says (DataInv).  *)
(* So nothing is forgotten, and what is handed over are the SDUs accepted: *)
(* the bearer implements ReliableDelivery.                                 *)
(***************************************************************************)
EXTENDS RlcAm, RlcSduProofs

-----------------------------------------------------------------------------
(* What the sequence-number arithmetic of RlcAmSn means on 0..MOD-1: the     *)
(* operators of the code are piecewise linear there, and ModBase(_, edge)    *)
(* orders the numbers the way they follow edge.                              *)

(* (x + 1) % MOD, written without a remainder. *)
LEMMA IncIsStep ==
    ASSUME NEW x \in SN
    PROVE  /\ Inc(x) = IF x = MOD - 1 THEN 0 ELSE x + 1
           /\ Inc(x) \in SN
  BY SnAssumption DEF SN, Inc

(* RX_MOD_BASE and TX_MOD_BASE, written without a remainder. *)
LEMMA ModBaseIsDistance ==
    ASSUME NEW x \in SN, NEW r \in SN
    PROVE  /\ ModBase(x, r) = IF x >= r THEN x - r ELSE x - r + MOD
           /\ ModBase(x, r) \in 0..(MOD - 1)
  BY SnAssumption DEF SN, ModBase

(* Adding at most MOD to a sequence number, written without a remainder. *)
LEMMA PlusIsStep ==
    ASSUME NEW x \in SN, NEW k \in 0..(MOD - 1)
    PROVE  /\ (x + k) % MOD = IF x + k < MOD THEN x + k ELSE x + k - MOD
           /\ (x + k) % MOD \in SN
  BY SnAssumption DEF SN

(* Distances from another edge. *)
LEMMA ModBaseShift ==
    ASSUME NEW x \in SN, NEW r \in SN, NEW q \in SN
    PROVE  ModBase(x, q) = IF ModBase(x, r) >= ModBase(q, r)
                           THEN ModBase(x, r) - ModBase(q, r)
                           ELSE ModBase(x, r) - ModBase(q, r) + MOD
  <1>1. /\ ModBase(x, q) = IF x >= q THEN x - q ELSE x - q + MOD
        /\ ModBase(x, r) = IF x >= r THEN x - r ELSE x - r + MOD
        /\ ModBase(q, r) = IF q >= r THEN q - r ELSE q - r + MOD
    BY ModBaseIsDistance
  <1> QED
    BY <1>1, SnAssumption DEF SN

(* Only the edge itself is at distance 0. *)
LEMMA ModBaseZero ==
    ASSUME NEW x \in SN, NEW r \in SN
    PROVE  ModBase(x, r) = 0 <=> x = r
  <1>1. ModBase(x, r) = IF x >= r THEN x - r ELSE x - r + MOD
    BY ModBaseIsDistance
  <1> QED
    BY <1>1, SnAssumption DEF SN

(* The number after x is one further from the edge, unless x was the last. *)
LEMMA ModBaseInc ==
    ASSUME NEW x \in SN, NEW r \in SN, ModBase(x, r) < MOD - 1
    PROVE  ModBase(Inc(x), r) = ModBase(x, r) + 1
  <1>1. Inc(x) \in SN /\ Inc(x) = IF x = MOD - 1 THEN 0 ELSE x + 1
    BY IncIsStep
  <1>2. /\ ModBase(x, r) = IF x >= r THEN x - r ELSE x - r + MOD
        /\ ModBase(Inc(x), r) = IF Inc(x) >= r THEN Inc(x) - r ELSE Inc(x) - r + MOD
    BY <1>1, ModBaseIsDistance
  <1> QED
    BY <1>1, <1>2, SnAssumption DEF SN

(* The upper edge of a window is a window away from its lower edge. *)
LEMMA UpperEdge ==
    ASSUME NEW r \in SN
    PROVE  /\ (r + RLC_AM_WINDOW_SIZE) % MOD \in SN
           /\ ModBase((r + RLC_AM_WINDOW_SIZE) % MOD, r) = RLC_AM_WINDOW_SIZE
  <1> DEFINE e == (r + RLC_AM_WINDOW_SIZE) % MOD
  <1>0. RLC_AM_WINDOW_SIZE \in 0..(MOD - 1)
    BY SnAssumption
  <1>1. /\ e = IF r + RLC_AM_WINDOW_SIZE < MOD THEN r + RLC_AM_WINDOW_SIZE
               ELSE r + RLC_AM_WINDOW_SIZE - MOD
        /\ e \in SN
    BY <1>0, PlusIsStep
  <1> HIDE DEF e
  <1>2. ModBase(e, r) = IF e >= r THEN e - r ELSE e - r + MOD
    BY <1>1, ModBaseIsDistance
  <1>3. ModBase(e, r) = RLC_AM_WINDOW_SIZE
    BY <1>1, <1>2, SnAssumption DEF SN
  <1> QED
    BY <1>1, <1>3 DEF e

(* Both edges advance together. *)
LEMMA EdgesMove ==
    ASSUME NEW r \in SN, NEW q \in SN
    PROVE  (((r + RLC_AM_WINDOW_SIZE) % MOD) + ModBase(q, r)) % MOD
               = (q + RLC_AM_WINDOW_SIZE) % MOD
  <1> DEFINE e == (r + RLC_AM_WINDOW_SIZE) % MOD
  <1>0. RLC_AM_WINDOW_SIZE \in 0..(MOD - 1)
    BY SnAssumption
  <1>1. /\ e = IF r + RLC_AM_WINDOW_SIZE < MOD THEN r + RLC_AM_WINDOW_SIZE
               ELSE r + RLC_AM_WINDOW_SIZE - MOD
        /\ e \in SN
    BY <1>0, PlusIsStep
  <1> HIDE DEF e
  <1>2. /\ ModBase(q, r) = IF q >= r THEN q - r ELSE q - r + MOD
        /\ ModBase(q, r) \in 0..(MOD - 1)
    BY ModBaseIsDistance
  <1>3. (e + ModBase(q, r)) % MOD =
            IF e + ModBase(q, r) < MOD THEN e + ModBase(q, r)
            ELSE e + ModBase(q, r) - MOD
    BY <1>1, <1>2, PlusIsStep
  <1>4. (q + RLC_AM_WINDOW_SIZE) % MOD =
            IF q + RLC_AM_WINDOW_SIZE < MOD THEN q + RLC_AM_WINDOW_SIZE
            ELSE q + RLC_AM_WINDOW_SIZE - MOD
    BY <1>0, PlusIsStep
  <1>5. (e + ModBase(q, r)) % MOD = (q + RLC_AM_WINDOW_SIZE) % MOD
    BY <1>1, <1>2, <1>3, <1>4, SnAssumption DEF SN
  <1> QED
    BY <1>5 DEF e

(* Some element of a non-empty set of numbers is the first from an edge on. *)
LEMMA FirstExists ==
    ASSUME NEW S \in SUBSET SN, S # {}, NEW r \in SN
    PROVE  \E y \in S : \A z \in S : ModBase(y, r) <= ModBase(z, r)
  <1> DEFINE B == {ModBase(z, r) : z \in S}
  <1>1. B \in SUBSET Nat /\ B # {}
    BY ModBaseIsDistance
  <1>2. PICK b \in B : \A c \in B : b <= c
    BY <1>1, LeastOfNaturals
  <1> QED
    BY <1>2

(* ... and some element is the last. *)
LEMMA LastExists ==
    ASSUME NEW S \in SUBSET SN, S # {}, NEW r \in SN
    PROVE  \E y \in S : \A z \in S : ModBase(z, r) <= ModBase(y, r)
  <1> DEFINE B == {MOD - ModBase(z, r) : z \in S}
  <1>1. B \in SUBSET Nat /\ B # {}
    BY ModBaseIsDistance, SnAssumption
  <1>2. PICK b \in B : \A c \in B : b <= c
    BY <1>1, LeastOfNaturals
  <1>3. PICK y \in S : b = MOD - ModBase(y, r)
    BY <1>2
  <1>4. \A z \in S : ModBase(z, r) <= ModBase(y, r)
    <2> TAKE z \in S
    <2>1. MOD - ModBase(y, r) <= MOD - ModBase(z, r)
      BY <1>2, <1>3
    <2>2. ModBase(y, r) \in Nat /\ ModBase(z, r) \in Nat
      BY ModBaseIsDistance
    <2> QED
      BY <2>1, <2>2, SnAssumption
  <1> QED
    BY <1>4

(* The loop `while (D has x) x = (x + 1) % MOD` stops at the first number that is
   not in D, if there is one. *)
LEMMA FirstNotInProperty ==
    ASSUME NEW x \in SN, NEW D, SN \ D # {}
    PROVE  /\ FirstNotIn(x, D) \in SN
           /\ FirstNotIn(x, D) \notin D
           /\ \A z \in SN \ D : ModBase(FirstNotIn(x, D), x) <= ModBase(z, x)
  <1>1. \E y \in SN \ D : \A z \in SN \ D : ModBase(y, x) <= ModBase(z, x)
    BY FirstExists
  <1> QED
    BY <1>1 DEF FirstNotIn

(* Seen from an edge r, the loop stays between where it starts and any number
   that is not in D. *)
LEMMA FirstNotInBetween ==
    ASSUME NEW r \in SN, NEW x \in SN, NEW D, NEW h \in SN \ D,
           ModBase(x, r) <= ModBase(h, r)
    PROVE  /\ FirstNotIn(x, D) \in SN
           /\ FirstNotIn(x, D) \notin D
           /\ ModBase(x, r) <= ModBase(FirstNotIn(x, D), r)
           /\ ModBase(FirstNotIn(x, D), r) <= ModBase(h, r)
  <1> DEFINE m == FirstNotIn(x, D)
  <1>1. m \in SN /\ m \notin D /\ ModBase(m, x) <= ModBase(h, x)
    BY FirstNotInProperty
  <1> HIDE DEF m
  <1>2. ModBase(h, x) = ModBase(h, r) - ModBase(x, r)
    BY ModBaseShift
  <1>3. ModBase(m, x) = IF ModBase(m, r) >= ModBase(x, r)
                        THEN ModBase(m, r) - ModBase(x, r)
                        ELSE ModBase(m, r) - ModBase(x, r) + MOD
    BY <1>1, ModBaseShift
  <1>4. /\ ModBase(h, r) \in 0..(MOD - 1) /\ ModBase(x, r) \in 0..(MOD - 1)
        /\ ModBase(m, r) \in 0..(MOD - 1)
    BY <1>1, ModBaseIsDistance
  <1>5. ModBase(x, r) <= ModBase(m, r) /\ ModBase(m, r) <= ModBase(h, r)
    BY <1>1, <1>2, <1>3, <1>4, SnAssumption
  <1> QED
    BY <1>1, <1>5 DEF m

-----------------------------------------------------------------------------
(* Sequence numbers of PDUs that are counted without bound: the X-th PDU has  *)
(* the number X % MOD.                                                        *)

(* A number without its remainder is a multiple of MOD, *)
LEMMA NumberAndRounds ==
    ASSUME NEW X \in Nat
    PROVE  /\ X = MOD * (X \div MOD) + (X % MOD)
           /\ X % MOD \in SN /\ X \div MOD \in Nat
  <1>1. MOD \in Nat \ {0}
    BY SnAssumption
  <1> QED
    BY <1>1, QuotientAndRemainder DEF SN

(* and only the remainder leaves one. *)
LEMMA NumberIsUnique ==
    ASSUME NEW X \in Nat, NEW q \in Nat, NEW r \in SN, X = MOD * q + r
    PROVE  X % MOD = r
  BY SnAssumption, RemainderIsUnique DEF SN

(* The number of the PDU d after the X-th. *)
LEMMA Later ==
    ASSUME NEW X \in Nat, NEW d \in 0..MOD
    PROVE  ((X % MOD) + d) % MOD = (X + d) % MOD
  <1>1. MOD \in Nat \ {0}
    BY SnAssumption
  <1> QED
    BY <1>1, RemainderOfSum

LEMMA NextNumber ==
    ASSUME NEW X \in Nat
    PROVE  (X + 1) % MOD = Inc(X % MOD)
  BY Later, SnAssumption DEF Inc

(* Distances between numbers are distances between PDUs less than MOD apart. *)
LEMMA DistanceUp ==
    ASSUME NEW X \in Nat, NEW Y \in Nat, Y <= X, X < Y + MOD
    PROVE  ModBase(X % MOD, Y % MOD) = X - Y
  BY SnAssumption, SMTT(20) DEF SN, ModBase

LEMMA DistanceDown ==
    ASSUME NEW X \in Nat, NEW Y \in Nat, X < Y, Y <= X + MOD
    PROVE  ModBase(X % MOD, Y % MOD) = X - Y + MOD
  <1>1. (X + MOD) % MOD = X % MOD
    <2>1. MOD \in 0..MOD
      BY SnAssumption
    <2>2. ((X % MOD) + MOD) % MOD = (X + MOD) % MOD
      BY <2>1, Later
    <2>3. X % MOD \in SN
      BY NumberAndRounds
    <2>4. ((X % MOD) + MOD) % MOD = X % MOD
      BY <2>3, SnAssumption DEF SN
    <2> QED
      BY <2>2, <2>4
  <1> DEFINE Z == X + MOD
  <1>2. Z \in Nat /\ Z = X + MOD /\ Y <= Z /\ Z < Y + MOD
    BY SnAssumption
  <1> HIDE DEF Z
  <1>3. ModBase(Z % MOD, Y % MOD) = Z - Y
    BY <1>2, DistanceUp
  <1> QED
    BY <1>1, <1>2, <1>3, SnAssumption

(* The number at a distance from that of the Y-th PDU. *)
LEMMA NumberAt ==
    ASSUME NEW s \in SN, NEW Y \in Nat
    PROVE  s = (Y + ModBase(s, Y % MOD)) % MOD
  <1> DEFINE r == Y % MOD
             d == ModBase(s, r)
  <1>1. r \in SN
    BY NumberAndRounds
  <1> HIDE DEF r
  <1>2. d = (IF s >= r THEN s - r ELSE s - r + MOD) /\ d \in 0..(MOD - 1)
    BY <1>1, ModBaseIsDistance
  <1> HIDE DEF d
  <1>3. (r + d) % MOD = s
    <2>1. r + d = s \/ r + d = s + MOD
      BY <1>1, <1>2, SnAssumption DEF SN
    <2>2. (r + d) % MOD = IF r + d < MOD THEN r + d ELSE r + d - MOD
      BY <1>1, <1>2, PlusIsStep
    <2> QED
      BY <2>1, <2>2, SnAssumption DEF SN
  <1>4. (r + d) % MOD = (Y + d) % MOD
    <2>1. d \in 0..MOD
      BY <1>2, SnAssumption
    <2> QED
      BY <2>1, Later DEF r
  <1> QED
    BY <1>3, <1>4 DEF d, r

(* How many numbers are less than a distance from an edge. *)
LEMMA NumbersBelow ==
    ASSUME NEW r \in SN, NEW d \in 0..MOD
    PROVE  Cardinality({s \in SN : ModBase(s, r) < d}) = d
  <1> DEFINE S == {s \in SN : ModBase(s, r) < d}
             f == [i \in 1..d |-> (r + (i - 1)) % MOD]
  <1>1. \A i \in 1..d : i - 1 \in 0..(MOD - 1)
    BY SnAssumption
  <1>2. \A i \in 1..d : f[i] \in SN /\ ModBase(f[i], r) = i - 1
    <2> TAKE i \in 1..d
    <2>1. f[i] \in SN /\ f[i] = IF r + (i - 1) < MOD THEN r + (i - 1) ELSE r + (i - 1) - MOD
      BY <1>1, PlusIsStep
    <2> HIDE DEF f
    <2>2. ModBase(f[i], r) = IF f[i] >= r THEN f[i] - r ELSE f[i] - r + MOD
      BY <2>1, ModBaseIsDistance
    <2> QED
      BY <1>1, <2>1, <2>2, SnAssumption DEF SN
  <1>3. \A i \in 1..d : f[i] \in S
    BY <1>2, SnAssumption
  <1>4. \A i, j \in 1..d : f[i] = f[j] => i = j
    <2> TAKE i, j \in 1..d
    <2> HIDE DEF f
    <2>1. ModBase(f[i], r) = i - 1 /\ ModBase(f[j], r) = j - 1
      BY <1>2
    <2> QED
      BY <2>1
  <1>5. \A s \in S : \E i \in 1..d : f[i] = s
    <2> TAKE s \in S
    <2>1. /\ s \in SN /\ ModBase(s, r) \in 0..(MOD - 1) /\ ModBase(s, r) < d
          /\ ModBase(s, r) = IF s >= r THEN s - r ELSE s - r + MOD
      BY ModBaseIsDistance
    <2> DEFINE i == ModBase(s, r) + 1
    <2>2. i \in 1..d /\ i - 1 = ModBase(s, r)
      BY <2>1
    <2>3. f[i] = (r + ModBase(s, r)) % MOD
      BY <2>2
    <2>4. f[i] = IF r + ModBase(s, r) < MOD THEN r + ModBase(s, r) ELSE r + ModBase(s, r) - MOD
      BY <2>1, <2>3, PlusIsStep
    <2>5. f[i] = s
      BY <2>1, <2>4, SnAssumption DEF SN
    <2> QED
      BY <2>2, <2>5
  <1>6. DOMAIN f = 1..d
    OBVIOUS
  <1> HIDE DEF f, S
  <1>7. f \in Bijection(1..d, S)
    <2>1. f \in [1..d -> S]
      BY <1>3, <1>6 DEF f
    <2> QED
      BY <1>4, <1>5, <2>1 DEF Bijection, Injection, Surjection, IsInjective
  <1>8. IsFiniteSet(1..d) /\ Cardinality(1..d) = d
    BY FS_Interval, SnAssumption
  <1>9. Cardinality(S) = Cardinality(1..d)
    BY <1>7, <1>8, FS_Bijection DEF ExistsBijection
  <1> QED
    BY <1>8, <1>9 DEF S

-----------------------------------------------------------------------------
(* The receive window *)

(* While the reordering timer runs, nothing from vr_x up to vr_ms is missing. *)
CompleteFromVrX ==
    reordering_running =>
        \A s \in SN : RxBase(vr_x) <= RxBase(s) /\ RxBase(s) < RxBase(vr_ms)
                         => s \in DOMAIN rx_window

RxInv == RxTypeOK /\ RxWindowInv /\ ReorderingInv /\ CompleteFromVrX

(* What a step may do to vr_ms. *)
VrMsMovesOn == vr_ms' # vr_ms => ModBase(vr_ms', vr_ms) <= RLC_AM_WINDOW_SIZE

(* The upper edge, seen from the lower one, is the window size: a number is
   inside the window when it is less than a window from vr_r. *)
LEMMA InsideIsNear ==
    ASSUME RxInv, NEW sn \in SN
    PROVE  InsideRxWindow(sn, vr_r, vr_mr) <=> RxBase(sn) < RLC_AM_WINDOW_SIZE
  <1>1. ModBase(vr_mr, vr_r) = RLC_AM_WINDOW_SIZE
    BY UpperEdge DEF RxInv, RxTypeOK, RxWindowInv
  <1> QED
    BY <1>1 DEF InsideRxWindow, RxBase

(* vr_h after an arrival inside the window: not below where it was, above the
   number that arrived, and still within a window of vr_r. *)
LEMMA HighestMoves ==
    ASSUME RxInv, NEW sn \in SN, RxBase(sn) < RLC_AM_WINDOW_SIZE
    PROVE  /\ HighestAfter(sn) \in SN
           /\ RxBase(vr_h) <= RxBase(HighestAfter(sn))
           /\ RxBase(sn) < RxBase(HighestAfter(sn))
           /\ RxBase(HighestAfter(sn)) <= RLC_AM_WINDOW_SIZE
  <1>1. vr_h \in SN /\ vr_r \in SN /\ RxBase(vr_h) <= RLC_AM_WINDOW_SIZE
    BY DEF RxInv, RxTypeOK, RxWindowInv
  <1>2. RxBase(sn) \in 0..(MOD - 1) /\ RxBase(vr_h) \in 0..(MOD - 1)
    BY <1>1, ModBaseIsDistance DEF RxBase
  <1>3. RxBase(sn) < MOD - 1
    BY <1>2, SnAssumption
  <1>4. Inc(sn) \in SN /\ RxBase(Inc(sn)) = RxBase(sn) + 1
    BY <1>1, <1>3, IncIsStep, ModBaseInc DEF RxBase
  <1>5. CASE RxBase(sn) >= RxBase(vr_h)
    <2>1. HighestAfter(sn) = Inc(sn)
      BY <1>5 DEF HighestAfter
    <2> QED
      BY <2>1, <1>2, <1>4, <1>5, SnAssumption
  <1>6. CASE ~(RxBase(sn) >= RxBase(vr_h))
    <2>1. HighestAfter(sn) = vr_h
      BY <1>6 DEF HighestAfter
    <2> QED
      BY <2>1, <1>1, <1>2, <1>6
  <1> QED
    BY <1>5, <1>6

(* handle_data_pdu keeps the invariant. *)
LEMMA DataPduKeepsInv ==
    ASSUME RxInv, NEW sn \in SN, NEW p \in BOOLEAN, NEW data,
           NEW segs, DOMAIN segs \subseteq SN, NEW status \in BOOLEAN,
           HandleDataPdu(sn, p, data, segs, status),
           UNCHANGED <<status_prohibit_running, tx_status>>
    PROVE  RxInv' /\ VrMsMovesOn
  <1>t. /\ vr_r \in SN /\ vr_mr \in SN /\ vr_x \in SN /\ vr_ms \in SN /\ vr_h \in SN
        /\ DOMAIN rx_window \subseteq SN
        /\ poll_received \in BOOLEAN /\ reordering_running \in BOOLEAN
        /\ status_prohibit_running \in BOOLEAN
        /\ tx_status \in StatusPdu \cup {none}
    BY DEF RxInv, RxTypeOK
  <1>w. /\ vr_mr = (vr_r + RLC_AM_WINDOW_SIZE) % MOD
        /\ RxBase(vr_ms) <= RxBase(vr_h)
        /\ RxBase(vr_h) <= RLC_AM_WINDOW_SIZE
        /\ \A s \in DOMAIN rx_window : RxBase(s) < RxBase(vr_h)
    BY DEF RxInv, RxWindowInv
  <1>1. CASE ~InsideRxWindow(sn, vr_r, vr_mr) \/ sn \in DOMAIN rx_window
    <2>1. /\ do_status' = (status \/ p)
          /\ rx_segments' = segs
          /\ UNCHANGED <<vr_r, vr_mr, vr_x, vr_ms, vr_h, rx_window, rx_sdu,
                         poll_received, reordering_running, delivered>>
      BY <1>1 DEF HandleDataPdu, StatusOfDiscarded
    <2>2. do_status' \in BOOLEAN
      BY <2>1
    <2>3. RxTypeOK'
      BY <2>1, <2>2 DEF RxInv, RxTypeOK
    <2>4. RxWindowInv' /\ ReorderingInv' /\ CompleteFromVrX'
      BY <2>1 DEF RxInv, RxWindowInv, ReorderingInv, CompleteFromVrX, RxBase
    <2> QED
      BY <2>1, <2>3, <2>4 DEF RxInv, VrMsMovesOn
  <1>2. CASE InsideRxWindow(sn, vr_r, vr_mr) /\ sn \notin DOMAIN rx_window
    <2> DEFINE D     == DOMAIN rx_window \cup {sn}
               win   == [s \in D |-> IF s = sn THEN data ELSE rx_window[s]]
               h     == HighestAfter(sn)
               ms    == FirstNotIn(vr_ms, D)
               r     == FirstNotIn(vr_r, D)
               mr    == (vr_mr + RxBase(r)) % MOD
               taken == {s \in D : RxBase(s) < RxBase(r)}
               still == StillReordering(r, mr)
               start == ~still /\ ModBase(h, r) > 0
    <2>d. DOMAIN win = D
      OBVIOUS
    <2>1. /\ vr_h' = h /\ vr_ms' = ms /\ vr_r' = r /\ vr_mr' = mr
          /\ poll_received' = (poll_received \/ p)
          /\ do_status' = (status \/ (p /\ \/ RxBase(sn) < RxBase(ms)
                                           \/ RxBase(sn) >= RxBase(vr_mr)))
          /\ rx_window' = [s \in D \ taken |-> win[s]]
          /\ rx_segments' = [s \in DOMAIN segs |->
                                IF s \in taken THEN {} ELSE segs[s]]
          /\ reordering_running' = (still \/ start)
          /\ vr_x' = IF start THEN h ELSE vr_x
      BY <1>2, <2>d DEF HandleDataPdu
    <2>2. RxBase(sn) < RLC_AM_WINDOW_SIZE
      BY <1>2, InsideIsNear
    <2>3. /\ h \in SN /\ RxBase(vr_h) <= RxBase(h)
          /\ RxBase(sn) < RxBase(h) /\ RxBase(h) <= RLC_AM_WINDOW_SIZE
      BY <2>2, HighestMoves
    <2> HIDE DEF h
    <2>n. \A s \in SN : RxBase(s) \in Nat
      BY <1>t, ModBaseIsDistance DEF RxBase
    <2>4. \A s \in D : s \in SN /\ RxBase(s) < RxBase(h)
      <3> TAKE s \in D
      <3>1. CASE s \in DOMAIN rx_window
        <4>1. s \in SN /\ RxBase(s) < RxBase(vr_h)
          BY <1>t, <1>w, <3>1
        <4> QED
          BY <4>1, <1>t, <2>3, <2>n
      <3>2. CASE s = sn
        BY <2>3, <3>2
      <3> QED
        BY <3>1, <3>2
    <2>5. h \in SN \ D
      BY <2>3, <2>4, <2>n
    <2>6. /\ ms \in SN \ D
          /\ RxBase(vr_ms) <= RxBase(ms) /\ RxBase(ms) <= RxBase(h)
      <3>1. RxBase(vr_ms) <= RxBase(h)
        BY <1>t, <1>w, <2>3, <2>n
      <3> HIDE DEF D
      <3> QED
        BY <1>t, <2>5, <3>1, FirstNotInBetween DEF RxBase
    <2> HIDE DEF ms
    <2>7. r \in SN \ D /\ RxBase(r) <= RxBase(ms)
      <3>1. RxBase(vr_r) <= RxBase(ms)
        <4>1. RxBase(vr_r) = 0
          BY <1>t, ModBaseZero DEF RxBase
        <4> QED
          BY <4>1, <2>6, <2>n
      <3> HIDE DEF D
      <3> QED
        BY <1>t, <2>6, <3>1, FirstNotInBetween DEF RxBase
    <2> HIDE DEF r
    <2>8. mr = (r + RLC_AM_WINDOW_SIZE) % MOD /\ mr \in SN
      <3>1. mr = (r + RLC_AM_WINDOW_SIZE) % MOD
        BY <1>t, <1>w, <2>7, EdgesMove DEF RxBase
      <3> QED
        BY <3>1, <2>7, UpperEdge
    <2> HIDE DEF mr
    (* What was at or above the new lower edge comes nearer by RxBase(r). *)
    <2>9. \A s \in SN : RxBase(r) <= RxBase(s) =>
              ModBase(s, r) = RxBase(s) - RxBase(r)
      BY <1>t, <2>7, ModBaseShift DEF RxBase
    <2>10. ModBase(ms, r) <= ModBase(h, r) /\ ModBase(h, r) <= RLC_AM_WINDOW_SIZE
      <3>1. RxBase(r) <= RxBase(h)
        BY <2>3, <2>6, <2>7, <2>n
      <3>2. /\ ModBase(ms, r) = RxBase(ms) - RxBase(r)
            /\ ModBase(h, r) = RxBase(h) - RxBase(r)
        BY <3>1, <2>3, <2>6, <2>7, <2>9
      <3> QED
        BY <3>1, <3>2, <2>3, <2>6, <2>7, <2>n, SnAssumption
    <2>11. \A s \in D \ taken : ModBase(s, r) < ModBase(h, r)
      <3> TAKE s \in D \ taken
      <3>1. s \in SN /\ RxBase(s) < RxBase(h) /\ RxBase(r) <= RxBase(s)
        BY <2>4, <2>7, <2>n
      <3>2. RxBase(r) <= RxBase(h)
        BY <2>3, <2>6, <2>7, <2>n
      <3>3. /\ ModBase(s, r) = RxBase(s) - RxBase(r)
            /\ ModBase(h, r) = RxBase(h) - RxBase(r)
        BY <3>1, <3>2, <2>3, <2>9
      <3> QED
        BY <3>1, <3>3, <2>3, <2>7, <2>n
    <2>12. DOMAIN rx_window' = D \ taken
      BY <2>1
    <2>13. RxWindowInv'
      BY <2>1, <2>6, <2>7, <2>8, <2>10, <2>11, <2>12 DEF RxWindowInv, RxBase
    <2>14. RxTypeOK'
      <3>1. /\ vr_r' \in SN /\ vr_mr' \in SN /\ vr_x' \in SN
            /\ vr_ms' \in SN /\ vr_h' \in SN
        BY <1>t, <2>1, <2>3, <2>6, <2>7, <2>8
      <3>2. DOMAIN rx_window' \subseteq SN /\ DOMAIN rx_segments' \subseteq SN
        BY <2>1, <2>4, <2>12
      <3>3. poll_received' \in BOOLEAN /\ do_status' \in BOOLEAN
        BY <1>t, <2>1
      <3>4. reordering_running' \in BOOLEAN
        BY <1>t, <2>1 DEF StillReordering
      <3> QED
        BY <1>t, <3>1, <3>2, <3>3, <3>4 DEF RxTypeOK, StatusPdu, none
    (* Had the lower edge passed vr_x, vr_x would be outside. *)
    <2>15. still /\ ~start => /\ RxBase(r) <= RxBase(vr_x) /\ vr_x # r
                              /\ RxBase(vr_x) <= RxBase(vr_h) /\ reordering_running
      <3> SUFFICES ASSUME still, ~start
                   PROVE  /\ RxBase(r) <= RxBase(vr_x) /\ vr_x # r
                          /\ RxBase(vr_x) <= RxBase(vr_h) /\ reordering_running
        OBVIOUS
      <3>1. /\ vr_x # r /\ reordering_running
            /\ ModBase(vr_x, r) <= ModBase(mr, r)
        <4>1. /\ vr_x # r /\ reordering_running
              /\ InsideRxWindow(vr_x, r, mr) \/ vr_x = mr
          BY DEF StillReordering
        <4>2. ModBase(vr_x, r) \in Nat /\ ModBase(mr, r) \in Nat
          BY <1>t, <2>7, <2>8, ModBaseIsDistance
        <4> QED
          BY <4>1, <4>2 DEF InsideRxWindow
      <3>2. ModBase(mr, r) = RLC_AM_WINDOW_SIZE
        BY <2>7, <2>8, UpperEdge
      <3>3. RxBase(vr_x) > 0 /\ RxBase(vr_x) <= RxBase(vr_h)
        BY <3>1 DEF RxInv, ReorderingInv
      <3>4. ModBase(vr_x, r) = IF RxBase(vr_x) >= RxBase(r)
                               THEN RxBase(vr_x) - RxBase(r)
                               ELSE RxBase(vr_x) - RxBase(r) + MOD
        BY <1>t, <2>7, ModBaseShift DEF RxBase
      <3>5. RxBase(r) <= RLC_AM_WINDOW_SIZE
        BY <2>3, <2>6, <2>7, <2>n, SnAssumption
      <3>6. RxBase(r) \in Nat /\ RxBase(vr_x) \in Nat
        BY <1>t, <2>7, <2>n
      <3> QED
        BY <3>1, <3>2, <3>3, <3>4, <3>5, <3>6, SnAssumption
    <2>16. ReorderingInv'
      <3>1. CASE start
        <4>1. vr_x' = h /\ vr_r' = r /\ vr_h' = h
          BY <2>1, <3>1
        <4>2. ModBase(h, r) > 0 /\ ModBase(h, r) \in Nat
          BY <3>1, <2>3, <2>7, ModBaseIsDistance
        <4> QED
          BY <4>1, <4>2 DEF ReorderingInv, RxBase
      <3>2. CASE still /\ ~start
        <4>1. /\ RxBase(r) <= RxBase(vr_x) /\ vr_x # r
              /\ RxBase(vr_x) <= RxBase(vr_h)
          BY <2>15, <3>2
        <4>2. ModBase(vr_x, r) > 0
          BY <4>1, <1>t, <2>7, ModBaseZero, ModBaseIsDistance
        <4>3. ModBase(vr_x, r) <= ModBase(h, r)
          <5>1. /\ ModBase(vr_x, r) = RxBase(vr_x) - RxBase(r)
                /\ RxBase(vr_x) <= RxBase(h)
            BY <1>t, <2>3, <2>9, <2>n, <4>1
          <5>2. ModBase(h, r) = RxBase(h) - RxBase(r)
            BY <1>t, <2>3, <2>7, <2>9, <2>n, <4>1, <5>1
          <5> QED
            BY <1>t, <2>3, <2>7, <2>n, <5>1, <5>2
        <4>4. vr_x' = vr_x /\ vr_r' = r /\ vr_h' = h
          BY <2>1, <3>2
        <4> QED
          BY <4>2, <4>3, <4>4 DEF ReorderingInv, RxBase
      <3>3. CASE ~still /\ ~start
        BY <2>1, <3>3 DEF ReorderingInv
      <3> QED
        BY <3>1, <3>2, <3>3
    (* Seen from the old lower edge: where vr_x stays, what vr_ms has passed is
       in the window; where it is set, it is vr_h, which vr_ms is not above. *)
    <2>17. CompleteFromVrX'
      <3> SUFFICES ASSUME reordering_running', NEW s \in SN,
                          ModBase(vr_x', r) <= ModBase(s, r), ModBase(s, r) < ModBase(ms, r)
                   PROVE  s \in D \ taken
        BY <2>1, <2>12 DEF CompleteFromVrX, RxBase
      <3>n. /\ ModBase(s, r) \in Nat /\ ModBase(ms, r) \in Nat /\ ModBase(h, r) \in Nat
            /\ RxBase(s) \in Nat /\ RxBase(ms) \in Nat /\ RxBase(r) \in Nat
            /\ RxBase(vr_ms) \in Nat /\ RxBase(vr_x) \in Nat
        BY <1>t, <2>3, <2>6, <2>7, <2>n, ModBaseIsDistance
      <3>1. ~start
        BY <2>1, <2>10, <3>n
      <3>2. vr_x' = vr_x /\ still
        BY <2>1, <3>1
      <3>3. /\ RxBase(r) <= RxBase(vr_x) /\ reordering_running
        BY <2>15, <3>1, <3>2
      <3>4. ModBase(vr_x, r) = RxBase(vr_x) - RxBase(r)
        BY <1>t, <2>9, <3>3
      <3>5. ModBase(ms, r) = RxBase(ms) - RxBase(r)
        BY <2>6, <2>7, <2>9
      <3>6. /\ RxBase(s) = ModBase(s, r) + RxBase(r)
            /\ RxBase(vr_x) <= RxBase(s) /\ RxBase(s) < RxBase(ms)
        <4>1. ModBase(s, r) = IF RxBase(s) >= RxBase(r)
                              THEN RxBase(s) - RxBase(r)
                              ELSE RxBase(s) - RxBase(r) + MOD
          BY <2>7, <1>t, ModBaseShift DEF RxBase
        <4>2. RxBase(ms) <= MOD - 1
          BY <1>t, <2>6, ModBaseIsDistance DEF RxBase
        <4> QED
          BY <4>1, <4>2, <3>2, <3>4, <3>5, <3>n, SnAssumption
      <3>7. s \in D
        <4>1. CASE RxBase(s) < RxBase(vr_ms)
          BY <3>3, <3>6, <4>1 DEF RxInv, CompleteFromVrX
        <4>2. CASE RxBase(vr_ms) <= RxBase(s)
          <5>1. /\ ModBase(s, vr_ms) = RxBase(s) - RxBase(vr_ms)
                /\ ModBase(ms, vr_ms) = RxBase(ms) - RxBase(vr_ms)
            BY <1>t, <2>6, <4>2, ModBaseShift DEF RxBase
          <5>2. ModBase(s, vr_ms) < ModBase(ms, vr_ms)
            BY <5>1, <3>6, <3>n
          <5>3. \A z \in SN \ D : ModBase(ms, vr_ms) <= ModBase(z, vr_ms)
            <6> HIDE DEF D
            <6> QED
              BY <1>t, <2>5, FirstNotInProperty DEF ms
          <5>4. ModBase(ms, vr_ms) \in Nat /\ ModBase(s, vr_ms) \in Nat
            BY <1>t, <2>6, ModBaseIsDistance
          <5> QED
            BY <5>2, <5>3, <5>4
        <4> QED
          BY <3>n, <4>1, <4>2
      <3> QED
        BY <3>3, <3>6, <3>7, <3>n
    <2>18. VrMsMovesOn
      <3>1. ModBase(ms, vr_ms) = RxBase(ms) - RxBase(vr_ms)
        BY <1>t, <2>6, ModBaseShift DEF RxBase
      <3> QED
        BY <1>t, <2>1, <2>3, <2>6, <2>n, <3>1, SnAssumption DEF VrMsMovesOn
    <2> QED
      BY <2>13, <2>14, <2>16, <2>17, <2>18 DEF RxInv
  <1> QED
    BY <1>1, <1>2

(* handle_data_pdu_segment keeps the invariant: a segment that completes its PDU
   is a handle_data_pdu, the first segment of a PDU moves vr_h. *)
LEMMA SegmentKeepsInv ==
    ASSUME RxInv, NEW pdu, pdu.sn \in SN, pdu.p \in BOOLEAN, HandleDataPduSegment(pdu),
           UNCHANGED <<status_prohibit_running, tx_status>>
    PROVE  RxInv' /\ VrMsMovesOn
  <1> DEFINE sn  == pdu.sn
             seg == [so |-> pdu.so, data |-> pdu.data, lsf |-> pdu.lsf]
             all == Insert(rx_segments[sn], seg)
  <1>t. /\ sn \in SN /\ pdu.p \in BOOLEAN
        /\ vr_r \in SN /\ vr_h \in SN /\ vr_x \in SN
        /\ DOMAIN rx_segments \subseteq SN /\ DOMAIN rx_window \subseteq SN
        /\ do_status \in BOOLEAN /\ poll_received \in BOOLEAN
    BY DEF RxInv, RxTypeOK
  <1>1. CASE /\ do_status' = (do_status \/ pdu.p)
             /\ DOMAIN rx_segments' \subseteq SN
             /\ UNCHANGED <<vr_r, vr_mr, vr_x, vr_ms, vr_h, rx_window,
                            poll_received, reordering_running>>
    <2>1. do_status' \in BOOLEAN
      BY <1>t, <1>1
    <2>2. RxTypeOK'
      BY <1>1, <2>1 DEF RxInv, RxTypeOK
    <2>3. RxWindowInv' /\ ReorderingInv' /\ CompleteFromVrX'
      BY <1>1 DEF RxInv, RxWindowInv, ReorderingInv, CompleteFromVrX, RxBase
    <2> QED
      BY <1>1, <2>2, <2>3 DEF RxInv, VrMsMovesOn
  <1>2. CASE HandleDataPdu(sn, FALSE, FullPdu(all),
                 [s \in DOMAIN rx_segments \ {sn} |-> rx_segments[s]],
                 do_status \/ pdu.p)
    <2> DEFINE segs   == [s \in DOMAIN rx_segments \ {sn} |-> rx_segments[s]]
               status == do_status \/ pdu.p
               full   == FullPdu(all)
    <2>1. DOMAIN segs \subseteq SN /\ status \in BOOLEAN /\ FALSE \in BOOLEAN
      BY <1>t
    <2>2. HandleDataPdu(sn, FALSE, full, segs, status)
      BY <1>2
    <2> HIDE DEF segs, status, full, sn
    <2> QED
      BY <1>t, <2>1, <2>2, DataPduKeepsInv
  <1>3. CASE /\ InsideRxWindow(sn, vr_r, vr_mr)
             /\ DOMAIN rx_segments' \subseteq SN
             /\ vr_h' = HighestAfter(sn)
             /\ poll_received' \in BOOLEAN /\ do_status' \in BOOLEAN
             /\ UNCHANGED <<vr_r, vr_mr, vr_x, vr_ms, rx_window, reordering_running>>
    <2>1. RxBase(sn) < RLC_AM_WINDOW_SIZE
      BY <1>t, <1>3, InsideIsNear
    <2>2. /\ vr_h' \in SN /\ RxBase(vr_h) <= RxBase(vr_h')
          /\ RxBase(vr_h') <= RLC_AM_WINDOW_SIZE
      BY <1>t, <1>3, <2>1, HighestMoves
    <2>3. RxTypeOK'
      BY <1>3, <2>2 DEF RxInv, RxTypeOK
    <2>n. \A s \in SN : RxBase(s) \in Nat
      BY <1>t, ModBaseIsDistance DEF RxBase
    <2>4. RxBase(vr_ms) <= RxBase(vr_h')
      <3>1. vr_ms \in SN /\ RxBase(vr_ms) <= RxBase(vr_h)
        BY DEF RxInv, RxTypeOK, RxWindowInv
      <3> QED
        BY <1>t, <2>2, <2>n, <3>1
    <2>5. \A s \in DOMAIN rx_window : RxBase(s) < RxBase(vr_h')
      <3> TAKE s \in DOMAIN rx_window
      <3>1. s \in SN /\ RxBase(s) < RxBase(vr_h)
        BY <1>t DEF RxInv, RxWindowInv
      <3> QED
        BY <1>t, <2>2, <2>n, <3>1
    <2>6. RxWindowInv'
      BY <1>3, <2>2, <2>4, <2>5 DEF RxInv, RxWindowInv, RxBase
    <2>7. ReorderingInv'
      <3>1. reordering_running => RxBase(vr_x) > 0 /\ RxBase(vr_x) <= RxBase(vr_h')
        BY <1>t, <2>2, <2>n DEF RxInv, ReorderingInv
      <3> QED
        BY <1>3, <3>1 DEF ReorderingInv, RxBase
    <2>8. CompleteFromVrX'
      BY <1>3 DEF RxInv, CompleteFromVrX, RxBase
    <2> QED
      BY <1>3, <2>3, <2>6, <2>7, <2>8 DEF RxInv, VrMsMovesOn
  <1>4. CASE /\ ~InsideRxWindow(sn, vr_r, vr_mr)
             /\ do_status' = (do_status \/ pdu.p)
             /\ UNCHANGED <<vr_r, vr_mr, vr_x, vr_ms, vr_h, rx_window, rx_segments,
                            rx_sdu, poll_received, reordering_running, delivered>>
    BY <1>t, <1>1, <1>4
  <1>5. CASE /\ sn \in DOMAIN rx_segments
             /\ rx_segments' = [rx_segments EXCEPT ![sn] = Kept(all)]
             /\ do_status' = (do_status \/ pdu.p)
             /\ UNCHANGED <<vr_r, vr_mr, vr_x, vr_ms, vr_h, rx_window, rx_sdu,
                            poll_received, reordering_running, delivered>>
    <2>1. DOMAIN rx_segments' \subseteq SN
      BY <1>t, <1>5
    <2> QED
      BY <1>1, <1>5, <2>1
  <1>6. CASE /\ InsideRxWindow(sn, vr_r, vr_mr)
             /\ rx_segments' = [s \in DOMAIN rx_segments \cup {sn} |->
                                   IF s = sn THEN {seg} ELSE rx_segments[s]]
             /\ vr_h' = HighestAfter(sn)
             /\ poll_received' = (poll_received \/ pdu.p)
             /\ do_status' = (do_status \/ (pdu.p /\ \/ RxBase(sn) < RxBase(vr_ms)
                                                     \/ RxBase(sn) >= RxBase(vr_mr)))
             /\ UNCHANGED <<vr_r, vr_mr, vr_x, vr_ms, rx_window, rx_sdu,
                            reordering_running, delivered>>
    <2>1. DOMAIN rx_segments' = DOMAIN rx_segments \cup {sn}
      BY <1>6
    <2>2. DOMAIN rx_segments' \subseteq SN
      BY <1>t, <2>1
    <2>3. poll_received' \in BOOLEAN /\ do_status' \in BOOLEAN
      BY <1>t, <1>6
    <2> QED
      BY <1>3, <1>6, <2>2, <2>3
  <1> QED
    BY <1>2, <1>4, <1>5, <1>6 DEF HandleDataPduSegment, StatusOfDiscarded

(* The reordering timer's expiry keeps the invariant: vr_x, from which vr_ms is
   sought, is in the window. *)
LEMMA ReorderingKeepsInv ==
    ASSUME RxInv, ReorderingExpired
    PROVE  RxInv' /\ VrMsMovesOn
  <1> DEFINE ms    == FirstNotIn(vr_x, DOMAIN rx_window)
             again == RxBase(vr_h) > RxBase(ms)
  <1>t. /\ vr_r \in SN /\ vr_x \in SN /\ vr_h \in SN
        /\ DOMAIN rx_window \subseteq SN
        /\ do_status \in BOOLEAN /\ poll_received \in BOOLEAN
    BY DEF RxInv, RxTypeOK
  <1>n. \A s \in SN : RxBase(s) \in Nat
    BY <1>t, ModBaseIsDistance DEF RxBase
  <1>1. /\ reordering_running
        /\ vr_ms' = ms
        /\ do_status' = (do_status \/ poll_received)
        /\ reordering_running' = again
        /\ vr_x' = IF again THEN vr_h ELSE vr_x
        /\ UNCHANGED <<vr_r, vr_mr, vr_h, rx_window, rx_segments, poll_received,
                       status_prohibit_running, tx_status>>
    BY DEF ReorderingExpired
  <1>2. RxBase(vr_x) <= RxBase(vr_h)
    BY <1>1 DEF RxInv, ReorderingInv
  <1>3. vr_h \in SN \ DOMAIN rx_window
    BY <1>t, <1>n DEF RxInv, RxWindowInv
  <1>4. /\ ms \in SN \ DOMAIN rx_window /\ RxBase(ms) <= RxBase(vr_h)
        /\ RxBase(vr_x) <= RxBase(ms)
    BY <1>t, <1>2, <1>3, FirstNotInBetween DEF RxBase
  <1> HIDE DEF ms
  <1>5. RxTypeOK'
    <2>1. do_status' \in BOOLEAN /\ reordering_running' \in BOOLEAN
      BY <1>t, <1>1
    <2>2. vr_ms' \in SN /\ vr_x' \in SN
      BY <1>t, <1>1, <1>4
    <2> QED
      BY <1>1, <2>1, <2>2 DEF RxInv, RxTypeOK
  <1>6. RxWindowInv'
    BY <1>1, <1>4 DEF RxInv, RxWindowInv, RxBase
  <1>7. ReorderingInv'
    <2>1. again => RxBase(vr_h) > 0 /\ RxBase(vr_h) <= RxBase(vr_h)
      BY <1>t, <1>n, <1>4
    <2> QED
      BY <1>1, <2>1 DEF ReorderingInv, RxBase
  <1>8. CompleteFromVrX'
    <2> SUFFICES ASSUME again, NEW s \in SN, RxBase(vr_h) <= RxBase(s), RxBase(s) < RxBase(ms)
                 PROVE  FALSE
      BY <1>1 DEF CompleteFromVrX, RxBase
    <2> QED
      BY <1>t, <1>n, <1>4
  <1>9. VrMsMovesOn
    <2>1. vr_ms \in SN /\ RLC_AM_WINDOW_SIZE \in Nat /\ RxBase(vr_h) <= RLC_AM_WINDOW_SIZE
      BY SnAssumption DEF RxInv, RxTypeOK, RxWindowInv
    <2>2. RxBase(vr_ms) <= RxBase(ms)
      BY <1>t, <1>n, <1>1, <1>4, <2>1 DEF RxInv, CompleteFromVrX
    <2>3. ModBase(ms, vr_ms) = RxBase(ms) - RxBase(vr_ms)
      BY <1>t, <1>4, <2>1, <2>2, ModBaseShift DEF RxBase
    <2> QED
      BY <1>t, <1>n, <1>1, <1>4, <2>1, <2>3 DEF VrMsMovesOn
  <1> QED
    BY <1>5, <1>6, <1>7, <1>8, <1>9 DEF RxInv

(* A STATUS PDU is well formed, whatever the grant. *)
LEMMA StatusIsPdu ==
    ASSUME RxInv, NEW room \in Nat
    PROVE  StatusFor(room) \in StatusPdu
  <1>1. ASSUME NEW top PROVE AckSn(top) \in SN
    <2> DEFINE got == {s \in DOMAIN rx_window : RxBase(s) < RxBase(top)}
    <2>1. vr_r \in SN /\ got \in SUBSET SN
      BY DEF RxInv, RxTypeOK
    <2>2. CASE got = {}
      BY <2>1, <2>2 DEF AckSn
    <2>3. CASE got # {}
      <3>1. AckSn(top) = CHOOSE s \in got : \A t \in got : RxBase(t) <= RxBase(s)
        BY <2>3 DEF AckSn
      <3> HIDE DEF got
      <3>2. \E s \in got : \A t \in got : RxBase(t) <= RxBase(s)
        BY <2>1, <2>3, LastExists DEF RxBase
      <3> QED
        BY <2>1, <3>1, <3>2
    <2> QED
      BY <2>2, <2>3
  <1>2. Missing \subseteq SN
    BY DEF Missing
  <1>3. CASE Cardinality(Missing) <= room
    BY <1>1, <1>2, <1>3 DEF StatusFor, StatusPdu
  <1>4. CASE ~(Cardinality(Missing) <= room)
    <2> DEFINE over == CHOOSE m \in Missing :
                   Cardinality({s \in Missing : RxBase(s) < RxBase(m)}) = room
               fit  == {s \in Missing : RxBase(s) < RxBase(over)}
    <2>1. StatusFor(room) = [ack_sn |-> AckSn(over),
                             nacks  |-> IF AckSn(over) \in fit THEN {} ELSE fit]
      BY <1>4 DEF StatusFor
    <2>2. fit \subseteq SN
      BY <1>2
    <2> HIDE DEF over, fit
    <2> QED
      BY <1>1, <2>1, <2>2 DEF StatusPdu
  <1> QED
    BY <1>3, <1>4

(* write_pdu of any data PDU keeps the invariant. *)
LEMMA WritePduKeepsInv ==
    ASSUME RxInv, NEW pdu, pdu.sn \in SN, pdu.p \in BOOLEAN, RxWritePdu(pdu)
    PROVE  RxInv' /\ VrMsMovesOn
  <1>1. UNCHANGED <<status_prohibit_running, tx_status>>
    BY DEF RxWritePdu
  <1>2. CASE pdu.rf
    <2>1. HandleDataPduSegment(pdu)
      BY <1>2 DEF RxWritePdu
    <2> QED
      BY <1>1, <2>1, SegmentKeepsInv
  <1>3. CASE ~pdu.rf
    <2>1. HandleDataPdu(pdu.sn, pdu.p, pdu.data, rx_segments, do_status)
      BY <1>3 DEF RxWritePdu
    <2>2. DOMAIN rx_segments \subseteq SN /\ do_status \in BOOLEAN
      BY DEF RxInv, RxTypeOK
    <2> QED
      BY <1>1, <2>1, <2>2, DataPduKeepsInv
  <1> QED
    BY <1>2, <1>3

(* Building and sending a STATUS PDU does not touch the window. *)
LEMMA StatusStepsKeepInv ==
    ASSUME RxInv,
           \/ \E room \in Nat : GetStatusPdu(room)
           \/ ResetStatus \/ StatusProhibitExpired \/ UNCHANGED rx_vars
    PROVE  RxInv' /\ VrMsMovesOn
  <1> USE DEF RxInv, RxTypeOK, RxWindowInv, ReorderingInv, CompleteFromVrX, RxBase, VrMsMovesOn
  <1>1. ASSUME NEW room \in Nat, GetStatusPdu(room) PROVE RxInv' /\ VrMsMovesOn
    <2>1. tx_status' \in StatusPdu
      BY <1>1, StatusIsPdu DEF GetStatusPdu
    <2> QED
      BY <1>1, <2>1 DEF GetStatusPdu
  <1>2. CASE ResetStatus
    BY <1>2 DEF ResetStatus
  <1>3. CASE StatusProhibitExpired
    BY <1>3 DEF StatusProhibitExpired
  <1>4. CASE UNCHANGED rx_vars
    BY <1>4 DEF rx_vars
  <1> QED
    BY <1>1, <1>2, <1>3, <1>4

(* Every step of the receiver keeps the invariant. *)
LEMMA StepKeepsInv ==
    ASSUME RxInv, [RxNext]_rx_vars
    PROVE  RxInv' /\ VrMsMovesOn
  <1>1. ASSUME NEW pdu \in DataPdu, RxWritePdu(pdu) PROVE RxInv' /\ VrMsMovesOn
    BY <1>1, WritePduKeepsInv DEF DataPdu
  <1> QED
    BY <1>1, ReorderingKeepsInv, StatusStepsKeepInv DEF RxNext

(* The receiver starts with an empty window. *)
LEMMA InitHasInv ==
    ASSUME RxInit
    PROVE  RxInv
  <1>1. 0 \in SN /\ RLC_AM_WINDOW_SIZE \in SN
    BY SnAssumption DEF SN
  <1>2. RLC_AM_WINDOW_SIZE = (0 + RLC_AM_WINDOW_SIZE) % MOD
    BY SnAssumption
  <1>3. ModBase(0, 0) = 0
    BY <1>1, ModBaseZero
  <1>4. DOMAIN << >> = {}
    OBVIOUS
  <1>5. RxTypeOK
    BY <1>1, <1>4 DEF RxInit, RxTypeOK
  <1>6. RxWindowInv /\ ReorderingInv /\ CompleteFromVrX
    BY <1>2, <1>3, <1>4, SnAssumption
       DEF RxInit, RxWindowInv, ReorderingInv, CompleteFromVrX, RxBase
  <1> QED
    BY <1>5, <1>6 DEF RxInv

(* The inductive invariant holds of every behaviour of the receiver, whatever
   data PDUs its peer sends and whenever its timers expire. *)
THEOREM RxInvHolds == RxSpec => []RxInv
  <1>1. RxInit => RxInv
    BY InitHasInv
  <1>2. RxInv /\ [RxNext]_rx_vars => RxInv'
    BY StepKeepsInv
  <1> QED
    BY <1>1, <1>2, PTL DEF RxSpec

(* The state variables of rlc_am_lte_rx are sequence numbers, its window and its
   segments are indexed by sequence numbers, and the STATUS PDU it hands to the
   transmitter is well formed. *)
THEOREM RxTypeCorrect == RxSpec => []RxTypeOK
  <1>1. RxInv => RxTypeOK
    BY DEF RxInv
  <1> QED
    BY <1>1, RxInvHolds, PTL

(* vr_r, vr_ms, vr_h and vr_mr keep their order on the circle of sequence
   numbers, and nothing above vr_h or at vr_r is held. *)
THEOREM RxWindowCorrect == RxSpec => []RxWindowInv
  <1>1. RxInv => RxWindowInv
    BY DEF RxInv
  <1> QED
    BY <1>1, RxInvHolds, PTL

(* The reordering timer never waits for a number outside the window. *)
THEOREM ReorderingCorrect == RxSpec => []ReorderingInv
  <1>1. RxInv => ReorderingInv
    BY DEF RxInv
  <1> QED
    BY <1>1, RxInvHolds, PTL

(* Sets of sequence numbers are finite. *)
LEMMA FiniteSN ==
    ASSUME NEW S \in SUBSET SN
    PROVE  IsFiniteSet(S) /\ Cardinality(S) \in Nat
  <1>1. IsFiniteSet(SN)
    BY SnAssumption, FS_Interval DEF SN
  <1>2. IsFiniteSet(S)
    BY <1>1, FS_Subset
  <1> QED
    BY <1>2, FS_CardinalityType

(* The numbers of a set, counted from an edge: each has a rank of its own, and every
   rank up to the size of the set is taken. *)
LEMMA Ranks ==
    ASSUME NEW S \in SUBSET SN, NEW e \in SN
    PROVE  \E rank \in [S -> 1..Cardinality(S)] :
              /\ \A x \in S : rank[x] = Cardinality({y \in S : ModBase(y, e) < ModBase(x, e)}) + 1
              /\ \A x, y \in S : ModBase(x, e) < ModBase(y, e) => rank[x] < rank[y]
              /\ \A n \in 1..Cardinality(S) : \E x \in S : rank[x] = n
  <1> DEFINE B(x) == {y \in S : ModBase(y, e) < ModBase(x, e)}
             rank == [x \in S |-> Cardinality(B(x)) + 1]
  <1>1. \A x \in S : x \in SN /\ ModBase(x, e) \in Nat
    BY ModBaseIsDistance
  <1>2. IsFiniteSet(S) /\ Cardinality(S) \in Nat
    BY FiniteSN
  <1>3. ASSUME NEW x \in S
        PROVE  IsFiniteSet(B(x)) /\ Cardinality(B(x)) \in Nat /\ Cardinality(B(x)) < Cardinality(S)
    <2>1. B(x) \in SUBSET S /\ x \notin B(x)
      BY <1>1
    <2> HIDE DEF B
    <2>2. IsFiniteSet(B(x)) /\ Cardinality(B(x)) <= Cardinality(S) /\ Cardinality(B(x)) # Cardinality(S)
      BY <1>2, <2>1, FS_Subset
    <2>3. Cardinality(B(x)) \in Nat
      BY <2>2, FS_CardinalityType
    <2> QED
      BY <1>2, <2>2, <2>3
  <1>4. ASSUME NEW x \in S, NEW y \in S, ModBase(x, e) < ModBase(y, e)
        PROVE  Cardinality(B(x)) < Cardinality(B(y))
    <2>1. B(x) \in SUBSET B(y)
      BY <1>1, <1>4
    <2>2. x \in B(y) /\ x \notin B(x)
      BY <1>1, <1>4
    <2>3. B(x) # B(y)
      BY <2>2
    <2> HIDE DEF B
    <2>4. Cardinality(B(x)) <= Cardinality(B(y)) /\ Cardinality(B(x)) # Cardinality(B(y))
      BY <1>3, <2>1, <2>3, FS_Subset
    <2> QED
      BY <1>3, <2>4
  <1>5. rank \in [S -> 1..Cardinality(S)]
    <2> HIDE DEF B
    <2>1. \A x \in S : Cardinality(B(x)) + 1 \in 1..Cardinality(S)
      BY <1>2, <1>3
    <2> QED
      BY <2>1
  <1>6. \A x, y \in S : ModBase(x, e) < ModBase(y, e) => rank[x] < rank[y]
    <2> HIDE DEF B
    <2>1. \A x, y \in S : ModBase(x, e) < ModBase(y, e) => Cardinality(B(x)) + 1 < Cardinality(B(y)) + 1
      BY <1>3, <1>4
    <2> QED
      BY <2>1
  <1>7. \A x \in S : rank[x] = Cardinality(B(x)) + 1
    OBVIOUS
  <1> HIDE DEF rank
  <1>8. \A x, y \in S : x # y => rank[x] # rank[y]
    <2> TAKE x, y \in S
    <2> HAVE x # y
    <2>1. ModBase(x, e) # ModBase(y, e)
      <3>1. /\ ModBase(x, e) = IF x >= e THEN x - e ELSE x - e + MOD
            /\ ModBase(y, e) = IF y >= e THEN y - e ELSE y - e + MOD
        BY <1>1, ModBaseIsDistance
      <3> QED
        BY <1>1, <3>1, SnAssumption DEF SN
    <2>2. ModBase(x, e) < ModBase(y, e) \/ ModBase(y, e) < ModBase(x, e)
      BY <1>1, <2>1
    <2>3. rank[x] < rank[y] \/ rank[y] < rank[x]
      BY <1>6, <2>2
    <2>4. rank[x] \in Int /\ rank[y] \in Int
      BY <1>5
    <2> QED
      BY <2>3, <2>4
  <1>9. rank \in Surjection(S, 1..Cardinality(S))
    <2>1. rank \in Injection(S, 1..Cardinality(S))
      BY <1>5, <1>8 DEF Injection, IsInjective
    <2>2. IsFiniteSet(1..Cardinality(S)) /\ Cardinality(1..Cardinality(S)) = Cardinality(S)
      BY <1>2, FS_Interval
    <2> QED
      BY <2>1, <2>2, FS_Injection
  <1>10. \A n \in 1..Cardinality(S) : \E x \in S : rank[x] = n
    BY <1>9 DEF Surjection
  <1> QED
    BY <1>5, <1>6, <1>7, <1>10

(* InOrder lists the numbers of a set, each once, in the order of the window. *)
LEMMA InOrderLists ==
    ASSUME NEW S \in SUBSET SN, vt_a \in SN
    PROVE  /\ InOrder(S) \in Seq(S) /\ Len(InOrder(S)) = Cardinality(S)
           /\ \A x \in S : \E i \in 1..Cardinality(S) : InOrder(S)[i] = x
           /\ \A i, j \in 1..Cardinality(S) :
                 i < j => TxBase(InOrder(S)[i]) < TxBase(InOrder(S)[j])
  <1> DEFINE n == Cardinality(S)
             B(x) == {y \in S : ModBase(y, vt_a) < ModBase(x, vt_a)}
  <1>1. n \in Nat
    BY FiniteSN
  <1>2. PICK rank \in [S -> 1..n] :
          /\ \A x \in S : rank[x] = Cardinality(B(x)) + 1
          /\ \A x, y \in S : ModBase(x, vt_a) < ModBase(y, vt_a) => rank[x] < rank[y]
          /\ \A i \in 1..n : \E x \in S : rank[x] = i
    BY Ranks
  <1>3. InOrder(S) = [i \in 1..n |-> CHOOSE x \in S : Cardinality(B(x)) = i - 1]
    BY DEF InOrder, TxBase
  <1>4. \A x \in S : Cardinality(B(x)) \in Nat
    <2> TAKE x \in S
    <2>1. B(x) \in SUBSET SN
      OBVIOUS
    <2> HIDE DEF B
    <2> QED
      BY <2>1, FiniteSN
  <1> HIDE DEF B, n
  <1>5. \A i \in 1..n : InOrder(S)[i] \in S /\ Cardinality(B(InOrder(S)[i])) = i - 1
    <2> TAKE i \in 1..n
    <2>1. \E x \in S : Cardinality(B(x)) = i - 1
      <3>1. PICK x \in S : rank[x] = i
        BY <1>2
      <3> QED
        BY <1>1, <1>2, <1>4, <3>1
    <2>2. InOrder(S)[i] = CHOOSE x \in S : Cardinality(B(x)) = i - 1
      BY <1>3
    <2> QED
      BY <2>1, <2>2
  <1>6. InOrder(S) \in Seq(S) /\ Len(InOrder(S)) = n
    BY <1>1, <1>3, <1>5
  <1>7. \A i \in 1..n : rank[InOrder(S)[i]] = i
    <2> TAKE i \in 1..n
    <2>1. rank[InOrder(S)[i]] = (i - 1) + 1
      BY <1>2, <1>5
    <2> QED
      BY <1>1, <2>1
  <1>8. \A x, y \in S : rank[x] <= rank[y] => ModBase(x, vt_a) <= ModBase(y, vt_a)
    <2> TAKE x, y \in S
    <2>1. ModBase(x, vt_a) \in Nat /\ ModBase(y, vt_a) \in Nat
      BY ModBaseIsDistance
    <2>2. rank[x] \in Int /\ rank[y] \in Int
      BY <1>1, <1>2
    <2>3. ModBase(y, vt_a) < ModBase(x, vt_a) => rank[y] < rank[x]
      BY <1>2
    <2> QED
      BY <2>1, <2>2, <2>3
  <1>9. \A x, y \in S : ModBase(x, vt_a) = ModBase(y, vt_a) => x = y
    <2> TAKE x, y \in S
    <2>1. /\ ModBase(x, vt_a) = IF x >= vt_a THEN x - vt_a ELSE x - vt_a + MOD
          /\ ModBase(y, vt_a) = IF y >= vt_a THEN y - vt_a ELSE y - vt_a + MOD
      BY ModBaseIsDistance
    <2> QED
      BY <2>1, SnAssumption DEF SN
  <1>10. \A x \in S : \E i \in 1..n : InOrder(S)[i] = x
    <2> TAKE x \in S
    <2> DEFINE i == rank[x]
    <2>1. i \in 1..n
      BY <1>2
    <2>2. InOrder(S)[i] \in S /\ rank[InOrder(S)[i]] = rank[x]
      BY <1>5, <1>7, <2>1
    <2> HIDE DEF i
    <2>3. /\ ModBase(InOrder(S)[i], vt_a) <= ModBase(x, vt_a)
          /\ ModBase(x, vt_a) <= ModBase(InOrder(S)[i], vt_a)
      BY <1>1, <1>2, <1>8, <2>2
    <2>4. ModBase(InOrder(S)[i], vt_a) \in Nat /\ ModBase(x, vt_a) \in Nat
      BY <2>2, ModBaseIsDistance
    <2>5. InOrder(S)[i] = x
      BY <1>9, <2>2, <2>3, <2>4
    <2> QED
      BY <2>1, <2>5
  <1>11. ASSUME NEW i \in 1..n, NEW j \in 1..n, i < j
         PROVE  TxBase(InOrder(S)[i]) < TxBase(InOrder(S)[j])
    <2>1. /\ InOrder(S)[i] \in S /\ InOrder(S)[j] \in S
          /\ rank[InOrder(S)[i]] = i /\ rank[InOrder(S)[j]] = j
      BY <1>5, <1>7
    <2>2. ~(rank[InOrder(S)[j]] <= rank[InOrder(S)[i]])
      BY <1>1, <1>11, <2>1
    <2> DEFINE a == InOrder(S)[i]
               b == InOrder(S)[j]
    <2>3. a \in S /\ b \in S /\ rank[a] \in Int /\ rank[b] \in Int /\ rank[a] < rank[b]
      BY <1>1, <1>11, <2>1
    <2> HIDE DEF a, b
    <2>4. ModBase(a, vt_a) \in Nat /\ ModBase(b, vt_a) \in Nat
      BY <2>3, ModBaseIsDistance
    <2>5. ModBase(a, vt_a) <= ModBase(b, vt_a)
      BY <1>8, <2>3
    <2>6. ModBase(a, vt_a) # ModBase(b, vt_a)
      BY <1>9, <2>3
    <2> QED
      BY <2>4, <2>5, <2>6 DEF TxBase, a, b
  <1> QED
    BY <1>6, <1>10, <1>11 DEF n

-----------------------------------------------------------------------------
(* The types of the transmitter, with what TypeOK leaves out of them: what a  *)
(* PDU of the window and an entry of the retransmission queue are.            *)
\* What tx_window holds of a PDU.
TxPdu == [data : Seq(SduByte), retx_count : 0..MaxRetx]
\* An entry of the retransmission queue.
Retx == [sn : SN, is_segment : BOOLEAN, so_start : Nat, so_end : Nat]
\* poll_retx_timer.
PollTimer == {"stopped", "running", "expired"}

(* Data PDUs in flight: nothing is said here about what they carry. *)
PdusInFlight ==
    \E P : pdu_list \in Seq(P) /\ \A pdu \in P : pdu.sn \in SN /\ pdu.p \in BOOLEAN

\* The transmit window and the retransmission queue.
WindowTypes ==
    /\ DOMAIN tx_window \subseteq SN
    /\ \A s \in DOMAIN tx_window : tx_window[s] \in TxPdu
    /\ retx_queue \in Seq(Retx)
    /\ vt_a \in SN /\ vt_ms \in SN /\ vt_s \in SN

\* The transmitter.
TxTypes ==
    /\ WindowTypes /\ PdusInFlight
    /\ accepted \in 0..MaxSdus
    /\ tx_sdu_queue \in Seq(1..MaxSdus)
    /\ tx_sdu \in Seq(SduByte)
    /\ pdu_without_poll \in 0..PollPdu
    /\ poll_retx_timer \in PollTimer
    /\ poll_callback \in BOOLEAN /\ max_retx_attempted \in BOOLEAN

(* The bytes build_data_pdu may take: the rest of the SDU being sent, then the queue. *)
Waiting == Pending(tx_sdu, tx_sdu_queue)

(* The bytes that wait to be sent. *)
LEMMA WaitingType ==
    ASSUME TxTypes
    PROVE  Waiting \in Seq(SduByte)
  BY PendingType DEF Waiting, TxTypes

(* poll_required is decided with a counter that is reset at PollPdu + 1. *)
LEMMA PollTypes ==
    ASSUME NEW without_poll \in 0..PollPdu, NEW timer \in PollTimer, NEW sdus, NEW retxs,
           NEW poll, poll = PollRequired(without_poll + 1, timer, sdus, retxs)
    PROVE  /\ poll \in BOOLEAN
           /\ CountAfter(poll, without_poll + 1) \in 0..PollPdu
           /\ TimerAfter(poll, timer) \in PollTimer
  <1>1. poll \in BOOLEAN
    BY DEF PollRequired
  <1>2. CountAfter(poll, without_poll + 1) \in 0..PollPdu
    <2>1. CASE poll \/ PollPdu = 0
      BY <2>1, TxAssumption DEF CountAfter
    <2>2. CASE ~(poll \/ PollPdu = 0)
      <3>1. ~(PollPdu > 0 /\ without_poll + 1 > PollPdu)
        BY <2>2 DEF PollRequired
      <3>2. without_poll + 1 \in 0..PollPdu
        BY <2>2, <3>1, TxAssumption
      <3> QED
        BY <2>2, <3>2 DEF CountAfter
    <2> QED
      BY <2>1, <2>2
  <1> QED
    BY <1>1, <1>2 DEF TimerAfter, PollTimer

(* A PDU put into flight with a number and a poll bit. *)
LEMMA OneMoreInFlight ==
    ASSUME PdusInFlight, NEW pdu, pdu.sn \in SN, pdu.p \in BOOLEAN,
           pdu_list' = Append(pdu_list, pdu)
    PROVE  PdusInFlight'
  <1>1. PICK P : pdu_list \in Seq(P) /\ \A x \in P : x.sn \in SN /\ x.p \in BOOLEAN
    BY DEF PdusInFlight
  <1>2. pdu_list \in Seq(P \cup {pdu})
    BY <1>1, SeqMonotonic
  <1>3. pdu_list' \in Seq(P \cup {pdu})
    BY <1>2, AppendProperties
  <1> QED
    BY <1>1, <1>3 DEF PdusInFlight

(* build_data_pdu: the part of a read that sends new bytes. *)
LEMMA DataPartTypes ==
    ASSUME TxTypes, NEW g \in Nat, NEW retxs \in Seq(Retx), NEW without_poll \in 0..PollPdu,
           NEW timer \in PollTimer, DataPart(g, retxs, without_poll, timer)
    PROVE  TxTypes'
  <1>1. CASE BuildDataPdu(g, retxs, without_poll, timer)
    <2>1. PICK n \in 1..g :
            /\ n <= Len(Waiting)
            /\ LET data == SubSeq(Waiting, 1, n)
                   id   == data[n][1]
                   k    == data[n][2]
                   left == LeftOf(tx_sdu_queue, id)
                   poll == PollRequired(without_poll + 1, timer, left, retxs)
               IN /\ tx_sdu' = Rest(id, k)
                  /\ tx_sdu_queue' = left
                  /\ pdu_without_poll' = CountAfter(poll, without_poll + 1)
                  /\ poll_retx_timer' = TimerAfter(poll, timer)
                  /\ vt_s' = Inc(vt_s)
                  /\ tx_window' = [s \in DOMAIN tx_window \cup {vt_s} |->
                                      IF s = vt_s THEN [data |-> data, retx_count |-> 0]
                                      ELSE tx_window[s]]
                  /\ pdu_list' = Append(pdu_list,
                        [sn |-> vt_s, p |-> poll, rf |-> FALSE,
                         so |-> 0, lsf |-> FALSE, data |-> data])
      BY <1>1 DEF BuildDataPdu, Waiting
    <2> DEFINE data == SubSeq(Waiting, 1, n)
               id   == data[n][1]
               k    == data[n][2]
               left == LeftOf(tx_sdu_queue, id)
               poll == PollRequired(without_poll + 1, timer, left, retxs)
    <2>2. /\ retx_queue' = retxs
          /\ UNCHANGED <<accepted, vt_a, vt_ms, poll_callback, max_retx_attempted>>
      BY <1>1 DEF BuildDataPdu
    <2>3. /\ data \in Seq(SduByte) /\ Len(data) = n
          /\ id \in 1..MaxSdus /\ k \in 1..SduLen
      <3>1. Waiting \in Seq(SduByte) /\ \A i \in 1..n : Waiting[i] \in SduByte
        BY <2>1, WaitingType, ElementOfSeq
      <3>2. data \in Seq(SduByte) /\ Len(data) = n
        BY <2>1, <3>1, SubSeqProperties
      <3>3. data[n] \in SduByte
        BY <2>1, <3>2, ElementOfSeq
      <3> QED
        BY <3>2, <3>3 DEF SduByte
    <2>4. tx_sdu' \in Seq(SduByte)
      BY <2>1, <2>3, RestType
    <2>5. tx_sdu_queue' \in Seq(1..MaxSdus)
      <3>1. tx_sdu_queue \in Seq(1..MaxSdus)
        BY DEF TxTypes
      <3> QED
        BY <2>1, <3>1, LeftOfType
    <2> HIDE DEF left, id, k
    <2>6. /\ poll \in BOOLEAN /\ pdu_without_poll' \in 0..PollPdu /\ poll_retx_timer' \in PollTimer
      <3>1. /\ pdu_without_poll' = CountAfter(poll, without_poll + 1)
            /\ poll_retx_timer' = TimerAfter(poll, timer)
        BY <2>1 DEF left, id
      <3> QED
        BY <3>1, PollTypes
    <2>7. WindowTypes'
      <3>1. /\ vt_s' = Inc(vt_s)
            /\ tx_window' = [s \in DOMAIN tx_window \cup {vt_s} |->
                                IF s = vt_s THEN [data |-> data, retx_count |-> 0]
                                ELSE tx_window[s]]
        BY <2>1
      <3>2. [data |-> data, retx_count |-> 0] \in TxPdu
        BY <2>3, TxAssumption DEF TxPdu
      <3> HIDE DEF data
      <3>3. /\ DOMAIN tx_window' \subseteq SN
            /\ \A s \in DOMAIN tx_window' : tx_window'[s] \in TxPdu
        BY <3>1, <3>2 DEF TxTypes, WindowTypes
      <3>4. vt_s' \in SN
        BY <3>1, IncIsStep DEF TxTypes, WindowTypes
      <3> QED
        BY <2>2, <3>3, <3>4 DEF TxTypes, WindowTypes
    <2>8. PdusInFlight'
      <3>1. pdu_list' = Append(pdu_list, [sn |-> vt_s, p |-> poll, rf |-> FALSE,
                                          so |-> 0, lsf |-> FALSE, data |-> data])
        BY <2>1 DEF left, id
      <3> HIDE DEF poll, data
      <3> QED
        BY <2>6, <3>1, OneMoreInFlight DEF TxTypes, WindowTypes
    <2> QED
      BY <2>2, <2>4, <2>5, <2>6, <2>7, <2>8 DEF TxTypes
  <1>2. CASE NoDataPdu(retxs, without_poll, timer)
    BY <1>2 DEF NoDataPdu, TxTypes, WindowTypes, PdusInFlight
  <1> QED
    BY <1>1, <1>2 DEF DataPart

(* Every retx_queue that retransmit_random_pdu may leave is one. *)
LEMMA RandomRetxType ==
    ASSUME WindowTypes, NEW q \in RandomRetx
    PROVE  q \in Seq(Retx)
  <1>1. retx_queue \in Seq(Retx)
    BY DEF WindowTypes
  <1>2. ASSUME NEW sn \in DOMAIN tx_window PROVE WholeRetx(sn) \in Retx
    <2>1. sn \in SN /\ tx_window[sn] \in TxPdu
      BY DEF WindowTypes
    <2>2. Len(tx_window[sn].data) \in Nat
      BY <2>1, LenProperties DEF TxPdu
    <2> QED
      BY <2>1, <2>2 DEF WholeRetx, Retx
  <1>3. \A sn \in DOMAIN tx_window : Append(retx_queue, WholeRetx(sn)) \in Seq(Retx)
    BY <1>1, <1>2, AppendProperties
  <1> QED
    BY <1>1, <1>3 DEF RandomRetx

(* DropAcked leaves a suffix: it is empty or begins with a number of the window. *)
LEMMA DropAckedType ==
    ASSUME WindowTypes, NEW q \in Seq(Retx)
    PROVE  /\ DropAcked(q) \in Seq(Retx)
           /\ DropAcked(q) # << >> =>
                /\ Head(DropAcked(q)) \in Retx
                /\ Tail(DropAcked(q)) \in Seq(Retx)
                /\ Head(DropAcked(q)).sn \in DOMAIN tx_window
  <1> DEFINE live == {i \in 1..Len(q) : q[i].sn \in DOMAIN tx_window}
             first == CHOOSE i \in live : \A j \in live : i <= j
  <1>1. Len(q) \in Nat
    BY LenProperties
  <1>2. CASE live = {}
    BY <1>2, EmptySeq DEF DropAcked
  <1>3. CASE live # {}
    <2>1. live \in SUBSET Nat
      BY <1>1
    <2>2. \E i \in live : \A j \in live : i <= j
      BY <1>3, <2>1, LeastOfNaturals
    <2>3. first \in live
      BY <2>2
    <2>4. first \in 1..Len(q) /\ q[first].sn \in DOMAIN tx_window
      BY <2>3
    <2>5. DropAcked(q) = SubSeq(q, first, Len(q))
      BY <1>3 DEF DropAcked
    <2> HIDE DEF first, live
    <2>6. \A i \in first..Len(q) : i \in 1..Len(q)
      BY <1>1, <2>4
    <2>7. \A i \in first..Len(q) : q[i] \in Retx
      BY <2>6, ElementOfSeq
    <2>8. first \in Int /\ Len(q) \in Int /\ first <= Len(q)
      BY <1>1, <2>4
    <2>9. /\ SubSeq(q, first, Len(q)) \in Seq(Retx)
          /\ Len(SubSeq(q, first, Len(q))) = Len(q) - first + 1
          /\ \A i \in 1..(Len(q) - first + 1) : SubSeq(q, first, Len(q))[i] = q[first + i - 1]
      BY <2>7, <2>8, SubSeqProperties
    <2>10. Len(q) - first + 1 \in Nat \ {0} /\ first + 1 - 1 = first
           /\ 1 \in 1..(Len(q) - first + 1)
      BY <2>8
    <2>11. DropAcked(q) # << >>
      BY <2>5, <2>9, <2>10, EmptySeq
    <2>12. /\ Head(DropAcked(q)) = DropAcked(q)[1]
           /\ Head(DropAcked(q)) \in Retx
           /\ Tail(DropAcked(q)) \in Seq(Retx)
      BY <2>5, <2>9, <2>11, HeadTailProperties
    <2> QED
      BY <2>4, <2>5, <2>9, <2>10, <2>12
  <1> QED
    BY <1>2, <1>3

(* build_retx_pdu. *)
LEMMA RetxWholeTypes ==
    ASSUME TxTypes, NEW retxs \in Seq(Retx), retxs # << >>,
           Head(retxs).sn \in DOMAIN tx_window, RetxWhole(retxs)
    PROVE  TxTypes'
  <1> DEFINE sn == Head(retxs).sn
             more == tx_window[sn].retx_count + 1
             kept == IF more > MaxRetx THEN MaxRetx ELSE more
             poll == PollRequired(pdu_without_poll + 1, poll_retx_timer, tx_sdu_queue, retxs)
  <1>1. sn \in SN /\ tx_window[sn] \in TxPdu
    BY DEF TxTypes, WindowTypes
  <1>2. kept \in 0..MaxRetx
    BY <1>1, TxAssumption DEF TxPdu
  <1>3. tx_window' = [tx_window EXCEPT ![sn].retx_count = kept]
    BY DEF RetxWhole
  <1>4. \A s \in DOMAIN tx_window' : s \in SN /\ tx_window'[s] \in TxPdu
    <2> HIDE DEF kept
    <2>1. DOMAIN tx_window' = DOMAIN tx_window
      BY <1>3
    <2>2. \A s \in DOMAIN tx_window :
            tx_window'[s] = IF s = sn THEN [tx_window[s] EXCEPT !.retx_count = kept] ELSE tx_window[s]
      BY <1>3
    <2>3. \A s \in DOMAIN tx_window : s \in SN /\ tx_window[s] \in TxPdu
      BY DEF TxTypes, WindowTypes
    <2> QED
      BY <1>2, <2>1, <2>2, <2>3 DEF TxPdu
  <1>5. /\ poll \in BOOLEAN
        /\ pdu_without_poll' \in 0..PollPdu /\ poll_retx_timer' \in PollTimer
    <2>1. /\ pdu_without_poll' = CountAfter(poll, pdu_without_poll + 1)
          /\ poll_retx_timer' = TimerAfter(poll, poll_retx_timer)
      BY DEF RetxWhole
    <2>2. pdu_without_poll \in 0..PollPdu /\ poll_retx_timer \in PollTimer
      BY DEF TxTypes
    <2> QED
      BY <2>1, <2>2, PollTypes
  <1>6. PdusInFlight'
    <2>1. pdu_list' = Append(pdu_list, [sn |-> sn, p |-> poll, rf |-> FALSE, so |-> 0,
                                        lsf |-> FALSE, data |-> tx_window[sn].data])
      BY DEF RetxWhole
    <2> HIDE DEF poll, sn
    <2> QED
      BY <1>1, <1>5, <2>1, OneMoreInFlight DEF TxTypes
  <1>7. retx_queue' \in Seq(Retx)
    BY HeadTailProperties DEF RetxWhole
  <1>8. max_retx_attempted' \in BOOLEAN
    BY DEF RetxWhole
  <1>9. UNCHANGED <<accepted, tx_sdu_queue, tx_sdu, vt_a, vt_ms, vt_s, poll_callback>>
    BY DEF RetxWhole
  <1> QED
    BY <1>4, <1>5, <1>6, <1>7, <1>8, <1>9 DEF TxTypes, WindowTypes

(* build_segment. *)
LEMMA RetxSegmentTypes ==
    ASSUME TxTypes, NEW retxs \in Seq(Retx), retxs # << >>, NEW room \in Nat,
           Head(retxs).sn \in DOMAIN tx_window, RetxSegment(retxs, room)
    PROVE  TxTypes'
  <1> DEFINE retx == Head(retxs)
             data == tx_window[retx.sn].data
             end  == IF room < retx.so_end - retx.so_start
                     THEN retx.so_start + room ELSE retx.so_end
             poll == PollRequired(pdu_without_poll + 1, poll_retx_timer, tx_sdu_queue, retxs)
             rest == [retx EXCEPT !.is_segment = TRUE, !.so_start = end]
  <1>1. retx \in Retx /\ Tail(retxs) \in Seq(Retx)
    BY HeadTailProperties
  <1>2. end \in Nat
    BY <1>1 DEF Retx
  <1>3. rest \in Retx
    <2> HIDE DEF end
    <2> QED
      BY <1>1, <1>2 DEF Retx
  <1>4. retx_queue' \in Seq(Retx)
    <2>1. retx_queue' = IF end \in {Len(data), retx.so_end} THEN Tail(retxs)
                        ELSE << rest >> \o Tail(retxs)
      BY DEF RetxSegment
    <2> HIDE DEF rest, end, data
    <2>2. << rest >> \in Seq(Retx)
      BY <1>3
    <2>3. << rest >> \o Tail(retxs) \in Seq(Retx)
      BY <1>1, <2>2, ConcatProperties
    <2> QED
      BY <1>1, <2>1, <2>3
  <1>5. /\ poll \in BOOLEAN
        /\ pdu_without_poll' \in 0..PollPdu /\ poll_retx_timer' \in PollTimer
    <2>1. /\ pdu_without_poll' = CountAfter(poll, pdu_without_poll + 1)
          /\ poll_retx_timer' = TimerAfter(poll, poll_retx_timer)
      BY DEF RetxSegment
    <2>2. pdu_without_poll \in 0..PollPdu /\ poll_retx_timer \in PollTimer
      BY DEF TxTypes
    <2> QED
      BY <2>1, <2>2, PollTypes
  <1>6. PdusInFlight'
    <2>1. pdu_list' = Append(pdu_list,
             [sn |-> retx.sn, p |-> poll, rf |-> TRUE, so |-> retx.so_start,
              lsf |-> end = Len(data), data |-> SubSeq(data, retx.so_start + 1, end)])
      BY DEF RetxSegment
    <2>2. retx.sn \in SN
      BY <1>1 DEF Retx
    <2> HIDE DEF poll, retx, end, data
    <2> QED
      BY <1>5, <2>1, <2>2, OneMoreInFlight DEF TxTypes
  <1>7. UNCHANGED <<accepted, tx_sdu_queue, tx_sdu, tx_window, vt_a, vt_ms, vt_s,
                    poll_callback, max_retx_attempted>>
    BY DEF RetxSegment
  <1> QED
    BY <1>4, <1>5, <1>6, <1>7 DEF TxTypes, WindowTypes

(* read_pdu, all of it. *)
LEMMA ReadPduTypes ==
    ASSUME TxTypes, NEW g \in Nat, ReadPdu(g)
    PROVE  TxTypes'
  <1>1. PICK q \in RetxAtGrant :
          LET retxs == DropAcked(q)
              retx  == Head(retxs)
              whole == ~retx.is_segment /\ Len(tx_window[retx.sn].data) <= g
          IN \/ retxs # << >> /\ whole /\ RetxWhole(retxs)
             \/ retxs # << >> /\ ~whole /\ g > SegHdr /\ RetxSegment(retxs, g - SegHdr)
             \/ retxs # << >> /\ ~whole /\ g <= SegHdr /\ RetxNoRoom(retxs, g)
             \/ retxs = << >> /\ DataPart(g, retxs, pdu_without_poll, poll_retx_timer)
    BY DEF ReadPdu
  <1>2. WindowTypes /\ pdu_without_poll \in 0..PollPdu /\ poll_retx_timer \in PollTimer
    BY DEF TxTypes
  <1>3. q \in Seq(Retx)
    BY <1>2, RandomRetxType DEF RetxAtGrant, WindowTypes
  <1> DEFINE retxs == DropAcked(q)
  <1>4. /\ retxs \in Seq(Retx)
        /\ retxs # << >> => Head(retxs).sn \in DOMAIN tx_window
    BY <1>2, <1>3, DropAckedType
  <1>5. \/ retxs # << >> /\ RetxWhole(retxs)
        \/ retxs # << >> /\ g > SegHdr /\ RetxSegment(retxs, g - SegHdr)
        \/ RetxNoRoom(retxs, g)
        \/ DataPart(g, retxs, pdu_without_poll, poll_retx_timer)
    BY <1>1
  <1> HIDE DEF retxs
  <1>6. CASE retxs # << >> /\ RetxWhole(retxs)
    BY <1>4, <1>6, RetxWholeTypes
  <1>7. CASE retxs # << >> /\ g > SegHdr /\ RetxSegment(retxs, g - SegHdr)
    <2>1. g - SegHdr \in Nat
      BY <1>7, TxAssumption
    <2> QED
      BY <1>4, <1>7, <2>1, RetxSegmentTypes
  <1>8. CASE RetxNoRoom(retxs, g)
    <2> DEFINE poll == PollRequired(pdu_without_poll + 1, poll_retx_timer, tx_sdu_queue, retxs)
    <2>1. /\ CountAfter(poll, pdu_without_poll + 1) \in 0..PollPdu
          /\ TimerAfter(poll, poll_retx_timer) \in PollTimer
      BY <1>2, PollTypes
    <2>2. DataPart(g, retxs, CountAfter(poll, pdu_without_poll + 1), TimerAfter(poll, poll_retx_timer))
      BY <1>8 DEF RetxNoRoom
    <2> HIDE DEF poll
    <2> QED
      BY <1>4, <2>1, <2>2, DataPartTypes
  <1>9. CASE DataPart(g, retxs, pdu_without_poll, poll_retx_timer)
    BY <1>2, <1>4, <1>9, DataPartTypes
  <1> QED
    BY <1>5, <1>6, <1>7, <1>8, <1>9

(* handle_control_pdu. *)
LEMMA HandleControlPduTypes ==
    ASSUME TxTypes, NEW status, HandleControlPdu(status)
    PROVE  TxTypes'
  <1> DEFINE covered == Covered(status.ack_sn)
             nacked  == covered \cap status.nacks
             acked   == Acked(covered, nacked)
             lost    == nacked \cap DOMAIN tx_window
             again   == InOrder(lost)
             kept    == IF status.nacks # {} THEN << >> ELSE retx_queue
  <1>1. WindowTypes
    BY DEF TxTypes
  <1>2. retx_queue' \in Seq(Retx)
    <2>1. kept \in Seq(Retx)
      BY <1>1, EmptySeq DEF WindowTypes
    <2>2. lost \in SUBSET DOMAIN tx_window /\ lost \in SUBSET SN /\ vt_a \in SN
      BY <1>1 DEF WindowTypes
    <2> HIDE DEF lost, kept
    <2>3. again \in Seq(lost) /\ Len(again) = Cardinality(lost) /\ Len(again) \in Nat
      BY <2>2, InOrderLists, FiniteSN
    <2>4. \A n \in 1..Len(again) : again[n] \in lost
      BY <2>3, ElementOfSeq
    <2>5. \A sn \in lost : WholeRetx(sn) \in Retx
      <3> TAKE sn \in lost
      <3>1. sn \in SN /\ tx_window[sn] \in TxPdu
        BY <1>1, <2>2 DEF WindowTypes
      <3>2. Len(tx_window[sn].data) \in Nat
        BY <3>1, LenProperties DEF TxPdu
      <3> QED
        BY <3>1, <3>2 DEF WholeRetx, Retx
    <2> HIDE DEF again
    <2>6. [n \in 1..Len(again) |-> WholeRetx(again[n])] \in Seq(Retx)
      BY <2>3, <2>4, <2>5
    <2>7. retx_queue' = kept \o [n \in 1..Len(again) |-> WholeRetx(again[n])]
      BY DEF HandleControlPdu, kept, again, lost
    <2> QED
      BY <2>1, <2>6, <2>7, ConcatProperties
  <1>3. /\ DOMAIN tx_window' \subseteq SN
        /\ \A s \in DOMAIN tx_window' : tx_window'[s] \in TxPdu
    <2>1. tx_window' = [i \in DOMAIN tx_window \ acked |-> tx_window[i]]
      BY DEF HandleControlPdu
    <2> HIDE DEF acked
    <2> QED
      BY <1>1, <2>1 DEF WindowTypes
  <1>4. vt_a' \in SN /\ vt_ms' \in SN
    <2>1. vt_a' = (vt_a + Cardinality(acked)) % MOD /\ vt_ms' = (vt_ms + Cardinality(acked)) % MOD
      BY DEF HandleControlPdu
    <2>2. acked \in SUBSET SN
      BY DEF Acked, Covered
    <2> HIDE DEF acked
    <2>3. Cardinality(acked) \in Nat
      BY <2>2, FiniteSN
    <2> HIDE <2>2
    <2>4. vt_a + Cardinality(acked) \in Nat /\ vt_ms + Cardinality(acked) \in Nat
      BY <1>1, <2>3, SnAssumption DEF WindowTypes, SN
    <2>5. \A x \in Nat : x % MOD \in SN
      BY SnAssumption DEF SN
    <2> QED
      BY <2>1, <2>4, <2>5
  <1>5. poll_retx_timer' \in PollTimer
    <2>1. poll_retx_timer' = IF poll_retx_timer = "running" THEN "stopped" ELSE poll_retx_timer
      BY DEF HandleControlPdu
    <2> QED
      BY <2>1 DEF TxTypes, PollTimer
  <1>6. UNCHANGED <<accepted, tx_sdu_queue, tx_sdu, vt_s, pdu_without_poll,
                    poll_callback, max_retx_attempted, pdu_list>>
    BY DEF HandleControlPdu
  <1> QED
    BY <1>2, <1>3, <1>4, <1>5, <1>6 DEF TxTypes, WindowTypes, PdusInFlight

(* The remaining steps of the transmitter. *)
LEMMA OtherTxTypes ==
    ASSUME TxTypes, WriteSdu \/ PollRetxExpires \/ PollRetxCallback
    PROVE  TxTypes'
  <1>1. CASE WriteSdu
    <2>1. accepted + 1 \in 1..MaxSdus
      BY <1>1, SduAssumption DEF TxTypes, WriteSdu
    <2>2. tx_sdu_queue' \in Seq(1..MaxSdus)
      BY <1>1, <2>1, AppendProperties DEF TxTypes, WriteSdu
    <2> QED
      BY <1>1, <2>1, <2>2 DEF TxTypes, WindowTypes, PdusInFlight, WriteSdu
  <1>2. CASE PollRetxExpires
    BY <1>2 DEF TxTypes, WindowTypes, PdusInFlight, PollRetxExpires, PollTimer
  <1>3. CASE PollRetxCallback
    <2>1. retx_queue' \in RandomRetx \cup {retx_queue}
      BY <1>3 DEF PollRetxCallback
    <2>2. retx_queue' \in Seq(Retx)
      BY <2>1, RandomRetxType DEF TxTypes, WindowTypes
    <2> QED
      BY <1>3, <2>2 DEF TxTypes, WindowTypes, PdusInFlight, PollRetxCallback
  <1> QED
    BY <1>1, <1>2, <1>3

(* Both entities and what is between them, together. *)
AmTypes ==
    /\ TxTypes /\ RxInv
    /\ overtaken \in BOOLEAN
    /\ status_list \in Seq(StatusPdu)

(* What is said of the PDUs in flight, one by one. *)
LEMMA InFlightTypes ==
    ASSUME PdusInFlight
    PROVE  \A n \in 1..Len(pdu_list) : pdu_list[n].sn \in SN /\ pdu_list[n].p \in BOOLEAN
  <1>1. PICK P : pdu_list \in Seq(P) /\ \A pdu \in P : pdu.sn \in SN /\ pdu.p \in BOOLEAN
    BY DEF PdusInFlight
  <1> QED
    BY <1>1, ElementOfSeq

(* A PDU taken out of flight. *)
LEMMA FewerInFlight ==
    ASSUME PdusInFlight, NEW n \in 1..Len(pdu_list),
           pdu_list' = Tail(pdu_list) \/ pdu_list' = RemoveAt(pdu_list, n)
    PROVE  PdusInFlight'
  <1>1. PICK P : pdu_list \in Seq(P) /\ \A pdu \in P : pdu.sn \in SN /\ pdu.p \in BOOLEAN
    BY DEF PdusInFlight
  <1>2. pdu_list # << >>
    BY <1>1, EmptySeq, LenProperties
  <1>3. Tail(pdu_list) \in Seq(P) /\ RemoveAt(pdu_list, n) \in Seq(P)
    BY <1>1, <1>2, HeadTailProperties, RemoveAtProperties
  <1> QED
    BY <1>1, <1>3 DEF PdusInFlight

(* The steps of the MAC that hand a data PDU to the receiver or lose it. *)
LEMMA DeliveryTypes ==
    ASSUME AmTypes, Deliver \/ Duplicate \/ Overtake \/ Lose
    PROVE  AmTypes' /\ VrMsMovesOn
  <1> DEFINE Carried == \A n \in 1..Len(pdu_list) : pdu_list[n].sn \in SN /\ pdu_list[n].p \in BOOLEAN
  <1>0. TxTypes /\ PdusInFlight /\ RxInv /\ Len(pdu_list) \in Nat
    BY LenProperties DEF AmTypes, TxTypes, PdusInFlight
  <1>1. Carried
    BY <1>0, InFlightTypes
  <1>2. pdu_list # << >> => 1 \in 1..Len(pdu_list) /\ Head(pdu_list) = pdu_list[1]
    <2>1. PICK P : pdu_list \in Seq(P)
      BY <1>0 DEF PdusInFlight
    <2> QED
      BY <2>1, EmptySeq, HeadTailProperties
  <1>3. ASSUME NEW n \in 1..Len(pdu_list), RxWritePdu(pdu_list[n])
        PROVE  RxInv' /\ VrMsMovesOn
    BY <1>0, <1>1, <1>3, WritePduKeepsInv
  <1>4. ASSUME UNCHANGED tx_own, PdusInFlight' PROVE TxTypes'
    BY <1>0, <1>4 DEF TxTypes, WindowTypes, tx_own
  <1>5. CASE Deliver
    <2>1. RxInv' /\ VrMsMovesOn
      BY <1>2, <1>3, <1>5 DEF Deliver
    <2>2. PdusInFlight'
      BY <1>0, <1>2, <1>5, FewerInFlight DEF Deliver
    <2> QED
      BY <1>4, <1>5, <2>1, <2>2 DEF Deliver, AmTypes
  <1>6. CASE Duplicate
    <2>1. RxInv' /\ VrMsMovesOn
      BY <1>2, <1>3, <1>6 DEF Duplicate
    <2>2. UNCHANGED <<tx_own, pdu_list>>
      BY <1>6 DEF Duplicate, tx_vars, tx_own
    <2>3. PdusInFlight'
      BY <1>0, <2>2 DEF PdusInFlight
    <2> QED
      BY <1>4, <1>6, <2>1, <2>2, <2>3 DEF Duplicate, AmTypes
  <1>7. CASE Overtake
    <2>1. 2 \in 1..Len(pdu_list)
      BY <1>0, <1>7 DEF Overtake
    <2>2. RxInv' /\ VrMsMovesOn
      BY <1>3, <1>7, <2>1 DEF Overtake
    <2>3. PdusInFlight'
      BY <1>0, <1>7, <2>1, FewerInFlight DEF Overtake
    <2> QED
      BY <1>4, <1>7, <2>2, <2>3 DEF Overtake, AmTypes
  <1>8. CASE Lose
    <2>1. RxInv' /\ VrMsMovesOn
      BY <1>0, <1>8, StatusStepsKeepInv DEF Lose
    <2>2. PdusInFlight'
      BY <1>0, <1>2, <1>8, FewerInFlight DEF Lose
    <2> QED
      BY <1>4, <1>8, <2>1, <2>2 DEF Lose, AmTypes
  <1> QED
    BY <1>5, <1>6, <1>7, <1>8

(* The steps that make, deliver or lose a STATUS PDU. *)
LEMMA StatusTypes ==
    ASSUME AmTypes,
           \/ \E room \in Rooms : GetStatus(room)
           \/ SendStatus \/ ProhibitExpires
           \/ DeliverStatus \/ DuplicateStatus \/ LoseStatus
    PROVE  AmTypes' /\ VrMsMovesOn
  <1>0. TxTypes /\ RxInv /\ status_list \in Seq(StatusPdu)
    BY DEF AmTypes
  <1>1. ASSUME UNCHANGED tx_vars PROVE TxTypes'
    BY <1>0, <1>1 DEF TxTypes, WindowTypes, PdusInFlight, tx_vars
  <1>2. ASSUME NEW room \in Rooms, GetStatus(room) PROVE AmTypes' /\ VrMsMovesOn
    <2>1. room \in Nat
      BY RlcAmAssumption
    <2>2. RxInv' /\ VrMsMovesOn
      BY <1>0, <1>2, <2>1, StatusStepsKeepInv DEF GetStatus
    <2> QED
      BY <1>1, <1>2, <2>2 DEF GetStatus, AmTypes
  <1>3. CASE SendStatus
    <2>1. RxInv' /\ VrMsMovesOn
      BY <1>0, <1>3, StatusStepsKeepInv DEF SendStatus
    <2>2. tx_status \in StatusPdu
      BY <1>0, <1>3 DEF SendStatus, ResetStatus, RxInv, RxTypeOK
    <2>3. status_list' \in Seq(StatusPdu)
      BY <1>0, <1>3, <2>2, AppendProperties DEF SendStatus
    <2> QED
      BY <1>1, <1>3, <2>1, <2>3 DEF SendStatus, AmTypes
  <1>4. CASE ProhibitExpires
    <2>1. RxInv' /\ VrMsMovesOn
      BY <1>0, <1>4, StatusStepsKeepInv DEF ProhibitExpires
    <2> QED
      BY <1>1, <1>4, <2>1 DEF ProhibitExpires, AmTypes
  <1>5. CASE DeliverStatus
    <2>1. PICK n \in 1..Len(status_list) :
             HandleControlPdu(status_list[n]) /\ status_list' = RemoveAt(status_list, n)
      BY <1>5 DEF DeliverStatus
    <2>2. status_list' \in Seq(StatusPdu)
      BY <1>0, <2>1, RemoveAtProperties
    <2>3. TxTypes'
      BY <1>0, <2>1, HandleControlPduTypes
    <2>4. RxInv' /\ VrMsMovesOn
      BY <1>0, <1>5, StatusStepsKeepInv DEF DeliverStatus
    <2> QED
      BY <1>5, <2>2, <2>3, <2>4 DEF DeliverStatus, AmTypes
  <1>6. CASE DuplicateStatus
    <2>1. TxTypes'
      BY <1>0, <1>6, HandleControlPduTypes DEF DuplicateStatus
    <2>2. RxInv' /\ VrMsMovesOn
      BY <1>0, <1>6, StatusStepsKeepInv DEF DuplicateStatus
    <2> QED
      BY <1>6, <2>1, <2>2 DEF DuplicateStatus, AmTypes
  <1>7. CASE LoseStatus
    <2>1. status_list' \in Seq(StatusPdu)
      BY <1>0, <1>7, HeadTailProperties DEF LoseStatus
    <2>2. RxInv' /\ VrMsMovesOn
      BY <1>0, <1>7, StatusStepsKeepInv DEF LoseStatus
    <2> QED
      BY <1>1, <1>7, <2>1, <2>2 DEF LoseStatus, AmTypes
  <1> QED
    BY <1>2, <1>3, <1>4, <1>5, <1>6, <1>7

(* Every step keeps the types, and no step moves vr_ms back. *)
LEMMA AmStepTypes ==
    ASSUME AmTypes, [Next]_vars
    PROVE  AmTypes' /\ VrMsMovesOn
  <1>0. TxTypes /\ RxInv
    BY DEF AmTypes
  <1>1. ASSUME TxTypes', UNCHANGED <<rx_vars, overtaken, status_list>>
        PROVE  AmTypes' /\ VrMsMovesOn
    <2>1. RxInv' /\ VrMsMovesOn
      BY <1>0, <1>1, StatusStepsKeepInv
    <2> QED
      BY <1>1, <2>1 DEF AmTypes
  <1>2. CASE Write \/ PollExpires \/ PollCallback
    BY <1>0, <1>1, <1>2, OtherTxTypes DEF Write, PollExpires, PollCallback
  <1>3. ASSUME NEW g \in Grants, Read(g) PROVE AmTypes' /\ VrMsMovesOn
    <2>1. g \in Nat
      BY RlcAmAssumption
    <2> QED
      BY <1>0, <1>1, <1>3, <2>1, ReadPduTypes DEF Read
  <1>4. CASE Reordering
    <2>1. RxInv' /\ VrMsMovesOn
      BY <1>0, <1>4, ReorderingKeepsInv DEF Reordering
    <2>2. TxTypes'
      BY <1>0, <1>4 DEF Reordering, TxTypes, WindowTypes, PdusInFlight, tx_vars
    <2> QED
      BY <1>4, <2>1, <2>2 DEF Reordering, AmTypes
  <1>5. CASE UNCHANGED vars
    <2>1. TxTypes'
      BY <1>0, <1>5 DEF vars, TxTypes, WindowTypes, PdusInFlight, tx_vars
    <2> QED
      BY <1>1, <1>5, <2>1 DEF vars
  <1> QED
    BY <1>2, <1>3, <1>4, <1>5, DeliveryTypes, StatusTypes DEF Next

(* The types hold at the start. *)
LEMMA AmInitTypes ==
    ASSUME Init
    PROVE  AmTypes
  <1>1. 0 \in SN /\ RLC_AM_WINDOW_SIZE \in SN
    BY SnAssumption DEF SN
  <1>2. RxInv
    BY InitHasInv DEF Init
  <1>3. << >> \in Seq(Retx) /\ << >> \in Seq(1..MaxSdus) /\ << >> \in Seq(SduByte)
        /\ << >> \in Seq(StatusPdu) /\ << >> \in Seq({})
    BY EmptySeq
  <1>4. PdusInFlight
    BY <1>3 DEF PdusInFlight, Init, TxInit
  <1>5. DOMAIN << >> = {}
    OBVIOUS
  <1>6. TxTypes
    <2>1. WindowTypes
      BY <1>1, <1>3, <1>5 DEF WindowTypes, Init, TxInit
    <2>2. 0 \in 0..MaxSdus /\ 0 \in 0..PollPdu
      BY TxAssumption, SduAssumption
    <2> QED
      BY <1>3, <1>4, <2>1, <2>2 DEF TxTypes, Init, TxInit, PollTimer
  <1> QED
    BY <1>2, <1>3, <1>6 DEF AmTypes, Init

(* The receiver keeps its invariants whatever a transmitter of this kind and a MAC
   that loses, duplicates and reorders PDUs bring it. *)
THEOREM AmTypesHold == Spec => []AmTypes
  <1>1. Init => AmTypes
    BY AmInitTypes
  <1>2. AmTypes /\ [Next]_vars => AmTypes'
    BY AmStepTypes
  <1> QED
    BY <1>1, <1>2, PTL DEF Spec

(* Both entities keep their variables in their types: no number leaves its range, no
   retransmission counter passes max_retx_thresh, the poll counter is reset in time. *)
THEOREM AmTypeCorrect == Spec => []TypeOK
  <1>1. AmTypes => TypeOK
    <2> SUFFICES ASSUME AmTypes PROVE TypeOK
      OBVIOUS
    <2>1. TxTypes /\ RxTypeOK
      BY DEF AmTypes, RxInv
    <2>2. \A n \in 1..Len(pdu_list) : pdu_list[n].sn \in SN /\ pdu_list[n].p \in BOOLEAN
      BY <2>1, InFlightTypes DEF TxTypes
    <2>3. \A n \in 1..Len(retx_queue) : retx_queue[n] \in Retx
      BY <2>1, ElementOfSeq DEF TxTypes, WindowTypes
    <2>4. TxTypeOK
      BY <2>1, <2>3 DEF TxTypeOK, TxTypes, WindowTypes, TxPdu, Retx, SduByte, PollTimer
    <2> QED
      BY <2>1, <2>2, <2>4 DEF TypeOK, AmTypes
  <1> QED
    BY <1>1, AmTypesHold, PTL

(* With a real peer too, vr_r, vr_ms, vr_h and vr_mr keep their order on the circle
   of sequence numbers, and nothing above vr_h or at vr_r is held. *)
THEOREM AmRxWindowCorrect == Spec => []RxWindowInv
  <1>1. AmTypes => RxWindowInv
    BY DEF AmTypes, RxInv
  <1> QED
    BY <1>1, AmTypesHold, PTL

(* The reordering timer never waits for a number outside the window. *)
THEOREM AmReorderingCorrect == Spec => []ReorderingInv
  <1>1. AmTypes => ReorderingInv
    BY DEF AmTypes, RxInv
  <1> QED
    BY <1>1, AmTypesHold, PTL

(* vr_ms, up to which STATUS PDUs report, only moves forward: when the reordering
   timer's expiry takes it to the first number missing from vr_x on, everything
   between vr_x and the old vr_ms was there. *)
THEOREM VrMsOnlyMovesOn == Spec => VrMsNeverBack
  <1>1. AmTypes /\ [Next]_vars => [vr_ms' # vr_ms => ModBase(vr_ms', vr_ms) <= RLC_AM_WINDOW_SIZE]_vars
    BY AmStepTypes DEF VrMsMovesOn
  <1> QED
    BY <1>1, AmTypesHold, PTL DEF Spec, VrMsNeverBack

-----------------------------------------------------------------------------
(* The transmit window.  Concatenation may keep tx_sdu from ever being empty, *)
(* and build_data_pdu asks for room in the window only when it is: the window *)
(* may therefore grow beyond RLC_AM_WINDOW_SIZE.                              *)

(* The window has not caught up with itself. *)
WindowFits == Cardinality(DOMAIN tx_window) < MOD

(* The window is no larger than its size. *)
WithinWindow == Cardinality(DOMAIN tx_window) <= RLC_AM_WINDOW_SIZE

(* What a grant may do to the window and to what is in flight: a new PDU is sent, *)
SentNew ==
    /\ vt_s' = Inc(vt_s) /\ UNCHANGED <<vt_a, vt_ms>>
    /\ DOMAIN tx_window' = DOMAIN tx_window \cup {vt_s}
    /\ \E pdu : pdu.sn = vt_s /\ pdu_list' = Append(pdu_list, pdu)

(* one of the window is sent again, or none. *)
SentOld ==
    /\ UNCHANGED <<vt_a, vt_ms, vt_s>> /\ DOMAIN tx_window' = DOMAIN tx_window
    /\ \/ pdu_list' = pdu_list
       \/ \E pdu : pdu.sn \in DOMAIN tx_window /\ pdu_list' = Append(pdu_list, pdu)

(* A read of new bytes sends one PDU with the next number, or none. *)
LEMMA DataPartSends ==
    ASSUME NEW g \in Nat, NEW retxs, NEW without_poll, NEW timer,
           DataPart(g, retxs, without_poll, timer)
    PROVE  SentNew \/ SentOld
  <1>1. CASE NoDataPdu(retxs, without_poll, timer)
    BY <1>1 DEF NoDataPdu, SentOld
  <1>2. CASE BuildDataPdu(g, retxs, without_poll, timer)
    <2>1. PICK data, poll :
            /\ vt_s' = Inc(vt_s)
            /\ tx_window' = [s \in DOMAIN tx_window \cup {vt_s} |->
                                IF s = vt_s THEN [data |-> data, retx_count |-> 0]
                                ELSE tx_window[s]]
            /\ pdu_list' = Append(pdu_list, [sn |-> vt_s, p |-> poll, rf |-> FALSE,
                                             so |-> 0, lsf |-> FALSE, data |-> data])
      BY <1>2 DEF BuildDataPdu
    <2>2. UNCHANGED <<vt_a, vt_ms>>
      BY <1>2 DEF BuildDataPdu
    <2>3. DOMAIN tx_window' = DOMAIN tx_window \cup {vt_s}
      BY <2>1
    <2> QED
      BY <2>1, <2>2, <2>3 DEF SentNew
  <1> QED
    BY <1>1, <1>2 DEF DataPart

(* A read sends one PDU with the next number, or numbers of the window. *)
LEMMA ReadPduSends ==
    ASSUME WindowTypes, NEW g \in Nat, ReadPdu(g)
    PROVE  SentNew \/ SentOld
  <1>1. PICK q \in RetxAtGrant :
          LET retxs == DropAcked(q)
          IN \/ retxs # << >> /\ RetxWhole(retxs)
             \/ retxs # << >> /\ RetxSegment(retxs, g - SegHdr)
             \/ RetxNoRoom(retxs, g)
             \/ DataPart(g, retxs, pdu_without_poll, poll_retx_timer)
    BY DEF ReadPdu
  <1> DEFINE retxs == DropAcked(q)
  <1>2. q \in Seq(Retx)
    BY RandomRetxType DEF RetxAtGrant, WindowTypes
  <1>3. retxs # << >> => Head(retxs).sn \in DOMAIN tx_window
    BY <1>2, DropAckedType
  <1>4. \/ retxs # << >> /\ RetxWhole(retxs)
        \/ retxs # << >> /\ RetxSegment(retxs, g - SegHdr)
        \/ RetxNoRoom(retxs, g)
        \/ DataPart(g, retxs, pdu_without_poll, poll_retx_timer)
    BY <1>1
  <1> HIDE DEF retxs
  <1>5. CASE retxs # << >> /\ RetxWhole(retxs)
    <2>1. PICK pdu : pdu.sn = Head(retxs).sn /\ pdu_list' = Append(pdu_list, pdu)
      BY <1>5 DEF RetxWhole
    <2>2. DOMAIN tx_window' = DOMAIN tx_window /\ UNCHANGED <<vt_a, vt_ms, vt_s>>
      BY <1>5 DEF RetxWhole
    <2> QED
      BY <1>3, <1>5, <2>1, <2>2 DEF SentOld
  <1>6. CASE retxs # << >> /\ RetxSegment(retxs, g - SegHdr)
    <2>1. PICK pdu : pdu.sn = Head(retxs).sn /\ pdu_list' = Append(pdu_list, pdu)
      BY <1>6 DEF RetxSegment
    <2>2. UNCHANGED <<tx_window, vt_a, vt_ms, vt_s>>
      BY <1>6 DEF RetxSegment
    <2> QED
      BY <1>3, <1>6, <2>1, <2>2 DEF SentOld
  <1> QED
    BY <1>4, <1>5, <1>6, DataPartSends DEF RetxNoRoom

(* What handle_control_pdu erases is what is below some number: ACK_SN, vt_s or the
   first number that a NACK names. *)
LEMMA AckedIsPrefix ==
    ASSUME WindowTypes, DOMAIN tx_window = {s \in SN : TxBase(s) < TxBase(vt_s)},
           NEW ack_sn \in SN, NEW nacks
    PROVE  \E d \in 0..TxBase(vt_s) :
              /\ Acked(Covered(ack_sn), Covered(ack_sn) \cap nacks) = {s \in SN : TxBase(s) < d}
              /\ Cardinality({s \in SN : TxBase(s) < d}) = d
              /\ d <= TxBase(ack_sn)
              /\ \A j \in Covered(ack_sn) \cap nacks : d <= TxBase(j)
  <1> DEFINE nacked == Covered(ack_sn) \cap nacks
             Erased(d) == {s \in SN : TxBase(s) < d}
  <1>1. \A s \in SN : TxBase(s) \in 0..(MOD - 1)
    BY ModBaseIsDistance DEF TxBase, WindowTypes
  <1>2. vt_s \in SN /\ TxBase(vt_s) \in 0..(MOD - 1) /\ TxBase(ack_sn) \in 0..(MOD - 1)
    BY <1>1 DEF WindowTypes
  <1>3. ASSUME NEW d \in 0..TxBase(vt_s) PROVE Cardinality(Erased(d)) = d
    <2>1. d \in 0..MOD /\ vt_a \in SN
      <3>1. TxBase(vt_s) \in 0..(MOD - 1)
        BY <1>2
      <3> HIDE DEF TxBase
      <3> QED
        BY <3>1, SnAssumption DEF WindowTypes
    <2> QED
      BY <2>1, NumbersBelow DEF TxBase
  <1>4. Acked(Covered(ack_sn), nacked) =
          {s \in SN : /\ TxBase(s) < TxBase(ack_sn) /\ TxBase(s) < TxBase(vt_s)
                      /\ \A j \in nacked : TxBase(s) < TxBase(j)}
    BY DEF Acked, Covered
  <1>5. \A j \in nacked : j \in SN /\ TxBase(j) < TxBase(ack_sn) /\ TxBase(j) < TxBase(vt_s)
    BY DEF Covered
  <1> HIDE DEF nacked
  <1>6. CASE nacked = {}
    <2> DEFINE d == IF TxBase(ack_sn) <= TxBase(vt_s) THEN TxBase(ack_sn) ELSE TxBase(vt_s)
    <2>1. d \in 0..TxBase(vt_s) /\ d <= TxBase(ack_sn)
      BY <1>2
    <2>2. \A s \in SN : TxBase(s) < d <=> TxBase(s) < TxBase(ack_sn) /\ TxBase(s) < TxBase(vt_s)
      BY <1>1, <1>2
    <2> HIDE DEF d
    <2>3. Acked(Covered(ack_sn), nacked) = Erased(d)
      BY <1>4, <1>6, <2>2
    <2> QED
      BY <1>3, <1>6, <2>1, <2>3 DEF nacked
  <1>7. CASE nacked # {}
    <2>1. nacked \in SUBSET SN /\ vt_a \in SN
      BY <1>5 DEF WindowTypes
    <2>2. PICK f \in nacked : \A j \in nacked : TxBase(f) <= TxBase(j)
      BY <1>7, <2>1, FirstExists DEF TxBase
    <2> DEFINE d == TxBase(f)
    <2>3. d \in 0..TxBase(vt_s) /\ d <= TxBase(ack_sn)
      BY <1>1, <1>2, <1>5, <2>2
    <2>4. \A s \in SN : TxBase(s) < d <=> /\ TxBase(s) < TxBase(ack_sn) /\ TxBase(s) < TxBase(vt_s)
                                          /\ \A j \in nacked : TxBase(s) < TxBase(j)
      BY <1>1, <1>2, <1>5, <2>1, <2>2
    <2>5. \A j \in nacked : d <= TxBase(j)
      BY <2>2
    <2> HIDE DEF d
    <2>6. Acked(Covered(ack_sn), nacked) = Erased(d)
      BY <1>4, <2>4
    <2> QED
      BY <1>3, <2>3, <2>5, <2>6 DEF nacked
  <1> QED
    BY <1>6, <1>7

(* handle_control_pdu takes from the bottom of the window. *)
LEMMA StatusMovesWindow ==
    ASSUME WindowTypes, TxWindowContiguous, NEW status, status.ack_sn \in SN,
           HandleControlPdu(status)
    PROVE  /\ TxWindowContiguous'
           /\ \E d \in 0..TxBase(vt_s) :
                 /\ vt_a' = (vt_a + d) % MOD /\ ModBase(vt_a', vt_a) = d
                 /\ d <= TxBase(status.ack_sn)
                 /\ \A j \in Covered(status.ack_sn) \cap status.nacks : d <= TxBase(j)
                 /\ tx_window' = [i \in {s \in SN : d <= TxBase(s) /\ TxBase(s) < TxBase(vt_s)}
                                     |-> tx_window[i]]
  <1> DEFINE nacked == Covered(status.ack_sn) \cap status.nacks
             acked == Acked(Covered(status.ack_sn), nacked)
  <1>0. vt_a \in SN /\ vt_s \in SN /\ \A s \in SN : TxBase(s) \in 0..(MOD - 1)
    BY ModBaseIsDistance DEF TxBase, WindowTypes
  <1>1. DOMAIN tx_window = {s \in SN : TxBase(s) < TxBase(vt_s)}
    BY DEF TxWindowContiguous
  <1>2. PICK d \in 0..TxBase(vt_s) :
          /\ acked = {s \in SN : TxBase(s) < d} /\ Cardinality({s \in SN : TxBase(s) < d}) = d
          /\ d <= TxBase(status.ack_sn)
          /\ \A j \in nacked : d <= TxBase(j)
    BY <1>1, AckedIsPrefix
  <1>3. /\ tx_window' = [i \in DOMAIN tx_window \ acked |-> tx_window[i]]
        /\ vt_a' = (vt_a + Cardinality(acked)) % MOD
        /\ vt_ms' = (vt_ms + Cardinality(acked)) % MOD
        /\ vt_s' = vt_s
    BY DEF HandleControlPdu
  <1> HIDE DEF acked, nacked
  <1>4. d \in 0..(MOD - 1) /\ d \in Nat
    <2>1. TxBase(vt_s) \in 0..(MOD - 1)
      BY <1>0
    <2> QED
      BY <2>1, SnAssumption
  <1>5. vt_a' = (vt_a + d) % MOD /\ vt_ms' = (vt_ms + d) % MOD /\ vt_a' \in SN
        /\ vt_a' = IF vt_a + d < MOD THEN vt_a + d ELSE vt_a + d - MOD
    BY <1>0, <1>2, <1>3, <1>4, PlusIsStep
  <1>6. ModBase(vt_a', vt_a) = d
    <2>1. ModBase(vt_a', vt_a) = IF vt_a' >= vt_a THEN vt_a' - vt_a ELSE vt_a' - vt_a + MOD
      BY <1>0, <1>5, ModBaseIsDistance
    <2> QED
      BY <1>0, <1>4, <1>5, <2>1, SnAssumption DEF SN
  <1>7. DOMAIN tx_window \ acked = {s \in SN : d <= TxBase(s) /\ TxBase(s) < TxBase(vt_s)}
    <2>1. \A s \in SN : ~(TxBase(s) < d) <=> d <= TxBase(s)
      BY <1>0, <1>4
    <2> QED
      BY <1>1, <1>2, <2>1
  <1>8. tx_window' = [i \in {s \in SN : d <= TxBase(s) /\ TxBase(s) < TxBase(vt_s)} |-> tx_window[i]]
    BY <1>3, <1>7
  <1>9. \A s \in SN : ModBase(s, vt_a') = IF TxBase(s) >= d THEN TxBase(s) - d ELSE TxBase(s) - d + MOD
    BY <1>0, <1>5, <1>6, ModBaseShift DEF TxBase
  <1>10. ModBase(vt_s, vt_a') = TxBase(vt_s) - d
    BY <1>0, <1>9
  <1>11. \A s \in SN : d <= TxBase(s) /\ TxBase(s) < TxBase(vt_s) <=> ModBase(s, vt_a') < ModBase(vt_s, vt_a')
    <2> TAKE s \in SN
    <2>1. ModBase(s, vt_a') = IF TxBase(s) >= d THEN TxBase(s) - d ELSE TxBase(s) - d + MOD
      BY <1>9
    <2>2. TxBase(s) \in 0..(MOD - 1) /\ TxBase(vt_s) \in 0..(MOD - 1)
      BY <1>0
    <2> QED
      BY <1>4, <1>10, <2>1, <2>2, SnAssumption
  <1>12. DOMAIN tx_window' = {s \in SN : ModBase(s, vt_a') < ModBase(vt_s, vt_a')}
    BY <1>8, <1>11
  <1>13. vt_ms' = (vt_a' + RLC_AM_WINDOW_SIZE) % MOD
    <2>1. vt_ms = (vt_a + RLC_AM_WINDOW_SIZE) % MOD
      BY DEF TxWindowContiguous
    <2> QED
      BY <1>0, <1>5, <1>6, <2>1, EdgesMove
  <1>14. TxWindowContiguous'
    BY <1>3, <1>12, <1>13 DEF TxWindowContiguous, TxBase
  <1> QED
    BY <1>2, <1>5, <1>6, <1>8, <1>14 DEF nacked

(* A new PDU takes the number above the window. *)
LEMMA NewPduGrowsWindow ==
    ASSUME WindowTypes, TxWindowContiguous, SentNew, WindowFits'
    PROVE  /\ TxWindowContiguous'
           /\ vt_s' \in SN /\ ModBase(vt_s', vt_a) = TxBase(vt_s) + 1
  <1>0. vt_a \in SN /\ vt_s \in SN /\ \A s \in SN : TxBase(s) \in 0..(MOD - 1)
    BY ModBaseIsDistance DEF TxBase, WindowTypes
  <1>1. DOMAIN tx_window = {s \in SN : TxBase(s) < TxBase(vt_s)}
    BY DEF TxWindowContiguous
  <1>2. DOMAIN tx_window' = {s \in SN : TxBase(s) < TxBase(vt_s) + 1}
    <2>1. \A s \in SN : TxBase(s) = TxBase(vt_s) => s = vt_s
      <3> TAKE s \in SN
      <3>1. /\ TxBase(s) = IF s >= vt_a THEN s - vt_a ELSE s - vt_a + MOD
            /\ TxBase(vt_s) = IF vt_s >= vt_a THEN vt_s - vt_a ELSE vt_s - vt_a + MOD
        BY <1>0, ModBaseIsDistance DEF TxBase
      <3> QED
        BY <1>0, <3>1, SnAssumption DEF SN
    <2>2. \A s \in SN : TxBase(s) < TxBase(vt_s) + 1 <=> TxBase(s) < TxBase(vt_s) \/ s = vt_s
      <3> TAKE s \in SN
      <3>1. TxBase(s) \in Nat /\ TxBase(vt_s) \in Nat
        BY <1>0
      <3> QED
        BY <2>1, <3>1
    <2>3. DOMAIN tx_window' = DOMAIN tx_window \cup {vt_s}
      BY DEF SentNew
    <2> QED
      BY <1>0, <1>1, <2>2, <2>3
  <1>3. TxBase(vt_s) + 1 < MOD
    <2> DEFINE d == TxBase(vt_s) + 1
    <2>1. d \in 0..MOD
      BY <1>0, SnAssumption
    <2> HIDE DEF d
    <2>2. Cardinality({s \in SN : ModBase(s, vt_a) < d}) = d
      BY <1>0, <2>1, NumbersBelow
    <2>3. Cardinality(DOMAIN tx_window') = d
      BY <1>2, <2>2 DEF TxBase, d
    <2>4. d < MOD
      BY <2>3 DEF WindowFits
    <2> QED
      BY <2>4 DEF d
  <1>4. vt_s' = Inc(vt_s) /\ UNCHANGED <<vt_a, vt_ms>>
    BY DEF SentNew
  <1>5. ModBase(vt_s', vt_a) = TxBase(vt_s) + 1
    <2>1. ModBase(vt_s, vt_a) < MOD - 1
      BY <1>0, <1>3, SnAssumption DEF TxBase
    <2> QED
      BY <1>0, <1>4, <2>1, ModBaseInc DEF TxBase
  <1>6. vt_s' \in SN
    BY <1>0, <1>4, IncIsStep
  <1> QED
    BY <1>2, <1>4, <1>5, <1>6 DEF TxWindowContiguous, TxBase

(* What one step may do to the transmit window. *)
LEMMA WindowSteps ==
    ASSUME AmTypes, [Next]_vars
    PROVE  \/ SentNew \/ SentOld
           \/ \E n \in 1..Len(status_list) : HandleControlPdu(status_list[n])
           \/ UNCHANGED <<tx_window, vt_a, vt_ms, vt_s>>
  <1>1. ASSUME NEW g \in Grants, Read(g) PROVE SentNew \/ SentOld
    <2>1. g \in Nat /\ WindowTypes
      BY RlcAmAssumption DEF AmTypes, TxTypes
    <2> QED
      BY <1>1, <2>1, ReadPduSends DEF Read
  <1>2. CASE DeliverStatus
    BY <1>2 DEF DeliverStatus
  <1>3. CASE DuplicateStatus
    <2>1. 1 \in 1..Len(status_list) /\ Head(status_list) = status_list[1]
      <3>1. status_list \in Seq(StatusPdu) /\ status_list # << >>
        BY <1>3 DEF DuplicateStatus, AmTypes
      <3>2. Len(status_list) \in Nat \ {0}
        BY <3>1, EmptySeq, LenProperties
      <3>3. Head(status_list) = status_list[1]
        BY <3>1, HeadTailProperties
      <3> QED
        BY <3>2, <3>3
    <2> QED
      BY <1>3, <2>1 DEF DuplicateStatus
  <1>4. CASE \/ Write \/ PollExpires \/ PollCallback \/ Reordering \/ SendStatus
             \/ (\E room \in Rooms : GetStatus(room)) \/ ProhibitExpires
             \/ Deliver \/ Duplicate \/ Overtake \/ Lose \/ LoseStatus
             \/ UNCHANGED vars
    BY <1>4 DEF Write, WriteSdu, PollExpires, PollRetxExpires, PollCallback, PollRetxCallback,
                Reordering, SendStatus, GetStatus, ProhibitExpires, Deliver, Duplicate,
                Overtake, Lose, LoseStatus, vars, tx_vars, tx_own
  <1> QED
    BY <1>1, <1>2, <1>3, <1>4 DEF Next

(* Every step keeps the transmit window contiguous. *)
LEMMA TxWindowStep ==
    ASSUME AmTypes, TxWindowContiguous, WindowFits', [Next]_vars
    PROVE  TxWindowContiguous'
  <1>0. WindowTypes /\ \A n \in 1..Len(status_list) : status_list[n].ack_sn \in SN
    <2>1. status_list \in Seq(StatusPdu) /\ WindowTypes
      BY DEF AmTypes, TxTypes
    <2>2. \A n \in 1..Len(status_list) : status_list[n] \in StatusPdu
      BY <2>1, ElementOfSeq
    <2> QED
      BY <2>1, <2>2 DEF StatusPdu
  <1>1. CASE SentNew
    BY <1>0, <1>1, NewPduGrowsWindow
  <1>2. CASE SentOld
    BY <1>2 DEF SentOld, TxWindowContiguous, TxBase
  <1>3. ASSUME NEW n \in 1..Len(status_list), HandleControlPdu(status_list[n])
        PROVE  TxWindowContiguous'
    BY <1>0, <1>3, StatusMovesWindow
  <1>4. CASE UNCHANGED <<tx_window, vt_a, vt_ms, vt_s>>
    BY <1>4 DEF TxWindowContiguous, TxBase
  <1> QED
    BY <1>1, <1>2, <1>3, <1>4, WindowSteps

(* The window is empty at the start. *)
LEMMA TxWindowInit ==
    ASSUME Init
    PROVE  TxWindowContiguous
  <1>1. vt_a = 0 /\ vt_s = 0 /\ vt_ms = RLC_AM_WINDOW_SIZE /\ DOMAIN tx_window = {}
    BY DEF Init, TxInit
  <1>2. 0 \in SN /\ ModBase(0, 0) = 0
    BY SnAssumption, ModBaseZero DEF SN
  <1>3. \A s \in SN : ~(ModBase(s, 0) < 0)
    BY <1>2, ModBaseIsDistance
  <1>4. (0 + RLC_AM_WINDOW_SIZE) % MOD = RLC_AM_WINDOW_SIZE
    BY SnAssumption
  <1> QED
    BY <1>1, <1>2, <1>3, <1>4 DEF TxWindowContiguous, TxBase

(* tx_window holds exactly the numbers from vt_a up to vt_s in every behaviour in which
   vt_s does not catch up with vt_a: acknowledgements take from its bottom, and none of
   them leaves a hole. *)
THEOREM TxWindowCorrect == Spec /\ []WindowFits => []TxWindowContiguous
  <1>1. Init => TxWindowContiguous
    BY TxWindowInit
  <1>2. AmTypes /\ TxWindowContiguous /\ WindowFits' /\ [Next]_vars => TxWindowContiguous'
    BY TxWindowStep
  <1> QED
    BY <1>1, <1>2, AmTypesHold, PTL DEF Spec

(* One element more makes a set larger by at most one. *)
LEMMA OneMoreAtMost ==
    ASSUME NEW S, NEW T, NEW x, IsFiniteSet(S), T = S \cup {x}
    PROVE  Cardinality(T) \in Nat /\ Cardinality(T) <= Cardinality(S) + 1
  <1>1. IsFiniteSet(T)
    BY FS_AddElement
  <1>2. Cardinality(S) \in Nat /\ Cardinality(T) \in Nat
    BY <1>1, FS_CardinalityType
  <1>3. CASE x \in S
    <2>1. T = S
      BY <1>3
    <2>2. Cardinality(T) = Cardinality(S)
      BY <2>1
    <2> QED
      BY <1>2, <2>2
  <1>4. CASE x \notin S
    <2>1. Cardinality(S \cup {x}) = Cardinality(S) + 1
      BY <1>4, FS_AddElement
    <2> QED
      BY <1>2, <2>1
  <1> QED
    BY <1>3, <1>4

(* An SDU of one byte is never sent in parts, *)
NoPart == tx_sdu = << >> /\ WithinWindow

(* With SDUs of one byte no SDU is cut, whatever the step. *)
LEMMA NoPartStep ==
    ASSUME SduLen = 1, AmTypes, NoPart, [Next]_vars
    PROVE  NoPart'
  <1>0. TxTypes /\ WindowTypes
    BY DEF AmTypes, TxTypes
  <1>1. IsFiniteSet(DOMAIN tx_window) /\ Cardinality(DOMAIN tx_window) \in Nat
    BY <1>0, FiniteSN DEF WindowTypes
  <1>2. ASSUME DOMAIN tx_window' \subseteq DOMAIN tx_window, tx_sdu' = tx_sdu PROVE NoPart'
    <2>1. Cardinality(DOMAIN tx_window') <= Cardinality(DOMAIN tx_window)
      BY <1>1, <1>2, FS_Subset
    <2>2. IsFiniteSet(DOMAIN tx_window')
      BY <1>1, <1>2, FS_Subset
    <2>3. Cardinality(DOMAIN tx_window') \in Nat
      BY <2>2, FS_CardinalityType
    <2> QED
      BY <1>1, <1>2, <2>1, <2>3, SnAssumption DEF NoPart, WithinWindow
  <1>3. ASSUME NEW g \in Nat, NEW retxs, NEW without_poll, NEW timer,
               DataPart(g, retxs, without_poll, timer)
        PROVE  NoPart'
    <2>1. CASE NoDataPdu(retxs, without_poll, timer)
      BY <1>2, <2>1 DEF NoDataPdu
    <2>2. CASE BuildDataPdu(g, retxs, without_poll, timer)
      <3>1. PICK n \in 1..g :
              /\ n <= Len(Waiting)
              /\ LET data == SubSeq(Waiting, 1, n)
                 IN tx_sdu' = Rest(data[n][1], data[n][2])
        BY <2>2 DEF BuildDataPdu, Waiting
      <3> DEFINE data == SubSeq(Waiting, 1, n)
      <3>2. data[n] \in SduByte
        <4>1. Waiting \in Seq(SduByte)
          BY <1>0, WaitingType
        <4>2. \A i \in 1..n : i \in 1..Len(Waiting)
          BY <3>1, <4>1, LenProperties
        <4>3. \A i \in 1..n : Waiting[i] \in SduByte
          BY <4>1, <4>2, ElementOfSeq
        <4>4. n \in Int /\ 1 \in Int /\ 1 <= n
          OBVIOUS
        <4>5. data \in Seq(SduByte) /\ Len(data) = n
          BY <4>3, <4>4, SubSeqProperties
        <4> HIDE DEF data
        <4> QED
          BY <4>4, <4>5, ElementOfSeq
      <3> HIDE DEF data
      <3>3. data[n][1] \in 1..MaxSdus /\ data[n][2] = 1
        BY <3>2 DEF SduByte
      <3>4. tx_sdu' = Rest(data[n][1], SduLen) /\ 1 \in 1..SduLen
        BY <3>1, <3>3 DEF data
      <3>5. tx_sdu' = << >>
        BY <3>3, <3>4, RestType
      <3>6. ~TxWindowFull /\ DOMAIN tx_window' = DOMAIN tx_window \cup {vt_s}
        BY <2>2 DEF BuildDataPdu, NoPart
      <3>7. Cardinality(DOMAIN tx_window') <= Cardinality(DOMAIN tx_window) + 1
            /\ Cardinality(DOMAIN tx_window') \in Nat
        BY <1>1, <3>6, OneMoreAtMost
      <3> QED
        BY <1>1, <3>5, <3>6, <3>7, SnAssumption DEF NoPart, WithinWindow, TxWindowFull
    <2> QED
      BY <1>3, <2>1, <2>2 DEF DataPart
  <1>4. ASSUME NEW g \in Grants, Read(g) PROVE NoPart'
    <2>1. g \in Nat
      BY RlcAmAssumption
    <2>2. PICK q \in RetxAtGrant :
            LET retxs == DropAcked(q)
            IN \/ RetxWhole(retxs) \/ RetxSegment(retxs, g - SegHdr)
               \/ RetxNoRoom(retxs, g)
               \/ DataPart(g, retxs, pdu_without_poll, poll_retx_timer)
      BY <1>4 DEF Read, ReadPdu
    <2> DEFINE retxs == DropAcked(q)
    <2>3. \/ RetxWhole(retxs) \/ RetxSegment(retxs, g - SegHdr)
          \/ RetxNoRoom(retxs, g)
          \/ DataPart(g, retxs, pdu_without_poll, poll_retx_timer)
      BY <2>2
    <2> HIDE DEF retxs
    <2>4. CASE RetxWhole(retxs)
      <3>1. DOMAIN tx_window' = DOMAIN tx_window /\ tx_sdu' = tx_sdu
        BY <2>4 DEF RetxWhole
      <3> QED
        BY <1>2, <3>1
    <2>5. CASE RetxSegment(retxs, g - SegHdr)
      BY <1>2, <2>5 DEF RetxSegment
    <2> QED
      BY <1>3, <2>1, <2>3, <2>4, <2>5 DEF RetxNoRoom
  <1>5. ASSUME NEW status, HandleControlPdu(status) PROVE NoPart'
    <2>1. DOMAIN tx_window' \subseteq DOMAIN tx_window /\ tx_sdu' = tx_sdu
      BY <1>5 DEF HandleControlPdu
    <2> QED
      BY <1>2, <2>1
  <1>6. CASE DeliverStatus \/ DuplicateStatus
    BY <1>5, <1>6 DEF DeliverStatus, DuplicateStatus
  <1>7. CASE \/ Write \/ PollExpires \/ PollCallback \/ Reordering \/ SendStatus
             \/ (\E room \in Rooms : GetStatus(room)) \/ ProhibitExpires
             \/ Deliver \/ Duplicate \/ Overtake \/ Lose \/ LoseStatus
             \/ UNCHANGED vars
    <2>1. tx_window' = tx_window /\ tx_sdu' = tx_sdu
      BY <1>7 DEF Write, WriteSdu, PollExpires, PollRetxExpires, PollCallback, PollRetxCallback,
                  Reordering, SendStatus, GetStatus, ProhibitExpires, Deliver, Duplicate,
                  Overtake, Lose, LoseStatus, vars, tx_vars, tx_own
    <2> QED
      BY <1>2, <2>1
  <1> QED
    BY <1>4, <1>6, <1>7 DEF Next

(* and its transmit window never holds more than RLC_AM_WINDOW_SIZE PDUs. *)
THEOREM OneByteWindow == SduLen = 1 => (Spec => []WithinWindow)
  <1> SUFFICES ASSUME SduLen = 1 PROVE Spec => []WithinWindow
    OBVIOUS
  <1>1. Init => NoPart
    <2> SUFFICES ASSUME Init PROVE NoPart
      OBVIOUS
    <2>1. DOMAIN tx_window = {} /\ tx_sdu = << >>
      BY DEF Init, TxInit
    <2>2. Cardinality({}) = 0
      BY FS_EmptySet
    <2> QED
      BY <2>1, <2>2, SnAssumption DEF NoPart, WithinWindow
  <1>2. AmTypes /\ NoPart /\ [Next]_vars => NoPart'
    BY NoPartStep
  <1>3. NoPart => WithinWindow
    BY DEF NoPart
  <1> QED
    BY <1>1, <1>2, <1>3, AmTypesHold, PTL DEF Spec

-----------------------------------------------------------------------------
(* The two windows.  PDUs are counted without bound: the first is the 0-th,   *)
(* and the X-th has the number X % MOD.  A, S, R and H are the counts that    *)
(* vt_a, vt_s, vr_r and vr_h stand for.                                       *)
Edges(A, S, R, H) ==
    /\ A \in Nat /\ S \in Nat /\ R \in Nat /\ H \in Nat
    /\ vt_a = A % MOD /\ vt_s = S % MOD /\ vr_r = R % MOD /\ vr_h = H % MOD
    /\ A <= R /\ R <= H /\ H <= S /\ S <= A + RLC_AM_WINDOW_SIZE

(* U[n] is the PDU that the n-th data PDU in flight carries, V[n] the count that vt_s
   stood for when it had been sent.  What has arrived is older than what is in flight,
   but for one PDU that overtook the oldest. *)
Sent(U, V, S, H) ==
    /\ U \in [1..Len(pdu_list) -> Nat] /\ V \in [1..Len(pdu_list) -> Nat]
    /\ \A n \in 1..Len(pdu_list) :
          /\ pdu_list[n].sn = U[n] % MOD
          /\ U[n] < V[n] /\ V[n] <= U[n] + RLC_AM_WINDOW_SIZE /\ V[n] <= S
          /\ H <= U[n] + RLC_AM_WINDOW_SIZE
          /\ H <= V[n] \/ (n = 1 /\ overtaken)
    /\ \A n \in 1..(Len(pdu_list) - 1) :
          /\ V[n] <= V[n + 1]
          /\ V[n + 1] <= V[n] + 1 \/ (n = 1 /\ overtaken)
    /\ Len(pdu_list) > 0 => V[Len(pdu_list)] = S \/ (Len(pdu_list) = 1 /\ overtaken)

(* A STATUS PDU was made when vr_r stood for k: it acknowledges k at most, or names
   k as missing. *)
Reports(status, k, A, S, R) ==
    /\ A <= k /\ k <= R
    /\ \E q \in Nat : /\ k <= q /\ q <= S /\ status.ack_sn = q % MOD
                      /\ q = k \/ (k % MOD) \in status.nacks

\* The STATUS PDUs in flight and the one being made report the edge R or an older one, in order.
Reported(K, A, S, R) ==
    /\ K \in [1..Len(status_list) -> Nat]
    /\ \A n \in 1..Len(status_list) : Reports(status_list[n], K[n], A, S, R)
    /\ \A n \in 1..(Len(status_list) - 1) : K[n] <= K[n + 1]
    /\ tx_status # none =>
          \E k \in Nat : /\ Reports(tx_status, k, A, S, R)
                         /\ \A n \in 1..Len(status_list) : K[n] <= k

\* There are counts that all of this can be said of.
Agreed ==
    \E A, S, R, H, U, V, K : Edges(A, S, R, H) /\ Sent(U, V, S, H) /\ Reported(K, A, S, R)

(* Distances from the lower edges, in counts. *)
LEMMA FromEdges ==
    ASSUME NEW A, NEW S, NEW R, NEW H, Edges(A, S, R, H), NEW X \in Nat
    PROVE  /\ A <= X /\ X < A + MOD => TxBase(X % MOD) = X - A
           /\ R <= X /\ X < R + MOD => RxBase(X % MOD) = X - R
           /\ X < R /\ R <= X + MOD => RxBase(X % MOD) = X - R + MOD
           /\ X % MOD \in SN
  BY DistanceUp, DistanceDown, NumberAndRounds DEF Edges, TxBase, RxBase

(* The counts give the agreement of the windows, which is about sequence numbers. *)
LEMMA EdgesAgree ==
    ASSUME NEW A, NEW S, NEW R, NEW H, Edges(A, S, R, H)
    PROVE  WindowsAgree
  <1>1. S < A + MOD /\ R < A + MOD
    BY SnAssumption DEF Edges
  <1>2. ModBase(vr_r, vt_a) = R - A /\ ModBase(vt_s, vt_a) = S - A
    <2>1. \A X \in Nat : A <= X /\ X < A + MOD => TxBase(X % MOD) = X - A
      BY FromEdges
    <2> QED
      BY <1>1, <2>1 DEF Edges, TxBase
  <1> QED
    BY <1>2, SnAssumption DEF Edges, WindowsAgree

(* What a data PDU may do to the edges of the receive window. *)
LEMMA PduMovesEdges ==
    ASSUME RxInv, NEW pdu, pdu.sn \in SN, RxWritePdu(pdu)
    PROVE  \/ UNCHANGED <<vr_r, vr_h>>
           \/ /\ RxBase(pdu.sn) < RLC_AM_WINDOW_SIZE
              /\ vr_h' = HighestAfter(pdu.sn)
              /\ vr_r' \in SN /\ RxBase(vr_r') <= RxBase(vr_h')
  <1> DEFINE sn == pdu.sn
  <1>0. vr_r \in SN /\ vr_h \in SN /\ sn \in SN /\ DOMAIN rx_window \subseteq SN
        /\ \A s \in SN : RxBase(s) \in 0..(MOD - 1)
    BY ModBaseIsDistance DEF RxInv, RxTypeOK, RxBase
  <1>1. RxBase(vr_r) = 0
    BY <1>0, ModBaseZero DEF RxBase
  <1>2. ASSUME NEW p, NEW data, NEW segs, NEW status, HandleDataPdu(sn, p, data, segs, status)
        PROVE  \/ UNCHANGED <<vr_r, vr_h>>
               \/ /\ RxBase(sn) < RLC_AM_WINDOW_SIZE
                  /\ vr_h' = HighestAfter(sn)
                  /\ vr_r' \in SN /\ RxBase(vr_r') <= RxBase(vr_h')
    <2>1. CASE ~InsideRxWindow(sn, vr_r, vr_mr) \/ sn \in DOMAIN rx_window
      BY <1>2, <2>1 DEF HandleDataPdu
    <2>2. CASE InsideRxWindow(sn, vr_r, vr_mr) /\ sn \notin DOMAIN rx_window
      <3> DEFINE D == DOMAIN rx_window \cup {sn}
                 h == HighestAfter(sn)
      <3>1. vr_h' = h /\ vr_r' = FirstNotIn(vr_r, D)
        <4> DEFINE win == [s \in DOMAIN rx_window \cup {sn} |->
                              IF s = sn THEN data ELSE rx_window[s]]
        <4>1. vr_h' = HighestAfter(sn) /\ vr_r' = FirstNotIn(vr_r, DOMAIN win)
          BY <1>2, <2>2 DEF HandleDataPdu
        <4>2. DOMAIN win = D
          OBVIOUS
        <4> QED
          BY <4>1, <4>2
      <3>2. RxBase(sn) < RLC_AM_WINDOW_SIZE
        BY <1>0, <2>2, InsideIsNear
      <3>3. h \in SN /\ RxBase(vr_h) <= RxBase(h) /\ RxBase(sn) < RxBase(h)
        BY <1>0, <3>2, HighestMoves
      <3> HIDE DEF h
      <3>4. h \notin D
        <4>1. \A s \in DOMAIN rx_window : s \in SN /\ RxBase(s) < RxBase(vr_h)
          BY <1>0 DEF RxInv, RxWindowInv
        <4>2. \A s \in DOMAIN rx_window : RxBase(s) < RxBase(h)
          <5> TAKE s \in DOMAIN rx_window
          <5>1. RxBase(s) \in Int /\ RxBase(vr_h) \in Int /\ RxBase(h) \in Int
            BY <1>0, <3>3, <4>1
          <5> QED
            BY <3>3, <4>1, <5>1
        <4>3. RxBase(h) \in Int
          BY <1>0, <3>3
        <4> QED
          BY <3>3, <4>2, <4>3
      <3>5. ModBase(vr_r, vr_r) <= ModBase(h, vr_r)
        BY <1>0, <1>1, <3>3 DEF RxBase
      <3>6. FirstNotIn(vr_r, D) \in SN /\ ModBase(FirstNotIn(vr_r, D), vr_r) <= ModBase(h, vr_r)
        <4> HIDE DEF D
        <4>1. h \in SN \ D
          BY <3>3, <3>4
        <4> QED
          BY <1>0, <3>5, <4>1, FirstNotInBetween
      <3> QED
        BY <3>1, <3>2, <3>6 DEF RxBase, h
    <2> QED
      BY <2>1, <2>2
  <1>3. CASE pdu.rf
    <2>1. HandleDataPduSegment(pdu)
      BY <1>3 DEF RxWritePdu
    <2>2. \/ UNCHANGED <<vr_r, vr_h>>
          \/ \E data, segs, status : HandleDataPdu(sn, FALSE, data, segs, status)
          \/ InsideRxWindow(sn, vr_r, vr_mr) /\ vr_h' = HighestAfter(sn) /\ vr_r' = vr_r
      BY <2>1 DEF HandleDataPduSegment
    <2>3. CASE InsideRxWindow(sn, vr_r, vr_mr) /\ vr_h' = HighestAfter(sn) /\ vr_r' = vr_r
      <3>1. RxBase(sn) < RLC_AM_WINDOW_SIZE
        BY <1>0, <2>3, InsideIsNear
      <3>2. vr_h' \in SN
        BY <1>0, <2>3, <3>1, HighestMoves
      <3>3. RxBase(vr_h') \in 0..(MOD - 1)
        BY <1>0, <3>2
      <3> QED
        BY <1>0, <1>1, <2>3, <3>1, <3>3
    <2> QED
      BY <1>2, <2>2, <2>3
  <1>4. CASE ~pdu.rf
    BY <1>2, <1>4 DEF RxWritePdu
  <1> QED
    BY <1>3, <1>4

(* The same in counts: H follows the PDU that arrived, and R stays at most H. *)
LEMMA PduMovesCounts ==
    ASSUME RxInv, NEW A, NEW S, NEW R, NEW H, Edges(A, S, R, H),
           NEW pdu, RxWritePdu(pdu), NEW X \in Nat, pdu.sn = X % MOD, X < S,
           H <= X + RLC_AM_WINDOW_SIZE, UNCHANGED <<vt_a, vt_s>>
    PROVE  \E r, h \in Nat : /\ Edges(A, S, r, h)'
                             /\ R <= r /\ H <= h
                             /\ h = H \/ h = X + 1
  <1>1. pdu.sn \in SN
    BY NumberAndRounds
  <1>2. CASE UNCHANGED <<vr_r, vr_h>>
    <2>1. Edges(A, S, R, H)'
      BY <1>2 DEF Edges
    <2> QED
      BY <2>1 DEF Edges
  <1>3. CASE /\ RxBase(pdu.sn) < RLC_AM_WINDOW_SIZE
             /\ vr_h' = HighestAfter(pdu.sn)
             /\ vr_r' \in SN /\ RxBase(vr_r') <= RxBase(vr_h')
    <2>1. R <= X
      <3> SUFFICES ASSUME X < R PROVE FALSE
        BY DEF Edges
      <3>1. R <= X + MOD /\ X - R + MOD >= RLC_AM_WINDOW_SIZE
        BY SnAssumption DEF Edges
      <3>2. RxBase(pdu.sn) = X - R + MOD
        BY <3>1, FromEdges
      <3> QED
        BY <1>3, <3>1, <3>2, SnAssumption DEF Edges
    <2>2. X < R + MOD /\ H < R + MOD /\ X + 1 < R + MOD
      BY SnAssumption DEF Edges
    <2>3. RxBase(pdu.sn) = X - R /\ RxBase(vr_h) = H - R
      <3>1. \A Y \in Nat : R <= Y /\ Y < R + MOD => RxBase(Y % MOD) = Y - R
        BY FromEdges
      <3> QED
        BY <2>1, <2>2, <3>1 DEF Edges
    <2> DEFINE h == IF X >= H THEN X + 1 ELSE H
    <2>4. h \in Nat /\ vr_h' = h % MOD /\ H <= h /\ h <= S /\ (h = H \/ h = X + 1) /\ R <= h
      <3>1. CASE X >= H
        <4>1. RxBase(pdu.sn) >= RxBase(vr_h)
          BY <2>3, <3>1 DEF Edges
        <4>2. vr_h' = Inc(pdu.sn)
          BY <1>3, <4>1 DEF HighestAfter
        <4>3. vr_h' = (X + 1) % MOD
          BY <4>2, NextNumber
        <4> QED
          BY <2>1, <3>1, <4>3 DEF Edges
      <3>2. CASE ~(X >= H)
        <4>1. ~(RxBase(pdu.sn) >= RxBase(vr_h))
          BY <2>3, <3>2 DEF Edges
        <4>2. vr_h' = vr_h
          BY <1>3, <4>1 DEF HighestAfter
        <4> QED
          BY <3>2, <4>2 DEF Edges
      <3> QED
        BY <3>1, <3>2
    <2> HIDE DEF h
    <2>5. PICK r \in Nat : R <= r /\ r <= h /\ vr_r' = r % MOD
      <3> DEFINE d == RxBase(vr_r')
      <3>1. h < R + MOD
        BY <2>4, SnAssumption DEF Edges
      <3>2. RxBase(vr_h') = h - R
        BY <2>4, <3>1, FromEdges
      <3>3. d \in Nat
        <4>1. vr_r \in SN
          BY DEF RxInv, RxTypeOK
        <4> QED
          BY <1>3, <4>1, ModBaseIsDistance DEF RxBase
      <3>4. vr_r' = (R + d) % MOD
        BY <1>3, NumberAt DEF Edges, RxBase
      <3>5. d <= h - R
        BY <1>3, <3>2
      <3> HIDE DEF d
      <3>6. R + d \in Nat /\ R <= R + d /\ R + d <= h
        BY <2>4, <3>3, <3>5 DEF Edges
      <3> QED
        BY <3>4, <3>6
    <2>6. Edges(A, S, r, h)'
      BY <1>3, <2>4, <2>5 DEF Edges
    <2> QED
      BY <2>4, <2>5, <2>6 DEF Edges
  <1> QED
    BY <1>1, <1>2, <1>3, PduMovesEdges

(* ACK_SN is a number that is held, or vr_r. *)
LEMMA AckSnIs ==
    ASSUME RxInv, NEW top
    PROVE  \/ AckSn(top) = vr_r /\ ~(\E s \in DOMAIN rx_window : RxBase(s) < RxBase(top))
           \/ AckSn(top) \in DOMAIN rx_window /\ RxBase(AckSn(top)) < RxBase(top)
  <1> DEFINE got == {s \in DOMAIN rx_window : RxBase(s) < RxBase(top)}
  <1>1. vr_r \in SN /\ got \in SUBSET SN
    BY DEF RxInv, RxTypeOK
  <1>2. CASE got = {}
    BY <1>2 DEF AckSn
  <1>3. CASE got # {}
    <2>1. \E s \in got : \A t \in got : RxBase(t) <= RxBase(s)
      BY <1>1, <1>3, LastExists DEF RxBase
    <2>2. AckSn(top) = CHOOSE s \in got : \A t \in got : RxBase(t) <= RxBase(s)
      BY <1>3 DEF AckSn
    <2>3. AckSn(top) \in got
      BY <2>1, <2>2
    <2> QED
      BY <2>3
  <1> QED
    BY <1>2, <1>3

(* A STATUS PDU acknowledges vr_r at most, or names it as missing: the NACKs are
   dropped only when ACK_SN would be among them, and it is vr_r then. *)
LEMMA StatusReports ==
    ASSUME RxInv, NEW room \in Nat, NEW A, NEW S, NEW R, NEW H, Edges(A, S, R, H)
    PROVE  Reports(StatusFor(room), R, A, S, R)
  <1> DEFINE status == StatusFor(room)
  <1>0. /\ vr_r \in SN /\ vr_ms \in SN /\ DOMAIN rx_window \subseteq SN
        /\ vr_r \notin DOMAIN rx_window
        /\ \A s \in DOMAIN rx_window : RxBase(s) < RxBase(vr_h)
    BY DEF RxInv, RxTypeOK, RxWindowInv
  <1>1. RxBase(vr_r) = 0 /\ \A s \in SN : RxBase(s) \in 0..(MOD - 1)
    BY <1>0, ModBaseZero, ModBaseIsDistance DEF RxBase
  <1>2. Missing \in SUBSET SN /\ \A s \in Missing : s \notin DOMAIN rx_window
    BY DEF Missing
  <1>3. ASSUME NEW top \in SN, AckSn(top) \in DOMAIN rx_window, RxBase(AckSn(top)) < RxBase(top),
               RxBase(top) <= RxBase(vr_ms)
        PROVE  vr_r \in Missing /\ RxBase(vr_r) < RxBase(top)
    <2>1. RxBase(AckSn(top)) \in Nat /\ RxBase(top) \in Nat /\ RxBase(vr_ms) \in Nat
      BY <1>0, <1>1, <1>3
    <2> QED
      BY <1>0, <1>1, <1>3, <2>1 DEF Missing
  <1>4. \/ status.ack_sn = vr_r
        \/ status.ack_sn \in DOMAIN rx_window /\ vr_r \in status.nacks
    <2>1. CASE Cardinality(Missing) <= room
      <3>1. status = [ack_sn |-> AckSn(vr_ms), nacks |-> Missing]
        BY <2>1 DEF StatusFor
      <3>2. RxBase(vr_ms) <= RxBase(vr_ms)
        BY <1>0, <1>1
      <3> HIDE DEF status
      <3> QED
        BY <1>0, <1>3, <3>1, <3>2, AckSnIs
    <2>2. CASE ~(Cardinality(Missing) <= room)
      <3> DEFINE Is(m) == Cardinality({s \in Missing : RxBase(s) < RxBase(m)}) = room
                 over == CHOOSE m \in Missing : Is(m)
                 fit == {s \in Missing : RxBase(s) < RxBase(over)}
      <3>1. \E m \in Missing : Is(m)
        <4> DEFINE B(m) == {s \in Missing : ModBase(s, vr_r) < ModBase(m, vr_r)}
        <4>1. Cardinality(Missing) \in Nat
          BY <1>2, FiniteSN
        <4>2. room + 1 \in 1..Cardinality(Missing)
          BY <2>2, <4>1
        <4>3. PICK rank \in [Missing -> 1..Cardinality(Missing)] :
                /\ \A m \in Missing : rank[m] = Cardinality(B(m)) + 1
                /\ \A n \in 1..Cardinality(Missing) : \E m \in Missing : rank[m] = n
          <5>1. \E rank \in [Missing -> 1..Cardinality(Missing)] :
                  /\ \A m \in Missing : rank[m] = Cardinality({s \in Missing : ModBase(s, vr_r) < ModBase(m, vr_r)}) + 1
                  /\ \A m, n \in Missing : ModBase(m, vr_r) < ModBase(n, vr_r) => rank[m] < rank[n]
                  /\ \A n \in 1..Cardinality(Missing) : \E m \in Missing : rank[m] = n
            BY <1>0, <1>2, Ranks
          <5> QED
            BY <5>1
        <4>4. PICK m \in Missing : rank[m] = room + 1
          BY <4>2, <4>3
        <4>5. B(m) \in SUBSET SN
          BY <1>2
        <4>6. Cardinality(B(m)) \in Nat
          BY <4>5, FiniteSN
        <4>7. rank[m] = Cardinality(B(m)) + 1
          BY <4>3
        <4>8. Cardinality(B(m)) = room
          <5> HIDE DEF B
          <5> QED
            BY <4>4, <4>6, <4>7
        <4> QED
          BY <4>8 DEF RxBase
      <3>2. over \in Missing
        <4> HIDE DEF Is
        <4> QED
          BY <3>1
      <3>3. status = [ack_sn |-> AckSn(over), nacks |-> IF AckSn(over) \in fit THEN {} ELSE fit]
        BY <2>2 DEF StatusFor
      <3> HIDE DEF over, status
      <3>4. over \in SN /\ RxBase(over) <= RxBase(vr_ms)
        <4>1. over \in SN /\ RxBase(over) < RxBase(vr_ms)
          BY <3>2 DEF Missing
        <4> QED
          BY <1>0, <1>1, <4>1
      <3>5. CASE AckSn(over) = vr_r
        BY <3>3, <3>5
      <3>6. CASE AckSn(over) \in DOMAIN rx_window /\ RxBase(AckSn(over)) < RxBase(over)
        <4>1. vr_r \in fit
          BY <1>3, <3>4, <3>6
        <4>2. AckSn(over) \notin fit
          BY <1>2, <3>6
        <4> HIDE DEF fit
        <4> QED
          BY <3>3, <3>6, <4>1, <4>2
      <3> QED
        BY <3>5, <3>6, AckSnIs
    <2> QED
      BY <2>1, <2>2
  <1> HIDE DEF status
  <1>5. A <= R /\ R <= R /\ vr_r = R % MOD /\ R \in Nat /\ S \in Nat /\ R <= S
    BY DEF Edges
  <1>6. CASE status.ack_sn = vr_r
    BY <1>5, <1>6 DEF Reports, status
  <1>7. CASE status.ack_sn \in DOMAIN rx_window /\ vr_r \in status.nacks
    <2> DEFINE d == RxBase(status.ack_sn)
    <2>1. d \in Nat /\ d < RxBase(vr_h)
      BY <1>0, <1>1, <1>7
    <2>2. RxBase(vr_h) = H - R
      <3>1. H \in Nat /\ R <= H /\ H < R + MOD
        BY SnAssumption DEF Edges
      <3>2. RxBase(H % MOD) = H - R
        BY <3>1, FromEdges
      <3> QED
        BY <3>2 DEF Edges
    <2>3. status.ack_sn = (R + d) % MOD
      BY <1>0, <1>5, <1>7, NumberAt DEF RxBase
    <2> HIDE DEF d
    <2>4. R + d \in Nat /\ R <= R + d /\ R + d <= S
      BY <1>5, <2>1, <2>2 DEF Edges
    <2> QED
      BY <1>5, <1>7, <2>3, <2>4 DEF Reports, status
  <1> QED
    BY <1>4, <1>6, <1>7

(* A STATUS PDU moves vt_a to the count it was made at, at most. *)
LEMMA StatusMovesCounts ==
    ASSUME WindowTypes, TxWindowContiguous,
           NEW A, NEW S, NEW R, NEW H, Edges(A, S, R, H),
           NEW status, status.ack_sn \in SN, NEW k \in Nat, Reports(status, k, A, S, R),
           HandleControlPdu(status), UNCHANGED <<vr_r, vr_h>>
    PROVE  \E a \in Nat : Edges(a, S, R, H)' /\ A <= a /\ a <= k
  <1>1. PICK d \in 0..TxBase(vt_s) :
          /\ vt_a' = (vt_a + d) % MOD
          /\ d <= TxBase(status.ack_sn)
          /\ \A j \in Covered(status.ack_sn) \cap status.nacks : d <= TxBase(j)
    BY StatusMovesWindow
  <1>2. PICK q \in Nat : /\ k <= q /\ q <= S /\ status.ack_sn = q % MOD
                         /\ q = k \/ (k % MOD) \in status.nacks
    BY DEF Reports
  <1>3. A <= k /\ k <= R
    BY DEF Reports
  <1>4. \A X \in Nat : A <= X /\ X < A + MOD => TxBase(X % MOD) = X - A /\ X % MOD \in SN
    BY FromEdges
  <1>5. TxBase(vt_s) = S - A /\ TxBase(q % MOD) = q - A /\ TxBase(k % MOD) = k - A
        /\ k % MOD \in SN /\ S - A < MOD
    <2>1. A \in Nat /\ S \in Nat /\ MOD \in Nat /\ A <= S /\ S < A + MOD /\ vt_s = S % MOD
      BY SnAssumption DEF Edges
    <2>2. A <= q /\ q < A + MOD /\ k < A + MOD
      BY <1>2, <1>3, <2>1
    <2>3. TxBase(S % MOD) = S - A
      BY <1>4, <2>1
    <2>4. TxBase(q % MOD) = q - A
      BY <1>4, <2>2
    <2>5. TxBase(k % MOD) = k - A /\ k % MOD \in SN
      BY <1>3, <1>4, <2>2
    <2>6. S - A < MOD
      BY <2>1
    <2> QED
      BY <2>1, <2>3, <2>4, <2>5, <2>6
  <1>6. d \in Nat /\ d <= S - A /\ d < MOD
    <2>1. A \in Nat /\ S \in Nat /\ MOD \in Nat
      BY SnAssumption DEF Edges
    <2>2. d \in 0..(S - A)
      BY <1>5
    <2> QED
      BY <1>5, <2>1, <2>2
  <1>7. A + d <= k
    <2>1. CASE q = k
      BY <1>1, <1>2, <1>5, <1>6, <2>1 DEF Edges
    <2>2. CASE q # k
      <3>1. k < q
        BY <1>2, <2>2
      <3>2. k % MOD \in Covered(status.ack_sn)
        BY <1>2, <1>3, <1>5, <3>1 DEF Covered, Edges
      <3>3. d <= k - A
        BY <1>1, <1>2, <1>5, <2>2, <3>2
      <3> QED
        BY <1>6, <3>3 DEF Edges
    <2> QED
      BY <2>1, <2>2
  <1>8. vt_a' = (A + d) % MOD
    <2>1. d \in 0..MOD /\ A \in Nat
      BY <1>6, SnAssumption DEF Edges
    <2> QED
      BY <1>1, <2>1, Later DEF Edges
  <1>9. vt_s' = vt_s
    BY DEF HandleControlPdu
  <1>10. PICK a \in Nat : A <= a /\ a <= k /\ vt_a' = a % MOD
    <2>1. A + d \in Nat /\ A <= A + d
      BY <1>6 DEF Edges
    <2> QED
      BY <1>7, <1>8, <2>1
  <1>11. Edges(a, S, R, H)'
    BY <1>3, <1>9, <1>10, SnAssumption DEF Edges
  <1> QED
    BY <1>10, <1>11 DEF Edges

(* Data PDUs in flight, as the list changes.  One more is sent; *)
LEMMA SentOneMore ==
    ASSUME NEW P, pdu_list \in Seq(P), NEW U, NEW V, NEW S, NEW H, Sent(U, V, S, H),
           S \in Nat, H \in Nat, H <= S,
           NEW X \in Nat, NEW T \in Nat, T = S \/ T = S + 1,
           X < T, T <= X + RLC_AM_WINDOW_SIZE,
           NEW pdu, pdu.sn = X % MOD, pdu_list' = Append(pdu_list, pdu), overtaken' = overtaken
    PROVE  \E u, v :
              /\ u = [n \in 1..(Len(pdu_list) + 1) |-> IF n <= Len(pdu_list) THEN U[n] ELSE X]
              /\ Sent(u, v, T, H)'
  <1> PICK l : l = Len(pdu_list)
    OBVIOUS
  <1> PICK u : u = [n \in 1..(l + 1) |-> IF n <= l THEN U[n] ELSE X]
    OBVIOUS
  <1> PICK v : v = [n \in 1..(l + 1) |-> IF n <= l THEN V[n] ELSE T]
    OBVIOUS
  <1>0. l \in Nat /\ Len(pdu_list') = l + 1
        /\ \A n \in 1..l : pdu_list'[n] = pdu_list[n]
        /\ pdu_list'[l + 1] = pdu
    <2>1. pdu_list \in Seq(P \cup {pdu})
      BY SeqMonotonic
    <2> QED
      BY <2>1, AppendProperties, LenProperties
  <1>1. /\ U \in [1..l -> Nat] /\ V \in [1..l -> Nat]
        /\ \A n \in 1..l :
              /\ pdu_list[n].sn = U[n] % MOD
              /\ U[n] < V[n] /\ V[n] <= U[n] + RLC_AM_WINDOW_SIZE /\ V[n] <= S
              /\ H <= U[n] + RLC_AM_WINDOW_SIZE
              /\ H <= V[n] \/ (n = 1 /\ overtaken)
        /\ \A n \in 1..(l - 1) :
              /\ V[n] <= V[n + 1]
              /\ V[n + 1] <= V[n] + 1 \/ (n = 1 /\ overtaken)
        /\ l > 0 => V[l] = S \/ (l = 1 /\ overtaken)
    BY DEF Sent
  <1>2. u \in [1..(l + 1) -> Nat] /\ v \in [1..(l + 1) -> Nat]
    BY <1>0, <1>1
  <1>3. \A n \in 1..(l + 1) :
          \/ n \in 1..l /\ u[n] = U[n] /\ v[n] = V[n] /\ pdu_list'[n] = pdu_list[n]
          \/ n = l + 1 /\ u[n] = X /\ v[n] = T /\ pdu_list'[n] = pdu
    BY <1>0
  <1>4. \A n \in 1..(l + 1) :
          /\ pdu_list'[n].sn = u[n] % MOD
          /\ u[n] < v[n] /\ v[n] <= u[n] + RLC_AM_WINDOW_SIZE /\ v[n] <= T
          /\ H <= u[n] + RLC_AM_WINDOW_SIZE
          /\ H <= v[n] \/ (n = 1 /\ overtaken)
    <2> TAKE n \in 1..(l + 1)
    <2>1. CASE n \in 1..l /\ u[n] = U[n] /\ v[n] = V[n] /\ pdu_list'[n] = pdu_list[n]
      <3>1. V[n] \in Nat /\ U[n] \in Nat
        BY <1>1, <2>1
      <3>2. /\ pdu_list[n].sn = U[n] % MOD
            /\ U[n] < V[n] /\ V[n] <= U[n] + RLC_AM_WINDOW_SIZE /\ V[n] <= S
            /\ H <= U[n] + RLC_AM_WINDOW_SIZE
            /\ H <= V[n] \/ (n = 1 /\ overtaken)
        BY <1>1, <2>1
      <3>3. V[n] <= T
        BY <3>1, <3>2
      <3> QED
        BY <2>1, <3>2, <3>3
    <2>2. CASE n = l + 1 /\ u[n] = X /\ v[n] = T /\ pdu_list'[n] = pdu
      <3>1. RLC_AM_WINDOW_SIZE \in Nat
        BY SnAssumption
      <3>2. H <= T /\ H <= X + RLC_AM_WINDOW_SIZE
        BY <3>1
      <3> QED
        BY <2>2, <3>2
    <2> QED
      BY <1>3, <2>1, <2>2
  <1>5. \A n \in 1..l :
          /\ v[n] <= v[n + 1]
          /\ v[n + 1] <= v[n] + 1 \/ (n = 1 /\ overtaken)
    <2> TAKE n \in 1..l
    <2>1. v[n] = V[n] /\ V[n] \in Nat /\ v[n + 1] = IF n + 1 <= l THEN V[n + 1] ELSE T
      BY <1>0, <1>1
    <2>2. CASE n + 1 <= l
      BY <1>0, <1>1, <2>1, <2>2
    <2>3. CASE ~(n + 1 <= l)
      <3>1. n = l /\ l > 0
        BY <1>0, <2>3
      <3>2. V[l] <= S /\ (V[l] = S \/ (l = 1 /\ overtaken))
        BY <1>1, <3>1
      <3> QED
        BY <2>1, <2>3, <3>1, <3>2
    <2> QED
      BY <2>2, <2>3
  <1>6. v[l + 1] = T
    BY <1>0
  <1>7. (l + 1) - 1 = l
    BY <1>0
  <1>8. Sent(u, v, T, H)'
    BY <1>0, <1>2, <1>4, <1>5, <1>6, <1>7 DEF Sent
  <1> QED
    BY <1>8

(* what is in flight was sent in order; *)
LEMMA SentInOrder ==
    ASSUME NEW P, pdu_list \in Seq(P), NEW U, NEW V, NEW S, NEW H, Sent(U, V, S, H),
           NEW m \in 1..Len(pdu_list), NEW n \in m..Len(pdu_list)
    PROVE  V[m] <= V[n]
  <1>1. Len(pdu_list) \in Nat
    BY LenProperties
  <1>2. /\ V \in [1..Len(pdu_list) -> Nat]
        /\ \A d \in 1..(Len(pdu_list) - 1) : V[d] <= V[d + 1]
    BY DEF Sent
  <1> QED
    BY <1>1, <1>2, Ascending

(* the oldest arrives, or is lost; *)
LEMMA SentOneLess ==
    ASSUME NEW P, pdu_list \in Seq(P), pdu_list # << >>,
           NEW U, NEW V, NEW S, NEW H, Sent(U, V, S, H), S \in Nat, H \in Nat,
           NEW h \in Nat, h = H \/ h = U[1] + 1,
           pdu_list' = Tail(pdu_list), overtaken' = FALSE
    PROVE  \E u, v : /\ u = [n \in 1..(Len(pdu_list) - 1) |-> U[n + 1]]
                     /\ Sent(u, v, S, h)'
  <1> PICK l : l = Len(pdu_list)
    OBVIOUS
  <1> PICK u : u = [n \in 1..(l - 1) |-> U[n + 1]]
    OBVIOUS
  <1> PICK v : v = [n \in 1..(l - 1) |-> V[n + 1]]
    OBVIOUS
  <1>0. l \in Nat \ {0} /\ Len(pdu_list') = l - 1
        /\ \A n \in 1..(l - 1) : pdu_list'[n] = pdu_list[n + 1]
    <2>1. l \in Nat \ {0}
      BY EmptySeq, LenProperties
    <2>2. Len(Tail(pdu_list)) = l - 1 /\ \A n \in 1..(l - 1) : Tail(pdu_list)[n] = pdu_list[n + 1]
      BY HeadTailProperties
    <2> QED
      BY <2>1, <2>2
  <1>1. /\ U \in [1..l -> Nat] /\ V \in [1..l -> Nat]
        /\ \A n \in 1..l :
              /\ pdu_list[n].sn = U[n] % MOD
              /\ U[n] < V[n] /\ V[n] <= U[n] + RLC_AM_WINDOW_SIZE /\ V[n] <= S
              /\ H <= U[n] + RLC_AM_WINDOW_SIZE
              /\ H <= V[n] \/ (n = 1 /\ overtaken)
        /\ \A n \in 1..(l - 1) :
              /\ V[n] <= V[n + 1]
              /\ V[n + 1] <= V[n] + 1 \/ (n = 1 /\ overtaken)
        /\ l > 0 => V[l] = S \/ (l = 1 /\ overtaken)
    BY DEF Sent
  <1>2. \A n \in 1..(l - 1) : n + 1 \in 1..l /\ n + 1 # 1
    BY <1>0
  <1>3. u \in [1..(l - 1) -> Nat] /\ v \in [1..(l - 1) -> Nat]
    BY <1>1, <1>2
  <1>4. \A n \in 1..(l - 1) : u[n] = U[n + 1] /\ v[n] = V[n + 1] /\ U[n + 1] \in Nat /\ V[n + 1] \in Nat
    BY <1>1, <1>2
  <1>5. \A n \in 1..(l - 1) : U[1] + 1 <= V[n + 1]
    <2> TAKE n \in 1..(l - 1)
    <2>1. 1 \in 1..l /\ n + 1 \in 1..l
      BY <1>0
    <2>2. V[1] <= V[n + 1]
      BY <2>1, SentInOrder
    <2>3. U[1] < V[1] /\ U[1] \in Nat /\ V[1] \in Nat /\ V[n + 1] \in Nat
      BY <1>1, <2>1
    <2> QED
      BY <2>2, <2>3
  <1>6. \A n \in 1..(l - 1) : h <= V[n + 1] /\ h <= U[n + 1] + RLC_AM_WINDOW_SIZE
    <2> TAKE n \in 1..(l - 1)
    <2>1. H <= V[n + 1] /\ V[n + 1] <= U[n + 1] + RLC_AM_WINDOW_SIZE
      BY <1>1, <1>2
    <2>2. U[1] + 1 <= V[n + 1]
      BY <1>5
    <2>3. h <= V[n + 1]
      BY <2>1, <2>2
    <2> QED
      BY <1>4, <2>1, <2>3, SnAssumption
  <1>7. \A n \in 1..(l - 1) :
          /\ pdu_list'[n].sn = u[n] % MOD
          /\ u[n] < v[n] /\ v[n] <= u[n] + RLC_AM_WINDOW_SIZE /\ v[n] <= S
          /\ h <= u[n] + RLC_AM_WINDOW_SIZE /\ h <= v[n]
    <2> TAKE n \in 1..(l - 1)
    <2>1. n + 1 \in 1..l /\ pdu_list'[n] = pdu_list[n + 1] /\ u[n] = U[n + 1] /\ v[n] = V[n + 1]
      BY <1>0, <1>2, <1>4
    <2>2. /\ pdu_list[n + 1].sn = U[n + 1] % MOD
          /\ U[n + 1] < V[n + 1] /\ V[n + 1] <= U[n + 1] + RLC_AM_WINDOW_SIZE /\ V[n + 1] <= S
      BY <1>1, <2>1
    <2> QED
      BY <1>6, <2>1, <2>2
  <1>8. \A n \in 1..(l - 1 - 1) : v[n] <= v[n + 1] /\ v[n + 1] <= v[n] + 1
    <2> TAKE n \in 1..(l - 1 - 1)
    <2>1. n \in 1..(l - 1) /\ n + 1 \in 1..(l - 1) /\ n + 1 # 1
      BY <1>0
    <2>2. v[n] = V[n + 1] /\ v[n + 1] = V[(n + 1) + 1]
      BY <1>4, <2>1
    <2>3. V[n + 1] <= V[(n + 1) + 1] /\ V[(n + 1) + 1] <= V[n + 1] + 1
      BY <1>1, <2>1
    <2> QED
      BY <2>2, <2>3
  <1>9. l - 1 > 0 => v[l - 1] = S
    <2> SUFFICES ASSUME l - 1 > 0 PROVE v[l - 1] = S
      OBVIOUS
    <2>1. l - 1 \in 1..(l - 1) /\ (l - 1) + 1 = l /\ l # 1 /\ l > 0
      BY <1>0
    <2>2. v[l - 1] = V[(l - 1) + 1]
      BY <1>4, <2>1
    <2> QED
      BY <1>1, <2>1, <2>2
  <1>10. Sent(u, v, S, h)'
    BY <1>0, <1>3, <1>7, <1>8, <1>9 DEF Sent
  <1> QED
    BY <1>10

(* the oldest arrives, and stays; *)
LEMMA SentSame ==
    ASSUME NEW P, pdu_list \in Seq(P), pdu_list # << >>,
           NEW U, NEW V, NEW S, NEW H, Sent(U, V, S, H), S \in Nat, H \in Nat,
           NEW h \in Nat, h = H \/ h = U[1] + 1, UNCHANGED <<pdu_list, overtaken>>
    PROVE  Sent(U, V, S, h)'
  <1> PICK l : l = Len(pdu_list)
    OBVIOUS
  <1>0. l \in Nat \ {0} /\ 1 \in 1..l
    BY EmptySeq, LenProperties
  <1>1. /\ U \in [1..l -> Nat] /\ V \in [1..l -> Nat]
        /\ \A n \in 1..l :
              /\ U[n] < V[n] /\ V[n] <= U[n] + RLC_AM_WINDOW_SIZE
              /\ H <= U[n] + RLC_AM_WINDOW_SIZE
              /\ H <= V[n] \/ (n = 1 /\ overtaken)
    BY DEF Sent
  <1>2. \A n \in 1..l : /\ h <= U[n] + RLC_AM_WINDOW_SIZE
                        /\ h <= V[n] \/ (n = 1 /\ overtaken)
    <2> TAKE n \in 1..l
    <2>1. V[1] <= V[n]
      BY <1>0, SentInOrder
    <2>2. /\ U[1] < V[1] /\ U[1] \in Nat /\ V[1] \in Nat /\ V[n] \in Nat /\ U[n] \in Nat
      BY <1>0, <1>1
    <2>3. /\ V[n] <= U[n] + RLC_AM_WINDOW_SIZE
          /\ H <= U[n] + RLC_AM_WINDOW_SIZE
          /\ H <= V[n] \/ (n = 1 /\ overtaken)
      BY <1>1
    <2> QED
      BY <2>1, <2>2, <2>3, SnAssumption
  <1> QED
    BY <1>2 DEF Sent

(* the second overtakes the oldest. *)
LEMMA NotAWindowApart ==
    ASSUME NEW X \in Nat, NEW Y \in Nat, Y = X + RLC_AM_WINDOW_SIZE,
           \/ ModBase(Y % MOD, X % MOD) < RLC_AM_WINDOW_SIZE
           \/ ModBase(X % MOD, Y % MOD) < RLC_AM_WINDOW_SIZE
    PROVE  FALSE
  <1>1. /\ X <= Y /\ Y < X + MOD /\ X < Y /\ Y <= X + MOD
        /\ RLC_AM_WINDOW_SIZE \in Nat /\ MOD \in Nat /\ MOD >= 2 * RLC_AM_WINDOW_SIZE
    BY SnAssumption
  <1>2. ModBase(Y % MOD, X % MOD) = Y - X
    BY <1>1, DistanceUp
  <1>3. ModBase(X % MOD, Y % MOD) = X - Y + MOD
    BY <1>1, DistanceDown
  <1> PICK a, b : a = ModBase(Y % MOD, X % MOD) /\ b = ModBase(X % MOD, Y % MOD)
    OBVIOUS
  <1>4. a = Y - X /\ b = X - Y + MOD /\ (a < RLC_AM_WINDOW_SIZE \/ b < RLC_AM_WINDOW_SIZE)
    BY <1>2, <1>3
  <1> QED
    BY <1>1, <1>4

LEMMA SentSecondGone ==
    ASSUME NEW P, pdu_list \in Seq(P), Len(pdu_list) > 1, ~overtaken,
           NEW U, NEW V, NEW S, NEW H, Sent(U, V, S, H), S \in Nat, H \in Nat,
           \/ ModBase(pdu_list[2].sn, pdu_list[1].sn) < RLC_AM_WINDOW_SIZE
           \/ ModBase(pdu_list[1].sn, pdu_list[2].sn) < RLC_AM_WINDOW_SIZE,
           NEW h \in Nat, h = H \/ h = U[2] + 1,
           pdu_list' = RemoveAt(pdu_list, 2), overtaken' = TRUE
    PROVE  \E u, v : /\ u = [n \in 1..(Len(pdu_list) - 1) |-> IF n = 1 THEN U[1] ELSE U[n + 1]]
                     /\ Sent(u, v, S, h)'
  <1> PICK l : l = Len(pdu_list)
    OBVIOUS
  <1>u. PICK u : u = [n \in 1..(l - 1) |-> IF n = 1 THEN U[1] ELSE U[n + 1]]
    OBVIOUS
  <1>v. PICK v : v = [n \in 1..(l - 1) |-> IF n = 1 THEN V[1] ELSE V[n + 1]]
    OBVIOUS
  <1>0. /\ l \in Nat /\ l > 1 /\ Len(pdu_list') = l - 1
        /\ \A n \in 1..(l - 1) : pdu_list'[n] = IF n < 2 THEN pdu_list[n] ELSE pdu_list[n + 1]
    <2>1. l \in Nat /\ l > 1 /\ 2 \in 1..Len(pdu_list)
      BY LenProperties
    <2>2. /\ Len(RemoveAt(pdu_list, 2)) = Len(pdu_list) - 1
          /\ \A i \in 1..(Len(pdu_list) - 1) :
                RemoveAt(pdu_list, 2)[i] = IF i < 2 THEN pdu_list[i] ELSE pdu_list[i + 1]
      BY <2>1, RemoveAtProperties, Zenon
    <2> QED
      BY <2>1, <2>2
  <1>1. /\ U \in [1..l -> Nat] /\ V \in [1..l -> Nat]
        /\ \A n \in 1..l :
              /\ pdu_list[n].sn = U[n] % MOD
              /\ U[n] < V[n] /\ V[n] <= U[n] + RLC_AM_WINDOW_SIZE /\ V[n] <= S
              /\ H <= U[n] + RLC_AM_WINDOW_SIZE
              /\ H <= V[n]
        /\ \A n \in 1..(l - 1) : V[n] <= V[n + 1] /\ V[n + 1] <= V[n] + 1
        /\ V[l] = S
    BY <1>0 DEF Sent
  <1>2. 1 \in 1..l /\ 2 \in 1..l /\ 1 \in 1..(l - 1)
        /\ \A n \in 1..(l - 1) : n \in 1..l /\ n + 1 \in 1..l /\ (n # 1 => n + 1 \in 2..l)
    BY <1>0
  <1>3. /\ U[1] \in Nat /\ U[2] \in Nat /\ V[1] \in Nat /\ V[2] \in Nat
        /\ U[2] < V[2] /\ V[2] <= V[1] + 1 /\ V[1] <= U[1] + RLC_AM_WINDOW_SIZE
    <2>1. V[1 + 1] <= V[1] + 1
      <3>1. \A n \in 1..(l - 1) : V[n + 1] <= V[n] + 1
        BY <1>1
      <3> QED
        BY <1>2, <3>1
    <2>2. V[2] <= V[1] + 1
      BY <2>1
    <2>3. /\ U[1] \in Nat /\ U[2] \in Nat /\ V[1] \in Nat /\ V[2] \in Nat
          /\ U[2] < V[2] /\ V[1] <= U[1] + RLC_AM_WINDOW_SIZE
      BY <1>1, <1>2
    <2> QED
      BY <2>2, <2>3
  <1>4. U[2] + 1 <= U[1] + RLC_AM_WINDOW_SIZE
    <2>0. U[2] <= U[1] + RLC_AM_WINDOW_SIZE /\ U[1] + RLC_AM_WINDOW_SIZE \in Nat
      <3>1. RLC_AM_WINDOW_SIZE \in Nat
        BY SnAssumption
      <3> QED
        BY <1>3, <3>1
    <2>a. U[1] \in Nat /\ U[2] \in Nat
      BY <1>3
    <2> SUFFICES ASSUME U[2] = U[1] + RLC_AM_WINDOW_SIZE PROVE FALSE
      BY <2>0, <2>a
    <2>1. pdu_list[1].sn = U[1] % MOD /\ pdu_list[2].sn = U[2] % MOD
      BY <1>1, <1>2
    <2> QED
      BY <1>3, <2>1, NotAWindowApart
  <1>5. u \in [1..(l - 1) -> Nat] /\ v \in [1..(l - 1) -> Nat]
    BY <1>1, <1>2, <1>u, <1>v
  <1>6. \A n \in 1..(l - 1) :
          \/ n = 1 /\ u[n] = U[1] /\ v[n] = V[1] /\ pdu_list'[n] = pdu_list[1]
          \/ n # 1 /\ u[n] = U[n + 1] /\ v[n] = V[n + 1] /\ pdu_list'[n] = pdu_list[n + 1]
    BY <1>0, <1>u, <1>v
  <1>7. \A n \in 1..(l - 1) :
          /\ pdu_list'[n].sn = u[n] % MOD
          /\ u[n] < v[n] /\ v[n] <= u[n] + RLC_AM_WINDOW_SIZE /\ v[n] <= S
          /\ h <= u[n] + RLC_AM_WINDOW_SIZE
          /\ h <= v[n] \/ n = 1
    <2> TAKE n \in 1..(l - 1)
    <2>1. CASE n = 1 /\ u[n] = U[1] /\ v[n] = V[1] /\ pdu_list'[n] = pdu_list[1]
      <3>1. /\ pdu_list[1].sn = U[1] % MOD
            /\ U[1] < V[1] /\ V[1] <= U[1] + RLC_AM_WINDOW_SIZE /\ V[1] <= S
            /\ H <= U[1] + RLC_AM_WINDOW_SIZE
        BY <1>1, <1>2
      <3> QED
        BY <1>4, <2>1, <3>1
    <2>2. CASE n # 1 /\ u[n] = U[n + 1] /\ v[n] = V[n + 1] /\ pdu_list'[n] = pdu_list[n + 1]
      <3>1. /\ pdu_list[n + 1].sn = U[n + 1] % MOD
            /\ U[n + 1] < V[n + 1] /\ V[n + 1] <= U[n + 1] + RLC_AM_WINDOW_SIZE /\ V[n + 1] <= S
            /\ H <= U[n + 1] + RLC_AM_WINDOW_SIZE /\ H <= V[n + 1]
            /\ U[n + 1] \in Nat /\ V[n + 1] \in Nat
        BY <1>1, <1>2
      <3>2. V[2] <= V[n + 1]
        <4>1. n + 1 \in 2..l
          BY <1>2, <2>2
        <4> QED
          BY <1>2, <4>1, SentInOrder
      <3>3. h <= V[n + 1]
        <4>1. U[2] + 1 <= V[2]
          BY <1>3
        <4>2. U[2] + 1 <= V[n + 1]
          BY <1>3, <3>1, <3>2, <4>1
        <4> QED
          BY <3>1, <4>2
      <3>4. h <= U[n + 1] + RLC_AM_WINDOW_SIZE
        <4>1. RLC_AM_WINDOW_SIZE \in Nat
          BY SnAssumption
        <4> QED
          BY <3>1, <3>3, <4>1
      <3> QED
        BY <2>2, <3>1, <3>3, <3>4
    <2> QED
      BY <1>6, <2>1, <2>2
  <1>8. \A n \in 1..(l - 1 - 1) : /\ v[n] <= v[n + 1]
                                  /\ v[n + 1] <= v[n] + 1 \/ n = 1
    <2> TAKE n \in 1..(l - 1 - 1)
    <2>1. n \in 1..(l - 1) /\ n + 1 \in 1..(l - 1) /\ n + 1 # 1 /\ n + 1 \in 1..l
          /\ (n + 1) + 1 \in 1..l
      BY <1>0
    <2>2. v[n + 1] = V[(n + 1) + 1]
      BY <1>6, <2>1
    <2>3. V[n + 1] <= V[(n + 1) + 1] /\ V[(n + 1) + 1] <= V[n + 1] + 1
          /\ V[n] <= V[n + 1]
      BY <1>1, <2>1
    <2>4. V[n] \in Nat /\ V[n + 1] \in Nat /\ V[(n + 1) + 1] \in Nat
      BY <1>1, <1>2, <2>1
    <2>5. v[n] = IF n = 1 THEN V[n] ELSE V[n + 1]
      BY <1>6, <2>1
    <2> QED
      BY <2>2, <2>3, <2>4, <2>5
  <1>9. l - 1 > 0 => v[l - 1] = S \/ l - 1 = 1
    <2> SUFFICES ASSUME l - 1 # 1 PROVE v[l - 1] = S
      BY <1>0
    <2>1. l - 1 \in 1..(l - 1) /\ (l - 1) + 1 = l
      BY <1>0
    <2> PICK k : k = l - 1
      OBVIOUS
    <2>2. v[k] = V[k + 1]
      BY <1>6, <2>1
    <2>3. k + 1 = l
      BY <2>1
    <2>4. V[k + 1] = S
      BY <1>1, <2>3
    <2> QED
      BY <2>2, <2>4
  <1>10. Sent(u, v, S, h)'
    <2> PICK k : k = l - 1
      OBVIOUS
    <2>1. Len(pdu_list') = k /\ overtaken'
      BY <1>0
    <2>2. k > 0 => v[k] = S \/ (k = 1 /\ overtaken')
      BY <1>9, <2>1
    <2>3. \A n \in 1..(k - 1) : /\ v[n] <= v[n + 1]
                                /\ v[n + 1] <= v[n] + 1 \/ (n = 1 /\ overtaken')
      <3>1. \A n \in 1..(k - 1) : v[n] <= v[n + 1] /\ (v[n + 1] <= v[n] + 1 \/ n = 1)
        BY <1>8
      <3> QED
        BY <2>1, <3>1
    <2>4. \A n \in 1..k : /\ pdu_list'[n].sn = u[n] % MOD
                          /\ u[n] < v[n] /\ v[n] <= u[n] + RLC_AM_WINDOW_SIZE /\ v[n] <= S
                          /\ h <= u[n] + RLC_AM_WINDOW_SIZE
                          /\ h <= v[n] \/ (n = 1 /\ overtaken')
      BY <1>7, <2>1
    <2>5. u \in [1..k -> Nat] /\ v \in [1..k -> Nat]
      BY <1>5
    <2> QED
      BY <2>1, <2>2, <2>3, <2>4, <2>5 DEF Sent
  <1> QED
    BY <1>u, <1>10

-----------------------------------------------------------------------------
(* What the STATUS PDUs in flight report stays true: the edges only rise, and *)
(* vt_a rises to what the oldest of them reports at most.                     *)
LEMMA ReportsStays ==
    ASSUME NEW status, NEW k \in Nat, NEW A, NEW S \in Nat, NEW R \in Nat, Reports(status, k, A, S, R),
           NEW a \in Nat, NEW s \in Nat, NEW r \in Nat, a <= k, S <= s, R <= r
    PROVE  Reports(status, k, a, s, r)
  BY DEF Reports

(* STATUS PDUs stay reports when the edges move on. *)
LEMMA ReportedStays ==
    ASSUME status_list \in Seq(StatusPdu),
           NEW K, NEW A \in Nat, NEW S \in Nat, NEW R \in Nat, Reported(K, A, S, R),
           NEW a \in Nat, NEW s \in Nat, NEW r \in Nat, S <= s, R <= r,
           a <= A \/ (status_list # << >> /\ a <= K[1])
    PROVE  Reported(K, a, s, r)
  <1> PICK l : l = Len(status_list)
    OBVIOUS
  <1>0. l \in Nat /\ (status_list # << >> => 1 \in 1..l)
    BY EmptySeq, LenProperties
  <1>1. /\ K \in [1..l -> Nat]
        /\ \A n \in 1..l : Reports(status_list[n], K[n], A, S, R)
        /\ \A n \in 1..(l - 1) : K[n] <= K[n + 1]
        /\ tx_status # none =>
              \E k \in Nat : /\ Reports(tx_status, k, A, S, R)
                             /\ \A n \in 1..l : K[n] <= k
    BY DEF Reported
  <1>2. \A n \in 1..l : a <= K[n]
    <2> TAKE n \in 1..l
    <2>1. K[n] \in Nat /\ A <= K[n]
      BY <1>1 DEF Reports
    <2>2. status_list # << >> => K[1] <= K[n] /\ K[1] \in Nat
      BY <1>0, <1>1, Ascending
    <2> QED
      BY <2>1, <2>2
  <1>3. \A n \in 1..l : Reports(status_list[n], K[n], a, s, r)
    <2> TAKE n \in 1..l
    <2>1. K[n] \in Nat /\ Reports(status_list[n], K[n], A, S, R)
      BY <1>1
    <2> QED
      BY <1>2, <2>1, ReportsStays
  <1>4. tx_status # none =>
          \E k \in Nat : Reports(tx_status, k, a, s, r) /\ \A n \in 1..l : K[n] <= k
    <2> SUFFICES ASSUME tx_status # none
                 PROVE  \E k \in Nat : Reports(tx_status, k, a, s, r) /\ \A n \in 1..l : K[n] <= k
      OBVIOUS
    <2>1. PICK k \in Nat : Reports(tx_status, k, A, S, R) /\ \A n \in 1..l : K[n] <= k
      BY <1>1
    <2>2. A <= k
      BY <2>1 DEF Reports
    <2>3. a <= k
      <3>1. status_list # << >> => K[1] \in Nat /\ K[1] <= k
        BY <1>0, <1>1, <2>1
      <3> QED
        BY <2>2, <3>1
    <2> QED
      BY <2>1, <2>3, ReportsStays
  <1> QED
    BY <1>1, <1>3, <1>4 DEF Reported

(* And when nothing moves. *)
LEMMA ReportedSame ==
    ASSUME NEW K, NEW A, NEW S, NEW R, Reported(K, A, S, R), UNCHANGED <<status_list, tx_status>>
    PROVE  Reported(K, A, S, R)'
  BY DEF Reported, Reports

(* A STATUS leaves the receiver. *)
LEMMA ReportedSent ==
    ASSUME status_list \in Seq(StatusPdu), tx_status # none,
           NEW K, NEW A, NEW S, NEW R, Reported(K, A, S, R),
           status_list' = Append(status_list, tx_status), tx_status' = none
    PROVE  \E K1 : Reported(K1, A, S, R)'
  <1> PICK l : l = Len(status_list)
    OBVIOUS
  <1>1. /\ K \in [1..l -> Nat]
        /\ \A n \in 1..l : Reports(status_list[n], K[n], A, S, R)
        /\ \A n \in 1..(l - 1) : K[n] <= K[n + 1]
    BY DEF Reported
  <1>2. PICK k \in Nat : Reports(tx_status, k, A, S, R) /\ \A n \in 1..l : K[n] <= k
    BY DEF Reported
  <1>0. l \in Nat /\ Len(status_list') = l + 1
        /\ (\A n \in 1..l : status_list'[n] = status_list[n]) /\ status_list'[l + 1] = tx_status
    <2>1. status_list \in Seq(StatusPdu \cup {tx_status})
      BY SeqMonotonic
    <2> QED
      BY <2>1, AppendProperties, LenProperties
  <1> PICK K1 : K1 = [n \in 1..(l + 1) |-> IF n <= l THEN K[n] ELSE k]
    OBVIOUS
  <1>3. K1 \in [1..(l + 1) -> Nat]
    BY <1>0, <1>1
  <1>4. \A n \in 1..(l + 1) : Reports(status_list'[n], K1[n], A, S, R)
    <2> TAKE n \in 1..(l + 1)
    <2>1. CASE n \in 1..l
      <3>1. K1[n] = K[n] /\ status_list'[n] = status_list[n]
        BY <1>0, <2>1
      <3> QED
        BY <1>1, <2>1, <3>1
    <2>2. CASE n = l + 1
      <3>1. K1[n] = k /\ status_list'[n] = tx_status
        BY <1>0, <2>2
      <3> QED
        BY <1>2, <3>1
    <2> QED
      BY <1>0, <2>1, <2>2
  <1>5. \A n \in 1..l : K1[n] <= K1[n + 1]
    <2> TAKE n \in 1..l
    <2>1. K1[n] = K[n] /\ K1[n + 1] = IF n + 1 <= l THEN K[n + 1] ELSE k
      BY <1>0
    <2>2. n + 1 <= l => K[n] <= K[n + 1]
      BY <1>0, <1>1
    <2> QED
      BY <1>2, <2>1, <2>2
  <1>6. (l + 1) - 1 = l
    BY <1>0
  <1>7. Reported(K1, A, S, R)'
    BY <1>0, <1>3, <1>4, <1>5, <1>6 DEF Reported, Reports
  <1> QED
    BY <1>7

(* A STATUS is taken out of flight, in order. *)
LEMMA ReportedTaken ==
    ASSUME status_list \in Seq(StatusPdu), status_list # << >>,
           NEW K, NEW A \in Nat, NEW S \in Nat, NEW R \in Nat, Reported(K, A, S, R),
           status_list' = Tail(status_list) \/ status_list' = RemoveAt(status_list, 1),
           tx_status' = tx_status
    PROVE  \E K1 : Reported(K1, A, S, R)'
  <1> PICK l : l = Len(status_list)
    OBVIOUS
  <1>0. l \in Nat \ {0} /\ Len(status_list') = l - 1
        /\ \A n \in 1..(l - 1) : status_list'[n] = status_list[n + 1]
    <2>1. l \in Nat \ {0}
      BY EmptySeq, LenProperties
    <2>2. Len(Tail(status_list)) = l - 1
          /\ \A n \in 1..(l - 1) : Tail(status_list)[n] = status_list[n + 1]
      BY HeadTailProperties
    <2>3. /\ Len(RemoveAt(status_list, 1)) = l - 1
          /\ \A n \in 1..(l - 1) : RemoveAt(status_list, 1)[n]
                                     = IF n < 1 THEN status_list[n] ELSE status_list[n + 1]
      <3>1. 1 \in 1..l
        BY <2>1
      <3> QED
        BY <3>1, RemoveAtProperties
    <2>4. \A n \in 1..(l - 1) : RemoveAt(status_list, 1)[n] = status_list[n + 1]
      BY <2>1, <2>3
    <2>5. CASE status_list' = Tail(status_list)
      BY <2>1, <2>2, <2>5
    <2>6. CASE status_list' = RemoveAt(status_list, 1)
      BY <2>1, <2>3, <2>4, <2>6
    <2> QED
      BY <2>5, <2>6
  <1>1. /\ K \in [1..l -> Nat]
        /\ \A n \in 1..l : Reports(status_list[n], K[n], A, S, R)
        /\ \A n \in 1..(l - 1) : K[n] <= K[n + 1]
        /\ tx_status # none =>
              \E k \in Nat : /\ Reports(tx_status, k, A, S, R)
                             /\ \A n \in 1..l : K[n] <= k
    BY DEF Reported
  <1> PICK K1 : K1 = [n \in 1..(l - 1) |-> K[n + 1]]
    OBVIOUS
  <1>2. \A n \in 1..(l - 1) : n + 1 \in 1..l /\ K1[n] = K[n + 1]
    BY <1>0
  <1>3. K1 \in [1..(l - 1) -> Nat]
    BY <1>1, <1>2
  <1>4. \A n \in 1..(l - 1) : Reports(status_list'[n], K1[n], A, S, R)
    <2> TAKE n \in 1..(l - 1)
    <2>1. status_list'[n] = status_list[n + 1] /\ K1[n] = K[n + 1] /\ n + 1 \in 1..l
      BY <1>0, <1>2
    <2> QED
      BY <1>1, <2>1
  <1>5. \A n \in 1..(l - 1 - 1) : K1[n] <= K1[n + 1]
    <2> TAKE n \in 1..(l - 1 - 1)
    <2>1. n \in 1..(l - 1) /\ n + 1 \in 1..(l - 1)
      BY <1>0
    <2> QED
      BY <1>1, <1>2, <2>1
  <1>6. tx_status # none =>
          \E k \in Nat : Reports(tx_status, k, A, S, R) /\ \A n \in 1..(l - 1) : K1[n] <= k
    BY <1>1, <1>2
  <1>7. Reported(K1, A, S, R)'
    BY <1>0, <1>3, <1>4, <1>5, <1>6 DEF Reported, Reports
  <1> QED
    BY <1>7

(* A STATUS is made out of the receiver's state. *)
LEMMA ReportedNew ==
    ASSUME status_list \in Seq(StatusPdu),
           NEW K, NEW A, NEW S, NEW R \in Nat, Reported(K, A, S, R),
           Reports(tx_status', R, A, S, R), status_list' = status_list
    PROVE  Reported(K, A, S, R)'
  <1>1. \A n \in 1..Len(status_list) : K[n] <= R
    BY DEF Reported, Reports
  <1> QED
    BY <1>1 DEF Reported, Reports

-----------------------------------------------------------------------------
(* The agreement, kept by every step of an entity or of the MAC that keeps    *)
(* STATUS PDUs in order.                                                      *)
StatusInOrder == "overtake status" \notin Faults

\* A grant: the PDU sent is the next, or one of the window.
LEMMA AgreedSend ==
    ASSUME AmTypes, TxWindowContiguous, WithinWindow', SentNew \/ SentOld,
           NEW A, NEW S, NEW R, NEW H, NEW U, NEW V, NEW K,
           Edges(A, S, R, H), Sent(U, V, S, H), Reported(K, A, S, R),
           UNCHANGED <<vr_r, vr_h, overtaken, status_list, tx_status>>
    PROVE  Agreed'
  <1> PICK P : pdu_list \in Seq(P)
    BY DEF AmTypes, TxTypes, PdusInFlight
  <1>0. A \in Nat /\ S \in Nat /\ R \in Nat /\ H \in Nat /\ A <= S /\ H <= S
        /\ S <= A + RLC_AM_WINDOW_SIZE
        /\ status_list \in Seq(StatusPdu)
    BY DEF Edges, AmTypes
  <1>1. ASSUME NEW T \in Nat, T = S \/ T = S + 1, Edges(A, T, R, H)',
               \/ T = S /\ pdu_list' = pdu_list
               \/ \E pdu : \E X \in Nat :
                     /\ X < T /\ T <= X + RLC_AM_WINDOW_SIZE
                     /\ pdu.sn = X % MOD /\ pdu_list' = Append(pdu_list, pdu)
        PROVE  Agreed'
    <2>1. Reported(K, A, T, R)
      <3>1. S <= T /\ R <= R /\ A <= A
        BY <1>0, <1>1
      <3> QED
        BY <1>0, <1>1, <3>1, ReportedStays
    <2>2. Reported(K, A, T, R)'
      BY <2>1, ReportedSame
    <2>3. \E u, v : Sent(u, v, T, H)'
      <3>1. CASE T = S /\ pdu_list' = pdu_list
        <4>1. Sent(U, V, S, H)'
          BY <3>1 DEF Sent
        <4> QED
          BY <3>1, <4>1
      <3>2. ASSUME NEW X \in Nat, NEW pdu, X < T, T <= X + RLC_AM_WINDOW_SIZE,
                   pdu.sn = X % MOD, pdu_list' = Append(pdu_list, pdu)
            PROVE  \E u, v : Sent(u, v, T, H)'
        <4>1. overtaken' = overtaken
          OBVIOUS
        <4>2. T = S \/ T = S + 1
          BY <1>1
        <4>3. \E u, v :
                 /\ u = [n \in 1..(Len(pdu_list) + 1) |-> IF n <= Len(pdu_list) THEN U[n] ELSE X]
                 /\ Sent(u, v, T, H)'
          <5>1. /\ pdu_list \in Seq(P) /\ Sent(U, V, S, H) /\ S \in Nat /\ H \in Nat /\ H <= S
                /\ X < T /\ T <= X + RLC_AM_WINDOW_SIZE
                /\ pdu.sn = X % MOD /\ pdu_list' = Append(pdu_list, pdu)
            BY <1>0, <3>2
          <5> QED
            BY <4>1, <4>2, <5>1, SentOneMore
        <4> QED
          BY <4>3
      <3> QED
        BY <1>1, <3>1, <3>2
    <2> QED
      BY <1>1, <2>2, <2>3 DEF Agreed
  <1>2. \A s \in SN : s \in DOMAIN tx_window <=> TxBase(s) < S - A
    <2>1. S < A + MOD
      BY <1>0, SnAssumption
    <2>2. TxBase(S % MOD) = S - A
      BY <1>0, <2>1, FromEdges
    <2> QED
      BY <2>2 DEF TxWindowContiguous, Edges
  <1>3. CASE SentNew
    <2>1. S + 1 <= A + RLC_AM_WINDOW_SIZE
      <3>1. DOMAIN tx_window = {s \in SN : TxBase(s) < S - A}
        <4>1. DOMAIN tx_window \subseteq SN
          BY DEF AmTypes, TxTypes, WindowTypes
        <4> QED
          BY <1>2, <4>1
      <3>2. Cardinality(DOMAIN tx_window) = S - A
        <4>1. S - A \in 0..MOD /\ vt_a \in SN
          BY <1>0, SnAssumption DEF AmTypes, TxTypes, WindowTypes
        <4>2. Cardinality({s \in SN : ModBase(s, vt_a) < S - A}) = S - A
          BY <4>1, NumbersBelow
        <4> QED
          BY <3>1, <4>2 DEF TxBase
      <3>3. vt_s \notin DOMAIN tx_window
        <4>1. S < A + MOD
          BY <1>0, SnAssumption
        <4>2. TxBase(S % MOD) = S - A
          BY <1>0, <4>1, FromEdges
        <4>3. ~(TxBase(vt_s) < S - A)
          BY <1>0, <4>2 DEF Edges
        <4> QED
          BY <3>1, <4>3
      <3>4. IsFiniteSet(DOMAIN tx_window)
        <4>1. DOMAIN tx_window \in SUBSET SN
          BY <3>1
        <4> QED
          BY <4>1, FiniteSN
      <3>5. Cardinality(DOMAIN tx_window \cup {vt_s}) = S - A + 1
        BY <3>2, <3>3, <3>4, FS_AddElement
      <3>6. DOMAIN tx_window' = DOMAIN tx_window \cup {vt_s}
        BY <1>3 DEF SentNew
      <3>7. Cardinality(DOMAIN tx_window') <= RLC_AM_WINDOW_SIZE
        BY DEF WithinWindow
      <3>8. S - A + 1 <= RLC_AM_WINDOW_SIZE
        BY <3>5, <3>6, <3>7
      <3> QED
        BY <1>0, <3>8, SnAssumption
    <2>2. vt_s' = (S + 1) % MOD
      <3>1. vt_s' = Inc(vt_s) /\ vt_s = S % MOD
        BY <1>3 DEF SentNew, Edges
      <3> QED
        BY <1>0, <3>1, NextNumber
    <2>3. Edges(A, S + 1, R, H)'
      BY <1>0, <1>3, <2>1, <2>2 DEF Edges, SentNew
    <2>4. PICK pdu : pdu.sn = vt_s /\ pdu_list' = Append(pdu_list, pdu)
      BY <1>3 DEF SentNew
    <2>5. pdu.sn = S % MOD /\ S < S + 1 /\ S + 1 <= S + RLC_AM_WINDOW_SIZE /\ S + 1 \in Nat
      BY <1>0, <2>4, SnAssumption DEF Edges
    <2> QED
      BY <1>0, <1>1, <2>3, <2>4, <2>5
  <1>4. CASE SentOld
    <2>1. Edges(A, S, R, H)'
      BY <1>4 DEF Edges, SentOld
    <2>2. ASSUME NEW pdu, pdu.sn \in DOMAIN tx_window, pdu_list' = Append(pdu_list, pdu)
          PROVE  Agreed'
      <3> PICK s : s = pdu.sn
        OBVIOUS
      <3> PICK d : d = TxBase(s)
        OBVIOUS
      <3>1. s \in SN /\ vt_a = A % MOD /\ vt_a \in SN
        BY <2>2 DEF AmTypes, TxTypes, WindowTypes, Edges
      <3>2. d \in Nat /\ d < S - A
        <4>1. d \in 0..(MOD - 1)
          BY <3>1, ModBaseIsDistance DEF TxBase
        <4> QED
          BY <1>2, <2>2, <3>1, <4>1
      <3>3. s = (A + d) % MOD
        BY <1>0, <3>1, NumberAt DEF TxBase
      <3>4. A + d \in Nat /\ A + d < S /\ S <= A + d + RLC_AM_WINDOW_SIZE
        BY <1>0, <3>2, SnAssumption
      <3> QED
        BY <1>0, <1>1, <2>1, <2>2, <3>3, <3>4
    <2>3. CASE pdu_list' = pdu_list
      BY <1>0, <1>1, <2>1, <2>3
    <2> QED
      BY <1>4, <2>2, <2>3 DEF SentOld
  <1> QED
    BY <1>3, <1>4

\* The MAC hands over a data PDU, or loses one.
LEMMA AgreedDelivery ==
    ASSUME AmTypes, Deliver \/ Duplicate \/ Overtake \/ Lose,
           NEW A, NEW S, NEW R, NEW H, NEW U, NEW V, NEW K,
           Edges(A, S, R, H), Sent(U, V, S, H), Reported(K, A, S, R)
    PROVE  Agreed'
  <1> PICK P : pdu_list \in Seq(P)
    BY DEF AmTypes, TxTypes, PdusInFlight
  <1> PICK l : l = Len(pdu_list)
    OBVIOUS
  <1>0. /\ A \in Nat /\ S \in Nat /\ R \in Nat /\ H \in Nat /\ H <= S
        /\ status_list \in Seq(StatusPdu) /\ RxInv /\ l \in Nat
    BY LenProperties DEF Edges, AmTypes
  <1>1. /\ UNCHANGED <<vt_a, vt_s, status_list>>
        /\ pdu_list # << >> /\ l # 0
    <2>1. pdu_list # << >>
      BY <1>0 DEF Deliver, Duplicate, Overtake, Lose
    <2>2. l # 0
      BY <2>1, EmptySeq
    <2> QED
      BY <2>1, <2>2 DEF Deliver, Duplicate, Overtake, Lose, tx_own, tx_vars
  <1>2. /\ Head(pdu_list) = pdu_list[1] /\ 1 \in 1..l
        /\ \A n \in 1..l : /\ pdu_list[n].sn = U[n] % MOD
                           /\ U[n] \in Nat /\ U[n] < S /\ H <= U[n] + RLC_AM_WINDOW_SIZE
    <2>1. Head(pdu_list) = pdu_list[1] /\ 1 \in 1..l
      BY <1>0, <1>1, HeadTailProperties
    <2>2. \A n \in 1..l : /\ pdu_list[n].sn = U[n] % MOD
                          /\ U[n] \in Nat /\ V[n] \in Nat /\ U[n] < V[n] /\ V[n] <= S
                          /\ H <= U[n] + RLC_AM_WINDOW_SIZE
      BY DEF Sent
    <2>3. \A n \in 1..l : U[n] < S
      BY <1>0, <2>2
    <2> QED
      BY <2>1, <2>2, <2>3
  <1>3. ASSUME NEW r \in Nat, NEW h \in Nat, Edges(A, S, r, h)', R <= r,
               \E u, v : Sent(u, v, S, h)', tx_status' = tx_status
        PROVE  Agreed'
    <2>1. Reported(K, A, S, r)
      <3>1. S <= S /\ A <= A
        BY <1>0
      <3> QED
        BY <1>0, <1>3, <3>1, ReportedStays
    <2>2. Reported(K, A, S, r)'
      BY <1>1, <1>3, <2>1, ReportedSame
    <2> QED
      BY <1>3, <2>2 DEF Agreed
  <1>4. ASSUME NEW n \in 1..l, RxWritePdu(pdu_list[n]),
               \A h \in Nat : h = H \/ h = U[n] + 1 => \E u, v : Sent(u, v, S, h)'
        PROVE  Agreed'
    <2>1. PICK r \in Nat, h \in Nat :
            Edges(A, S, r, h)' /\ R <= r /\ H <= h /\ (h = H \/ h = U[n] + 1)
      <3>1. /\ pdu_list[n].sn = U[n] % MOD
            /\ U[n] \in Nat /\ U[n] < S /\ H <= U[n] + RLC_AM_WINDOW_SIZE
        BY <1>2
      <3> QED
        BY <1>0, <1>1, <1>4, <3>1, PduMovesCounts
    <2>2. tx_status' = tx_status
      BY <1>4 DEF RxWritePdu
    <2> QED
      BY <1>3, <1>4, <2>1, <2>2
  <1>5. CASE Deliver
    <2>1. pdu_list' = Tail(pdu_list) /\ overtaken' = FALSE /\ RxWritePdu(pdu_list[1])
      BY <1>2, <1>5 DEF Deliver
    <2>2. ASSUME NEW h \in Nat, h = H \/ h = U[1] + 1 PROVE \E u, v : Sent(u, v, S, h)'
      BY <1>0, <1>1, <2>1, <2>2, SentOneLess
    <2> QED
      BY <1>2, <1>4, <2>1, <2>2
  <1>6. CASE Duplicate
    <2>1. UNCHANGED <<pdu_list, overtaken>> /\ RxWritePdu(pdu_list[1])
      BY <1>2, <1>6 DEF Duplicate, tx_vars
    <2>2. ASSUME NEW h \in Nat, h = H \/ h = U[1] + 1 PROVE \E u, v : Sent(u, v, S, h)'
      <3>1. Sent(U, V, S, h)'
        BY <1>0, <1>1, <2>1, <2>2, SentSame
      <3> QED
        BY <3>1
    <2> QED
      BY <1>2, <1>4, <2>1, <2>2
  <1>7. CASE Overtake
    <2>1. /\ pdu_list' = RemoveAt(pdu_list, 2) /\ overtaken' = TRUE /\ RxWritePdu(pdu_list[2])
          /\ Len(pdu_list) > 1 /\ ~overtaken
          /\ \/ ModBase(pdu_list[2].sn, pdu_list[1].sn) < RLC_AM_WINDOW_SIZE
             \/ ModBase(pdu_list[1].sn, pdu_list[2].sn) < RLC_AM_WINDOW_SIZE
      BY <1>7 DEF Overtake
    <2>2. ASSUME NEW h \in Nat, h = H \/ h = U[2] + 1 PROVE \E u, v : Sent(u, v, S, h)'
      BY <1>0, <2>1, <2>2, SentSecondGone
    <2>3. 2 \in 1..l
      BY <1>0, <2>1
    <2> QED
      BY <1>4, <2>1, <2>2, <2>3
  <1>8. CASE Lose
    <2>1. pdu_list' = Tail(pdu_list) /\ overtaken' = FALSE /\ UNCHANGED <<vr_r, vr_h, tx_status>>
      BY <1>8 DEF Lose, rx_vars
    <2>2. \E u, v : Sent(u, v, S, H)'
      BY <1>0, <1>1, <2>1, SentOneLess
    <2>3. Edges(A, S, R, H)'
      BY <1>1, <2>1 DEF Edges
    <2> QED
      BY <1>0, <1>3, <2>1, <2>2, <2>3
  <1> QED
    BY <1>5, <1>6, <1>7, <1>8

\* A STATUS PDU is made, sent, handed over or lost.
LEMMA AgreedStatus ==
    ASSUME AmTypes, TxWindowContiguous, StatusInOrder,
           \/ \E room \in Rooms : GetStatus(room)
           \/ SendStatus \/ DeliverStatus \/ DuplicateStatus \/ LoseStatus,
           NEW A, NEW S, NEW R, NEW H, NEW U, NEW V, NEW K,
           Edges(A, S, R, H), Sent(U, V, S, H), Reported(K, A, S, R)
    PROVE  Agreed'
  <1>0. /\ A \in Nat /\ S \in Nat /\ R \in Nat /\ H \in Nat
        /\ status_list \in Seq(StatusPdu) /\ RxInv /\ WindowTypes
    BY DEF Edges, AmTypes, TxTypes
  <1>1. UNCHANGED <<vt_s, vr_r, vr_h, pdu_list, overtaken>>
    BY DEF GetStatus, GetStatusPdu, SendStatus, ResetStatus, DeliverStatus, DuplicateStatus,
           LoseStatus, HandleControlPdu, tx_vars, rx_vars
  <1>2. Sent(U, V, S, H)'
    BY <1>1 DEF Sent
  <1>3. ASSUME NEW a, NEW K1, Edges(a, S, R, H)', Reported(K1, a, S, R)' PROVE Agreed'
    BY <1>2, <1>3 DEF Agreed
  <1>4. ASSUME vt_a' = vt_a PROVE Edges(A, S, R, H)'
    BY <1>1, <1>4 DEF Edges
  <1>5. ASSUME NEW room \in Rooms, GetStatus(room) PROVE Agreed'
    <2>1. vt_a' = vt_a /\ tx_status' = StatusFor(room) /\ status_list' = status_list
      BY <1>5 DEF GetStatus, GetStatusPdu, tx_vars
    <2>2. room \in Nat
      BY RlcAmAssumption
    <2>3. Reports(tx_status', R, A, S, R)
      BY <1>0, <2>1, <2>2, StatusReports
    <2>4. Reported(K, A, S, R)'
      BY <1>0, <2>1, <2>3, ReportedNew
    <2> QED
      BY <1>3, <1>4, <2>1, <2>4
  <1>6. CASE SendStatus
    <2>1. /\ tx_status # none /\ status_list' = Append(status_list, tx_status) /\ tx_status' = none
          /\ vt_a' = vt_a
      BY <1>6 DEF SendStatus, ResetStatus, tx_vars
    <2>2. \E K1 : Reported(K1, A, S, R)'
      BY <1>0, <2>1, ReportedSent
    <2> QED
      BY <1>3, <1>4, <2>1, <2>2
  <1>7. CASE LoseStatus
    <2>1. /\ status_list # << >> /\ status_list' = Tail(status_list)
          /\ vt_a' = vt_a /\ tx_status' = tx_status
      BY <1>7 DEF LoseStatus, tx_vars, rx_vars
    <2>2. \E K1 : Reported(K1, A, S, R)'
      BY <1>0, <2>1, ReportedTaken
    <2> QED
      BY <1>3, <1>4, <2>1, <2>2
  <1>8. CASE DeliverStatus \/ DuplicateStatus
    <2>1. /\ status_list # << >> /\ HandleControlPdu(status_list[1]) /\ tx_status' = tx_status
          /\ status_list' = status_list \/ status_list' = RemoveAt(status_list, 1)
      <3>1. CASE DeliverStatus
        <4>1. PICK n \in 1..Len(status_list) :
                /\ n = 1 \/ "overtake status" \in Faults
                /\ HandleControlPdu(status_list[n])
                /\ status_list' = RemoveAt(status_list, n)
          BY <3>1 DEF DeliverStatus
        <4>2. status_list # << >>
          BY <1>0, EmptySeq
        <4>3. n = 1
          BY <4>1, Zenon DEF StatusInOrder
        <4> QED
          BY <3>1, <4>1, <4>2, <4>3 DEF DeliverStatus, rx_vars
      <3>2. CASE DuplicateStatus
        <4>0. status_list # << >>
          BY <3>2, Zenon DEF DuplicateStatus
        <4>1. Head(status_list) = status_list[1]
          BY <1>0, <4>0, HeadTailProperties
        <4> QED
          BY <3>2, <4>1 DEF DuplicateStatus, rx_vars
      <3> QED
        BY <1>8, <3>1, <3>2
    <2>2. 1 \in 1..Len(status_list) /\ status_list[1].ack_sn \in SN
      <3>1. 1 \in 1..Len(status_list)
        BY <1>0, <2>1, EmptySeq, LenProperties
      <3>2. status_list[1] \in StatusPdu
        BY <1>0, <3>1, ElementOfSeq
      <3> QED
        BY <3>1, <3>2 DEF StatusPdu
    <2>3. K[1] \in Nat /\ Reports(status_list[1], K[1], A, S, R)
      BY <2>2 DEF Reported
    <2>4. PICK a \in Nat : Edges(a, S, R, H)' /\ A <= a /\ a <= K[1]
      BY <1>0, <1>1, <2>1, <2>2, <2>3, StatusMovesCounts
    <2>5. Reported(K, a, S, R)
      <3>1. S <= S /\ R <= R /\ status_list # << >> /\ a <= K[1] /\ a \in Nat
        BY <1>0, <2>1, <2>4
      <3> QED
        BY <1>0, <3>1, ReportedStays
    <2>6. \E K1 : Reported(K1, a, S, R)'
      <3>1. CASE status_list' = status_list
        <4>1. Reported(K, a, S, R)'
          BY <2>1, <2>5, <3>1, ReportedSame
        <4> QED
          BY <4>1
      <3>2. CASE status_list' = RemoveAt(status_list, 1)
        BY <1>0, <2>1, <2>4, <2>5, <3>2, ReportedTaken
      <3> QED
        BY <2>1, <3>1, <3>2
    <2> QED
      BY <1>3, <2>4, <2>6
  <1> QED
    BY <1>5, <1>6, <1>7, <1>8

(* Every step keeps the counts. *)
LEMMA AgreedStep ==
    ASSUME AmTypes, TxWindowContiguous, WithinWindow', StatusInOrder,
           Agreed, [Next]_vars
    PROVE  Agreed'
  <1>1. PICK A, S, R, H, U, V, K : Edges(A, S, R, H) /\ Sent(U, V, S, H) /\ Reported(K, A, S, R)
    BY DEF Agreed
  <1>2. ASSUME NEW g \in Grants, Read(g) PROVE Agreed'
    <2>1. g \in Nat /\ WindowTypes
      BY RlcAmAssumption DEF AmTypes, TxTypes
    <2>2. SentNew \/ SentOld
      BY <1>2, <2>1, ReadPduSends DEF Read
    <2>3. UNCHANGED <<vr_r, vr_h, overtaken, status_list, tx_status>>
      BY <1>2 DEF Read, rx_vars
    <2> QED
      BY <1>1, <2>2, <2>3, AgreedSend
  <1>3. CASE Deliver \/ Duplicate \/ Overtake \/ Lose
    BY <1>1, <1>3, AgreedDelivery
  <1>4. CASE \/ \E room \in Rooms : GetStatus(room)
             \/ SendStatus \/ DeliverStatus \/ DuplicateStatus \/ LoseStatus
    BY <1>1, <1>4, AgreedStatus
  <1>5. CASE Write \/ PollExpires \/ PollCallback \/ Reordering \/ ProhibitExpires \/ UNCHANGED vars
    <2>1. UNCHANGED <<vt_a, vt_s, vr_r, vr_h, pdu_list, overtaken, status_list, tx_status>>
      BY <1>5 DEF Write, WriteSdu, PollExpires, PollRetxExpires, PollCallback, PollRetxCallback,
                  Reordering, ReorderingExpired, ProhibitExpires, StatusProhibitExpired,
                  vars, tx_vars, rx_vars
    <2>2. Edges(A, S, R, H)' /\ Sent(U, V, S, H)'
      BY <1>1, <2>1 DEF Edges, Sent
    <2>3. Reported(K, A, S, R)'
      BY <1>1, <2>1, ReportedSame
    <2> QED
      BY <2>2, <2>3 DEF Agreed
  <1> QED
    BY <1>2, <1>3, <1>4, <1>5 DEF Next

(* All counts are zero at the start. *)
LEMMA AgreedInit ==
    ASSUME Init
    PROVE  Agreed
  <1>1. /\ vt_a = 0 /\ vt_s = 0 /\ vr_r = 0 /\ vr_h = 0
        /\ pdu_list = << >> /\ status_list = << >> /\ tx_status = none
    BY DEF Init, TxInit, RxInit
  <1>2. 0 % MOD = 0
    BY SnAssumption
  <1>3. Edges(0, 0, 0, 0)
    BY <1>1, <1>2, SnAssumption DEF Edges
  <1>4. Len(pdu_list) = 0 /\ Len(status_list) = 0
    BY <1>1
  <1> PICK f : f = [n \in 1..0 |-> 0]
    OBVIOUS
  <1>5. Sent(f, f, 0, 0)
    BY <1>4 DEF Sent
  <1>6. Reported(f, 0, 0, 0)
    BY <1>1, <1>4 DEF Reported
  <1> QED
    BY <1>3, <1>5, <1>6 DEF Agreed

(* The hypothesis of a run, as the window's invariant uses it. *)
LEMMA WithinFits ==
    ASSUME AmTypes, WithinWindow
    PROVE  WindowFits
  <1>1. Cardinality(DOMAIN tx_window) \in Nat
    <2>1. DOMAIN tx_window \in SUBSET SN
      BY DEF AmTypes, TxTypes, WindowTypes
    <2> QED
      BY <2>1, FiniteSN
  <1> QED
    BY <1>1, SnAssumption DEF WithinWindow, WindowFits

(* The windows of the two entities agree, whatever the MAC loses, duplicates or lets
   overtake the oldest PDU, as long as STATUS PDUs stay in order and the transmit window
   is not overfilled: numbers are never taken for those of another lap of the circle. *)
THEOREM WindowsStayAgreed ==
    StatusInOrder => (Spec /\ []WithinWindow => []WindowsAgree)
  <1> SUFFICES ASSUME StatusInOrder
               PROVE  Spec /\ []WithinWindow => []WindowsAgree
    OBVIOUS
  <1>1. Init => Agreed
    BY AgreedInit
  <1>2. AmTypes /\ TxWindowContiguous /\ WithinWindow' /\ Agreed /\ [Next]_vars => Agreed'
    BY AgreedStep
  <1>3. AmTypes /\ WithinWindow => WindowFits
    BY WithinFits
  <1>4. Agreed => WindowsAgree
    BY EdgesAgree DEF Agreed
  <1> QED
    BY <1>1, <1>2, <1>3, <1>4, AmTypesHold, TxWindowCorrect, PTL DEF Spec

(* With SDUs of one byte nothing more has to be assumed. *)
THEOREM OneByteWindowsAgree ==
    SduLen = 1 /\ StatusInOrder =>
        (Spec => [](TxWindowContiguous /\ WindowsAgree))
  <1> SUFFICES ASSUME SduLen = 1, StatusInOrder
               PROVE  Spec => [](TxWindowContiguous /\ WindowsAgree)
    OBVIOUS
  <1>1. Spec => []WithinWindow
    BY OneByteWindow
  <1>2. Spec /\ []WithinWindow => []WindowsAgree
    BY WindowsStayAgreed
  <1>3. AmTypes /\ WithinWindow => WindowFits
    BY WithinFits
  <1> QED
    BY <1>1, <1>2, <1>3, AmTypesHold, TxWindowCorrect, PTL

-----------------------------------------------------------------------------
(* Reassembly *)

\* What reassembly has made of all the bytes before e.
Before(e) ==
    [sdu |-> [k \in 1..(e[2] - 1) |-> <<e[1], k>>],
     out |-> [i \in 1..(e[1] - 1) |-> SduBytes(i)]]

(* Reassembly, one byte further along the stream. *)
LEMMA TakeOneByte ==
    ASSUME NEW e \in SduByte
    PROVE  TakeByte(Before(e), e) = Before(Successor(e))
  <1> PICK i, k : e = <<i, k>> /\ i \in 1..MaxSdus /\ k \in 1..SduLen
    BY DEF SduByte
  <1> DEFINE Bytes(n, j) == [x \in 1..j |-> <<n, x>>]
             Sdus(n) == [x \in 1..n |-> SduBytes(x)]
  <1>1. e[1] = i /\ e[2] = k /\ SduLen \in Nat /\ i - 1 \in Nat /\ k - 1 \in Nat
    BY SduAssumption
  <1>2. /\ Append(Bytes(i, k - 1), <<i, k>>) = Bytes(i, k)
        /\ Append(Sdus(i - 1), SduBytes(i)) = Sdus(i)
        /\ Bytes(i + 1, 0) = << >>
    OBVIOUS
  <1>3. Bytes(i, SduLen) = SduBytes(i)
    BY DEF SduBytes
  <1>4. \A n \in Nat, j \in Nat :
           Before(<<n, j>>) = [sdu |-> Bytes(n, j - 1), out |-> Sdus(n - 1)]
    BY DEF Before
  <1> HIDE DEF Bytes, Sdus
  <1>5. Before(e) = [sdu |-> Bytes(i, k - 1), out |-> Sdus(i - 1)]
    BY <1>4
  <1>6. CASE k = SduLen
    <2>1. Successor(e) = <<i + 1, 1>> /\ (i + 1) - 1 = i /\ 1 - 1 = 0 /\ i + 1 \in Nat /\ 1 \in Nat
      BY <1>1, <1>6 DEF Successor
    <2>2. Before(Successor(e)) = [sdu |-> << >>, out |-> Sdus(i)]
      BY <1>2, <1>4, <2>1
    <2>3. Append(Bytes(i, k - 1), e) = SduBytes(i)
      BY <1>2, <1>3, <1>6
    <2>4. TakeByte(Before(e), e) = [sdu |-> << >>, out |-> Append(Sdus(i - 1), SduBytes(i))]
      <3> PICK acc : acc = Before(e)
        OBVIOUS
      <3>1. acc.sdu = Bytes(i, k - 1) /\ acc.out = Sdus(i - 1)
        BY <1>5
      <3>2. TakeByte(acc, e) = [sdu |-> << >>, out |-> Append(acc.out, Append(acc.sdu, e))]
        BY <1>1, <1>6 DEF TakeByte
      <3> QED
        BY <2>3, <3>1, <3>2
    <2> QED
      BY <1>2, <2>2, <2>4
  <1>7. CASE k # SduLen
    <2>1. Successor(e) = <<i, k + 1>> /\ (k + 1) - 1 = k /\ k + 1 \in Nat /\ i \in Nat
      BY <1>1, <1>7 DEF Successor
    <2>2. Before(Successor(e)) = [sdu |-> Bytes(i, k), out |-> Sdus(i - 1)]
      BY <1>4, <2>1
    <2>3. Append(Bytes(i, k - 1), e) = Bytes(i, k)
      BY <1>2
    <2>4. TakeByte(Before(e), e) = [sdu |-> Append(Bytes(i, k - 1), e), out |-> Sdus(i - 1)]
      <3>1. \A x, y : TakeByte([sdu |-> x, out |-> y], e) = [sdu |-> Append(x, e), out |-> y]
        BY <1>1, <1>7 DEF TakeByte
      <3> QED
        BY <1>5, <3>1
    <2> QED
      BY <2>2, <2>3, <2>4
  <1> QED
    BY <1>6, <1>7

(* A run that continues what was reassembled is reassembled (TakeByte). *)
LEMMA TakeRun ==
    ASSUME NEW d, Run(d)
    PROVE  FoldLeft(TakeByte, Before(d[1]), d) = Before(NextOf(d))
  <1> DEFINE A == [sdu : Seq(SduByte), out : Seq(Seq(SduByte))]
             step == [x \in A \X SduByte |-> TakeByte(x[1], x[2])]
             base == Before(d[1])
             Eq(g) == g = [s \in SUBSET (DOMAIN d) |->
                             IF s = {} THEN base
                             ELSE TakeByte(g[s \ {Max(s)}], d[Max(s)])]
             it == CHOOSE g : Eq(g)
  <1> PICK n : n = Len(d)
    OBVIOUS
  <1>0. n \in Nat \ {0} /\ d \in [1..n -> SduByte] /\ DOMAIN d = 1..n /\ d[1] \in SduByte
    BY EmptySeq, LenProperties, ElementOfSeq DEF Run
  <1>1. FoldLeft(TakeByte, base, d) = it[1..n]
    BY <1>0 DEF FoldLeft, MapThenFoldSet
  <1>2. \A acc \in A, b \in SduByte : TakeByte(acc, b) \in A
    <2> SUFFICES ASSUME NEW acc \in A, NEW b \in SduByte PROVE TakeByte(acc, b) \in A
      OBVIOUS
    <2>1. Append(acc.sdu, b) \in Seq(SduByte)
      BY AppendProperties
    <2>2. Append(acc.out, Append(acc.sdu, b)) \in Seq(Seq(SduByte))
      BY <2>1, AppendProperties
    <2>3. << >> \in Seq(SduByte)
      BY EmptySeq
    <2> QED
      BY <2>1, <2>2, <2>3 DEF TakeByte
  <1>3. step \in [A \X SduByte -> A]
    BY <1>2
  <1>4. base \in A
    <2> PICK i, k : d[1] = <<i, k>> /\ i \in 1..MaxSdus /\ k \in 1..SduLen
      BY <1>0 DEF SduByte
    <2>1. [j \in 1..(k - 1) |-> <<i, j>>] \in Seq(SduByte)
      BY SduAssumption DEF SduByte
    <2>2. \A j \in 1..(i - 1) : SduBytes(j) \in Seq(SduByte)
      BY SduBytesType, SduAssumption
    <2>3. [j \in 1..(i - 1) |-> SduBytes(j)] \in Seq(Seq(SduByte))
      BY <2>2
    <2> QED
      BY <2>1, <2>3 DEF Before
  <1> HIDE DEF A, base
  <1>5. Eq(it)
    <2>1. PICK g \in [SUBSET (1..n) -> A] : Folds(g, step, base, n, d)
      <3>1. n \in Nat /\ d \in [1..n -> SduByte]
        BY <1>0
      <3> HIDE DEF step
      <3> QED
        BY <3>1, <1>3, <1>4, FoldExists
    <2>2. ASSUME NEW s \in SUBSET (1..n), s # {}
          PROVE  step[<<g[s \ {Max(s)}], d[Max(s)]>>] = TakeByte(g[s \ {Max(s)}], d[Max(s)])
      <3>1. Max(s) \in 1..n /\ s \ {Max(s)} \in SUBSET (1..n)
        BY <1>0, <2>2, GreatestOf
      <3>2. g[s \ {Max(s)}] \in A /\ d[Max(s)] \in SduByte
        BY <1>0, <2>1, <3>1
      <3> QED
        BY <3>2
    <2>3. Eq(g)
      <3>1. g = [s \in SUBSET (1..n) |-> g[s]]
        OBVIOUS
      <3> HIDE DEF step
      <3> QED
        BY <1>0, <2>1, <2>2, <3>1 DEF Folds
    <2> HIDE DEF Eq
    <2> QED
      BY <2>3
  <1> HIDE DEF it
  <1>6. PICK f \in [0..n -> A] : Steps(f, it, step, base, n, d)
    <2>1. \A s \in SUBSET (1..n) : s # {} /\ it[s \ {Max(s)}] \in A =>
              it[s] = step[<<it[s \ {Max(s)}], d[Max(s)]>>]
      <3> SUFFICES ASSUME NEW s \in SUBSET (1..n), s # {}, it[s \ {Max(s)}] \in A
                   PROVE  it[s] = step[<<it[s \ {Max(s)}], d[Max(s)]>>]
        OBVIOUS
      <3>1. d[Max(s)] \in SduByte
        BY <1>0, GreatestOf
      <3>2. it[s] = TakeByte(it[s \ {Max(s)}], d[Max(s)])
        BY <1>0, <1>5
      <3> QED
        BY <3>1, <3>2
    <2>2. it[{}] = base
      BY <1>0, <1>5
    <2>3. n \in Nat /\ d \in [1..n -> SduByte]
      BY <1>0
    <2>4. FoldsIn(it, A, step, base, n, d)
      BY <2>1, <2>2 DEF FoldsIn
    <2> HIDE DEF step
    <2> QED
      BY <2>3, <1>3, <1>4, <2>4, FoldSteps
  <1>7. \A i \in 1..n : f[i] = TakeByte(f[i - 1], d[i])
    <2> TAKE i \in 1..n
    <2>1. i - 1 \in 0..n /\ d[i] \in SduByte
      BY <1>0
    <2>2. f[i - 1] \in A
      BY <2>1
    <2> QED
      BY <2>1, <2>2, <1>6 DEF Steps
  <1> HIDE DEF step
  <1>8. \A i \in 1..n : f[i] = Before(Successor(d[i]))
    <2> DEFINE T == {i \in 1..n : f[i] = Before(Successor(d[i]))}
    <2>1. 1 \in T
      <3>1. 1 \in 1..n /\ 1 - 1 = 0
        BY <1>0
      <3>2. f[1] = TakeByte(Before(d[1]), d[1])
        BY <1>6, <1>7, <3>1 DEF base, Steps
      <3> QED
        BY <1>0, <3>1, <3>2, TakeOneByte
    <2>2. ASSUME NEW i \in 1..(n - 1), i \in T PROVE i + 1 \in T
      <3>1. i + 1 \in 1..n /\ (i + 1) - 1 = i
        BY <1>0
      <3>2. d[i + 1] = Successor(d[i]) /\ d[i + 1] \in SduByte
        BY <1>0, <3>1 DEF Run
      <3>3. f[i + 1] = TakeByte(Before(d[i + 1]), d[i + 1])
        BY <1>7, <2>2, <3>1, <3>2
      <3> QED
        BY <3>1, <3>2, <3>3, TakeOneByte
    <2> HIDE DEF T
    <2>3. \A i \in 1..n : i \in T
      BY <1>0, <2>1, <2>2, UpTo
    <2> QED
      BY <2>3 DEF T
  <1>9. f[n] = Before(NextOf(d))
    BY <1>0, <1>8 DEF NextOf
  <1> QED
    BY <1>1, <1>6, <1>9 DEF base, Steps

-----------------------------------------------------------------------------
(* What the sender has of the stream *)

\* SDUs taken from the queue, and the byte that is sent next.
Taken == accepted - Len(tx_sdu_queue)
\* The first byte not yet sent.
NextToSend == IF tx_sdu # << >> THEN tx_sdu[1] ELSE <<Taken + 1, 1>>

(* The queue holds the last SDUs accepted, tx_sdu the rest of the one before. *)
SduStream ==
    /\ Taken \in Nat
    /\ \A i \in 1..Len(tx_sdu_queue) : tx_sdu_queue[i] = Taken + i
    /\ tx_sdu # << >> => /\ Run(tx_sdu) /\ tx_sdu[1][1] = Taken
                         /\ NextOf(tx_sdu) = <<Taken + 1, 1>>

(* The queue's SDUs by their numbers. *)
LEMMA QueueIs ==
    ASSUME TxTypes, SduStream, NEW l, l = Len(tx_sdu_queue)
    PROVE  /\ l \in Nat /\ accepted \in Nat /\ Taken \in Nat /\ Taken + l = accepted
           /\ \A i \in 1..l : tx_sdu_queue[i] = Taken + i /\ tx_sdu_queue[i] \in 1..MaxSdus
  <1>1. tx_sdu_queue \in Seq(1..MaxSdus) /\ accepted \in Nat
    BY TxAssumption DEF TxTypes
  <1>2. l \in Nat /\ \A i \in 1..l : tx_sdu_queue[i] \in 1..MaxSdus
    BY <1>1, LenProperties, ElementOfSeq
  <1>3. Taken \in Nat /\ \A i \in 1..l : tx_sdu_queue[i] = Taken + i
    BY DEF SduStream
  <1>4. Taken + l = accepted
    BY <1>1, <1>2 DEF Taken
  <1> QED
    BY <1>1, <1>2, <1>3, <1>4

(* SduStream is what the stream of a bearer is, and NextToSend its next byte. *)
LEMMA SduStreamIs ==
    ASSUME TxTypes, SduStream
    PROVE  /\ IsStream(tx_sdu, tx_sdu_queue, Taken)
           /\ NextToSend = NextByte(tx_sdu, Taken)
           /\ Taken + Len(tx_sdu_queue) = accepted
  <1>1. Taken + Len(tx_sdu_queue) = accepted
    BY QueueIs
  <1> QED
    BY <1>1 DEF TxTypes, SduStream, IsStream, NextToSend, NextByte

(* build_data_pdu takes a run off the bytes that wait, and leaves one. *)
LEMMA BytesTaken ==
    ASSUME TxTypes, SduStream, NEW n \in 1..Len(Waiting)
    PROVE  /\ Run(SubSeq(Waiting, 1, n)) /\ SubSeq(Waiting, 1, n)[1] = NextToSend
           /\ Len(SubSeq(Waiting, 1, n)) = n /\ SubSeq(Waiting, 1, n)[n] = Waiting[n]
           /\ NextOf(SubSeq(Waiting, 1, n)) = Successor(Waiting[n])
           /\ Waiting[n][1] \in 1..MaxSdus /\ Waiting[n][2] \in 1..SduLen
           /\ Taken <= Waiting[n][1] /\ Waiting[n][1] <= accepted
  <1>1. /\ IsStream(tx_sdu, tx_sdu_queue, Taken)
        /\ NextToSend = NextByte(tx_sdu, Taken) /\ Taken + Len(tx_sdu_queue) = accepted
    BY SduStreamIs
  <1> QED
    BY <1>1, PendingTaken DEF Waiting

(* build_data_pdu takes the first bytes that wait. *)
LEMMA TakeFromWaiting ==
    ASSUME TxTypes, SduStream, NEW id \in 1..MaxSdus, NEW k \in 1..SduLen,
           Taken <= id, id <= accepted,
           tx_sdu' = Rest(id, k), tx_sdu_queue' = LeftOf(tx_sdu_queue, id),
           accepted' = accepted
    PROVE  NextToSend' = Successor(<<id, k>>) /\ SduStream'
  <1> PICK left : left = tx_sdu_queue'
    OBVIOUS
  <1> PICK rest : rest = tx_sdu'
    OBVIOUS
  <1>1. /\ IsStream(rest, left, id) /\ id + Len(left) = accepted
        /\ NextByte(rest, id) = Successor(<<id, k>>)
    <2>1. IsStream(tx_sdu, tx_sdu_queue, Taken) /\ Taken + Len(tx_sdu_queue) = accepted
      BY SduStreamIs
    <2> QED
      BY <2>1, StreamLeft
  <1>2. accepted \in Nat /\ id \in Nat /\ Len(left) \in Nat
    BY <1>1, QueueIs, LenProperties DEF IsStream
  <1>3. Taken' = id
    BY <1>1, <1>2 DEF Taken
  <1>4. SduStream'
    BY <1>1, <1>2, <1>3 DEF SduStream, IsStream
  <1>5. NextToSend' = Successor(<<id, k>>)
    BY <1>1, <1>3 DEF NextToSend, NextByte
  <1> QED
    BY <1>4, <1>5

-----------------------------------------------------------------------------
(* What the two entities hold of the stream *)

\* The bytes that the transmitter keeps for the number s.
PduData(s) == tx_window[s].data

\* The first byte that the PDU with the number s carries, or will.
FirstOf(s) == IF s = vt_s THEN NextToSend ELSE PduData(s)[1]

\* The numbers sent and not yet taken by the receiver.
Awaited == {s \in SN : RxBase(s) < RxBase(vt_s)}

(* The PDUs of the transmit window carry the stream, one after the other. *)
WindowStream ==
    \A s \in DOMAIN tx_window : /\ Run(PduData(s))
                                /\ NextOf(PduData(s)) = FirstOf(Inc(s))

(* The receiver has reassembled all that comes before vr_r. *)
RxStream == [sdu |-> rx_sdu, out |-> delivered] = Before(FirstOf(vr_r))

\* x has the bytes of d from x.so on, and knows whether they are its last.
PartOf(x, d) ==
    /\ x.so \in Nat /\ x.data \in Seq(SduByte) /\ x.data # << >>
    /\ x.so + Len(x.data) <= Len(d)
    /\ \A k \in 1..Len(x.data) : x.data[k] = d[x.so + k]
    /\ x.lsf <=> x.so + Len(x.data) = Len(d)

\* A data PDU with a number of the window has that PDU's bytes.
Carries(pdu) ==
    pdu.sn \in DOMAIN tx_window =>
        IF pdu.rf THEN PartOf(pdu, PduData(pdu.sn)) ELSE pdu.data = PduData(pdu.sn)

\* Every PDU in flight carries its number's bytes.
InFlight == \A n \in 1..Len(pdu_list) : Carries(pdu_list[n])

(* So have the PDUs and the segments that the receiver holds. *)
Held ==
    /\ \A s \in DOMAIN rx_window : rx_window[s] = PduData(s)
    /\ \A s \in DOMAIN rx_segments : \A x \in rx_segments[s] :
          s \in Awaited /\ PartOf(x, PduData(s))

\* PDUs that can be sent before the number s is used again.
Ahead(s) == ModBase(s, vt_s)

(* An entry of the retransmission queue whose number is in the window is about the
   PDU that has the number now: entries that an acknowledgement has overtaken are
   gone before their number comes round again, for what is queued after them is at
   most a window older than they are. *)
QueueOk(q) ==
    /\ \A i, j \in 1..Len(q) :
          i < j => Ahead(q[i].sn) < Ahead(q[j].sn) + RLC_AM_WINDOW_SIZE
    /\ \A i \in 1..Len(q) :
          q[i].sn \in DOMAIN tx_window =>
              q[i].so_start < q[i].so_end /\ q[i].so_end = Len(PduData(q[i].sn))

\* The inductive invariant of the data.
DataInv ==
    /\ SduStream /\ WindowStream /\ RxStream
    /\ InFlight /\ Held /\ QueueOk(retx_queue)

-----------------------------------------------------------------------------
(* What the agreement of the windows says of single numbers *)

\* Each number of the window is followed by one of it or by vt_s.
OneAfterTheOther ==
    /\ vt_s \in SN /\ DOMAIN tx_window \subseteq SN /\ vt_s \notin DOMAIN tx_window
    /\ \A s \in DOMAIN tx_window : Inc(s) \in DOMAIN tx_window \cup {vt_s}

\* What the counts say of single sequence numbers.
Numbers ==
    /\ OneAfterTheOther
    /\ Awaited \subseteq DOMAIN tx_window
    /\ RxBase(vr_h) <= RxBase(vt_s)
    /\ RxBase(vt_s) <= TxBase(vt_s) /\ TxBase(vt_s) <= RLC_AM_WINDOW_SIZE
    /\ vr_r = vt_s \/ vr_r \in DOMAIN tx_window
    /\ \A n \in 1..Len(pdu_list) :
          RxBase(pdu_list[n].sn) < RLC_AM_WINDOW_SIZE => pdu_list[n].sn \in Awaited
    /\ TxBase(vt_s) < RLC_AM_WINDOW_SIZE =>
          \A n \in 1..Len(pdu_list) : pdu_list[n].sn # vt_s

(* A contiguous window holds the successors of its numbers. *)
LEMMA WindowNumbers ==
    ASSUME AmTypes, TxWindowContiguous
    PROVE  OneAfterTheOther
  <1>1. vt_a \in SN /\ vt_s \in SN /\ DOMAIN tx_window \subseteq SN
    BY DEF AmTypes, TxTypes, WindowTypes
  <1>2. \A s \in SN : TxBase(s) \in 0..(MOD - 1)
    BY <1>1, ModBaseIsDistance DEF TxBase
  <1>3. vt_s \notin DOMAIN tx_window
    BY <1>1, <1>2 DEF TxWindowContiguous
  <1>4. ASSUME NEW s \in DOMAIN tx_window PROVE Inc(s) \in DOMAIN tx_window \cup {vt_s}
    <2>1. s \in SN /\ TxBase(s) < TxBase(vt_s) /\ TxBase(s) \in 0..(MOD - 1)
          /\ TxBase(vt_s) \in 0..(MOD - 1)
      BY <1>1, <1>2 DEF TxWindowContiguous
    <2>2. TxBase(s) < MOD - 1
      BY <2>1, SnAssumption
    <2>3. Inc(s) \in SN /\ TxBase(Inc(s)) = TxBase(s) + 1
      BY <1>1, <2>1, <2>2, ModBaseInc, IncIsStep DEF TxBase
    <2>4. CASE TxBase(Inc(s)) < TxBase(vt_s)
      BY <2>3, <2>4 DEF TxWindowContiguous
    <2>5. CASE TxBase(Inc(s)) = TxBase(vt_s)
      <3>1. ModBase(Inc(s), vt_s) = 0
        <4>1. /\ ModBase(Inc(s), vt_a) = ModBase(vt_s, vt_a)
              /\ ModBase(vt_s, vt_a) \in 0..(MOD - 1)
          BY <1>1, <2>5, ModBaseIsDistance DEF TxBase
        <4>2. ModBase(Inc(s), vt_s) = ModBase(Inc(s), vt_a) - ModBase(vt_s, vt_a)
          BY <1>1, <2>3, <4>1, ModBaseShift
        <4> QED
          BY <4>1, <4>2
      <3> QED
        BY <1>1, <2>3, <3>1, ModBaseZero
    <2> QED
      BY <2>1, <2>3, <2>4, <2>5
  <1> QED
    BY <1>1, <1>3, <1>4 DEF OneAfterTheOther

(* The counts say all this of single numbers. *)
LEMMA AgreedNumbers ==
    ASSUME AmTypes, TxWindowContiguous, Agreed
    PROVE  Numbers
  <1>1. PICK A, S, R, H, U, V, K : Edges(A, S, R, H) /\ Sent(U, V, S, H)
    BY DEF Agreed
  <1>2. /\ A \in Nat /\ S \in Nat /\ R \in Nat /\ H \in Nat
        /\ A <= R /\ R <= H /\ H <= S /\ S <= A + RLC_AM_WINDOW_SIZE
        /\ RLC_AM_WINDOW_SIZE \in Nat \ {0} /\ MOD \in Nat /\ 2 * RLC_AM_WINDOW_SIZE <= MOD
    BY <1>1, SnAssumption DEF Edges
  <1>m. vt_s = S % MOD /\ vr_r = R % MOD /\ vr_h = H % MOD
    BY <1>1 DEF Edges
  <1>3. /\ \A X \in Nat : A <= X /\ X < A + MOD => TxBase(X % MOD) = X - A
        /\ \A X \in Nat : R <= X /\ X < R + MOD => RxBase(X % MOD) = X - R
        /\ \A X \in Nat : X < R /\ R <= X + MOD => RxBase(X % MOD) = X - R + MOD
        /\ \A X \in Nat : X % MOD \in SN
    BY <1>1, FromEdges
  <1>4. RxBase(vt_s) = S - R /\ RxBase(vr_h) = H - R /\ TxBase(vt_s) = S - A
    <2>1. S < R + MOD /\ H < R + MOD /\ S < A + MOD
      BY <1>2
    <2>2. A <= S /\ R <= S
      BY <1>2
    <2> QED
      BY <1>2, <1>m, <1>3, <2>1, <2>2
  <1>5. \A s \in SN : RxBase(s) \in Nat /\ s = (R + RxBase(s)) % MOD
    <2> TAKE s \in SN
    <2>1. vr_r \in SN
      BY <1>2, <1>m, <1>3
    <2>2. ModBase(s, vr_r) \in Nat
      BY <2>1, ModBaseIsDistance
    <2>3. s = (R + ModBase(s, R % MOD)) % MOD
      BY <1>2, NumberAt
    <2> QED
      BY <1>m, <2>2, <2>3 DEF RxBase
  <1>6. Awaited \subseteq DOMAIN tx_window
    <2> SUFFICES ASSUME NEW s \in SN, RxBase(s) < S - R PROVE s \in DOMAIN tx_window
      BY <1>4 DEF Awaited
    <2> PICK X : X = R + RxBase(s)
      OBVIOUS
    <2>0. s = X % MOD /\ RxBase(s) \in Nat
      BY <1>5
    <2>1. X \in Nat /\ A <= X /\ X < A + MOD /\ X < S
      BY <1>2, <2>0
    <2>2. TxBase(s) = X - A
      BY <1>3, <2>0, <2>1
    <2>3. TxBase(s) < TxBase(vt_s)
      BY <1>2, <1>4, <2>1, <2>2
    <2> QED
      BY <2>3 DEF TxWindowContiguous
  <1>7. vr_r = vt_s \/ vr_r \in DOMAIN tx_window
    <2>1. CASE R = S
      BY <1>m, <2>1
    <2>2. CASE R # S
      <3>0. R < S
        BY <1>2, <2>2
      <3>1. R < S /\ vr_r \in SN
        BY <1>2, <1>m, <1>3, <3>0
      <3>2. RxBase(vr_r) = 0
        BY <3>1, ModBaseZero DEF RxBase
      <3>3. vr_r \in Awaited
        BY <1>2, <1>4, <3>1, <3>2 DEF Awaited
      <3> QED
        BY <1>6, <3>3
    <2> QED
      BY <2>1, <2>2
  <1>8. ASSUME NEW n \in 1..Len(pdu_list)
        PROVE  \E X \in Nat : /\ pdu_list[n].sn = X % MOD /\ X < S
                              /\ H <= X + RLC_AM_WINDOW_SIZE
    <2>1. /\ U[n] \in Nat /\ V[n] \in Nat /\ U[n] < V[n] /\ V[n] <= S
          /\ H <= U[n] + RLC_AM_WINDOW_SIZE /\ pdu_list[n].sn = U[n] % MOD
      BY <1>1 DEF Sent
    <2>2. U[n] < S
      <3> PICK u, v : u = U[n] /\ v = V[n]
        OBVIOUS
      <3> QED
        BY <1>2, <2>1
    <2> QED
      BY <2>1, <2>2
  <1>9. ASSUME NEW n \in 1..Len(pdu_list), RxBase(pdu_list[n].sn) < RLC_AM_WINDOW_SIZE
        PROVE  pdu_list[n].sn \in Awaited
    <2>1. PICK X \in Nat : pdu_list[n].sn = X % MOD /\ X < S /\ H <= X + RLC_AM_WINDOW_SIZE
      BY <1>8
    <2>2. R <= X
      <3> SUFFICES ASSUME X < R PROVE FALSE
        BY <1>2
      <3>1. R <= X + MOD /\ ~(X - R + MOD < RLC_AM_WINDOW_SIZE)
        <4>1. X < S /\ H <= X + RLC_AM_WINDOW_SIZE
          BY <2>1
        <4> QED
          BY <1>2, <4>1
      <3>2. RxBase(X % MOD) = X - R + MOD
        BY <1>3, <3>1
      <3> QED
        BY <1>9, <2>1, <3>1, <3>2
    <2>3. RxBase(X % MOD) = X - R /\ X % MOD \in SN
      <3>1. X < R + MOD
        <4>1. X < S
          BY <2>1
        <4> QED
          BY <1>2, <4>1
      <3> QED
        BY <1>3, <2>2, <3>1
    <2>4. X - R < S - R
      <3>1. X < S
        BY <2>1
      <3> QED
        BY <1>2, <3>1
    <2>5. RxBase(pdu_list[n].sn) < RxBase(vt_s) /\ pdu_list[n].sn \in SN
      BY <1>4, <2>1, <2>3, <2>4
    <2> QED
      BY <2>5 DEF Awaited
  <1>10. ASSUME TxBase(vt_s) < RLC_AM_WINDOW_SIZE, NEW n \in 1..Len(pdu_list)
         PROVE  pdu_list[n].sn # vt_s
    <2>1. PICK X \in Nat : pdu_list[n].sn = X % MOD /\ X < S /\ H <= X + RLC_AM_WINDOW_SIZE
      BY <1>8
    <2>2. X <= S /\ S < X + MOD /\ S - X \in 1..(MOD - 1)
      <3>1. S - A < RLC_AM_WINDOW_SIZE
        BY <1>4, <1>10
      <3>2. X < S /\ H <= X + RLC_AM_WINDOW_SIZE
        BY <2>1
      <3> QED
        BY <1>2, <3>1, <3>2
    <2>3. ModBase(S % MOD, X % MOD) = S - X
      BY <1>2, <2>2, DistanceUp
    <2>4. ModBase(S % MOD, X % MOD) # 0
      BY <2>2, <2>3
    <2>5. S % MOD \in SN /\ X % MOD \in SN
      BY <1>2, <1>3
    <2>6. S % MOD # X % MOD
      BY <2>4, <2>5, ModBaseZero
    <2> QED
      BY <1>m, <2>1, <2>6
  <1>11. /\ RxBase(vr_h) <= RxBase(vt_s) /\ RxBase(vt_s) <= TxBase(vt_s)
         /\ TxBase(vt_s) <= RLC_AM_WINDOW_SIZE
    BY <1>2, <1>4
  <1> QED
    BY <1>6, <1>7, <1>9, <1>10, <1>11, WindowNumbers DEF Numbers

(* What the receiver holds is awaited. *)
LEMMA HeldIsAwaited ==
    ASSUME AmTypes, Numbers
    PROVE  DOMAIN rx_window \subseteq Awaited
  <1> SUFFICES ASSUME NEW s \in DOMAIN rx_window PROVE s \in Awaited
    OBVIOUS
  <1>1. /\ s \in SN /\ RxBase(s) < RxBase(vr_h) /\ vr_r \in SN /\ vr_h \in SN /\ vt_s \in SN
    BY DEF AmTypes, TxTypes, WindowTypes, RxInv, RxTypeOK, RxWindowInv
  <1>2. RxBase(s) \in Nat /\ RxBase(vr_h) \in Nat /\ RxBase(vt_s) \in Nat
    BY <1>1, ModBaseIsDistance DEF RxBase
  <1>3. RxBase(vr_h) <= RxBase(vt_s)
    BY DEF Numbers
  <1> QED
    BY <1>1, <1>2, <1>3 DEF Awaited

-----------------------------------------------------------------------------
(* What is left alone *)

(* The window may shrink, and what is left of it stays as it was. *)
LEMMA StreamKept ==
    ASSUME WindowStream, OneAfterTheOther', vt_s' = vt_s, NextToSend' = NextToSend,
           \A s \in DOMAIN tx_window' :
               s \in DOMAIN tx_window /\ tx_window'[s].data = tx_window[s].data
    PROVE  /\ WindowStream'
           /\ \A pdu : Carries(pdu) => Carries(pdu)'
           /\ \A q : QueueOk(q) => QueueOk(q)'
           /\ \A s \in DOMAIN tx_window' \cup {vt_s} : FirstOf(s)' = FirstOf(s)
  <1>1. \A s \in DOMAIN tx_window' : s \in DOMAIN tx_window /\ PduData(s)' = PduData(s)
    BY DEF PduData
  <1>2. \A s \in DOMAIN tx_window' \cup {vt_s} : FirstOf(s)' = FirstOf(s)
    BY <1>1 DEF FirstOf
  <1>3. WindowStream'
    <2> SUFFICES ASSUME NEW s \in DOMAIN tx_window'
                 PROVE  Run(PduData(s)') /\ NextOf(PduData(s)') = FirstOf(Inc(s))'
      BY DEF WindowStream
    <2> PICK t : t = Inc(s)
      OBVIOUS
    <2>1. s \in DOMAIN tx_window /\ PduData(s)' = PduData(s)
      BY <1>1
    <2>2. Run(PduData(s)) /\ NextOf(PduData(s)) = FirstOf(t)
      BY <2>1 DEF WindowStream
    <2>3. t \in DOMAIN tx_window' \cup {vt_s}
      BY DEF OneAfterTheOther
    <2>4. FirstOf(t)' = FirstOf(t)
      BY <1>2, <2>3
    <2> QED
      BY <2>1, <2>2, <2>4
  <1>4. ASSUME NEW pdu, Carries(pdu) PROVE Carries(pdu)'
    BY <1>1, <1>4 DEF Carries
  <1>5. ASSUME NEW q, QueueOk(q) PROVE QueueOk(q)'
    <2>1. \A s : Ahead(s)' = Ahead(s)
      BY DEF Ahead
    <2> QED
      BY <1>1, <1>5, <2>1 DEF QueueOk
  <1> QED
    BY <1>2, <1>3, <1>4, <1>5

(* The receiver does nothing. *)
LEMMA ReceiverKept ==
    ASSUME AmTypes, Numbers, Numbers', WindowStream, RxStream, Held,
           vt_s' = vt_s, NextToSend' = NextToSend,
           \A s \in DOMAIN tx_window' :
               s \in DOMAIN tx_window /\ tx_window'[s].data = tx_window[s].data,
           UNCHANGED <<vr_r, rx_window, rx_segments, rx_sdu, delivered>>
    PROVE  RxStream' /\ Held'
  <1>1. Awaited' = Awaited
    BY DEF Awaited, RxBase
  <1>2. \A s \in Awaited : s \in DOMAIN tx_window' /\ PduData(s)' = PduData(s)
    BY <1>1 DEF Numbers, PduData
  <1>3. Held'
    <2>1. \A s \in DOMAIN rx_window : s \in Awaited
      BY HeldIsAwaited
    <2> QED
      BY <1>1, <1>2, <2>1 DEF Held
  <1>4. RxStream'
    <2>1. vr_r \in DOMAIN tx_window' \cup {vt_s}
      BY DEF Numbers
    <2>2. FirstOf(vr_r)' = FirstOf(vr_r)
      BY <2>1 DEF FirstOf, PduData
    <2> QED
      BY <2>2 DEF RxStream
  <1> QED
    BY <1>3, <1>4

-----------------------------------------------------------------------------
(* A new PDU *)

(* Each new number sent brings the others one nearer to vt_s. *)
LEMMA AheadStep ==
    ASSUME NEW s \in SN, NEW v \in SN, s # v
    PROVE  ModBase(s, Inc(v)) = ModBase(s, v) - 1 /\ ModBase(s, v) \in 1..(MOD - 1)
  <1>1. Inc(v) \in SN /\ ModBase(v, v) = 0 /\ ModBase(s, v) # 0 /\ ModBase(s, v) \in 0..(MOD - 1)
    BY IncIsStep, ModBaseZero, ModBaseIsDistance
  <1>2. ModBase(Inc(v), v) = 1
    <2>1. ModBase(v, v) < MOD - 1
      BY <1>1, SnAssumption
    <2> QED
      BY <1>1, <2>1, ModBaseInc
  <1>3. ModBase(s, Inc(v)) = IF ModBase(s, v) >= 1 THEN ModBase(s, v) - 1 ELSE ModBase(s, v) - 1 + MOD
    BY <1>1, <1>2, ModBaseShift
  <1> QED
    BY <1>1, <1>3

LEMMA WithinAWindow ==
    ASSUME NEW a, NEW b, NEW t, NEW m \in Nat, NEW w \in Nat,
           a \in 0..(m - 1), b \in 0..(m - 1), t \in 0..w, b >= m - t
    PROVE  a < b + w
  OBVIOUS

(* Numbers of the window are far from coming round again. *)
LEMMA LiveIsFar ==
    ASSUME AmTypes, TxWindowContiguous, NEW s \in DOMAIN tx_window
    PROVE  Ahead(s) >= MOD - TxBase(vt_s) /\ Ahead(s) \in 0..(MOD - 1)
  <1>1. s \in SN /\ vt_a \in SN /\ vt_s \in SN
    BY DEF AmTypes, TxTypes, WindowTypes
  <1>2. TxBase(s) < TxBase(vt_s)
    BY DEF TxWindowContiguous
  <1>3. /\ ModBase(s, vt_s) = IF ModBase(s, vt_a) >= ModBase(vt_s, vt_a)
                              THEN ModBase(s, vt_a) - ModBase(vt_s, vt_a)
                              ELSE ModBase(s, vt_a) - ModBase(vt_s, vt_a) + MOD
        /\ ModBase(s, vt_s) \in 0..(MOD - 1)
        /\ ModBase(s, vt_a) \in 0..(MOD - 1) /\ ModBase(vt_s, vt_a) \in 0..(MOD - 1)
    BY <1>1, ModBaseShift, ModBaseIsDistance
  <1> QED
    BY <1>2, <1>3, SnAssumption DEF Ahead, TxBase

(* The queue stays in order when a new number is sent. *)
LEMMA QueueAfterNew ==
    ASSUME AmTypes, TxWindowContiguous, OneAfterTheOther, TxBase(vt_s) < RLC_AM_WINDOW_SIZE,
           NEW q \in Seq(Retx), QueueOk(q), q # << >> => q[1].sn \in DOMAIN tx_window,
           vt_s' = Inc(vt_s), DOMAIN tx_window' = DOMAIN tx_window \cup {vt_s},
           \A s \in DOMAIN tx_window : PduData(s)' = PduData(s)
    PROVE  QueueOk(q)'
  <1>1. /\ vt_s \in SN /\ TxBase(vt_s) \in 0..(MOD - 1) /\ vt_s \notin DOMAIN tx_window
        /\ Len(q) \in Nat /\ \A i \in 1..Len(q) : q[i].sn \in SN
    <2>1. vt_s \in SN /\ vt_a \in SN
      BY DEF AmTypes, TxTypes, WindowTypes
    <2>2. TxBase(vt_s) \in 0..(MOD - 1)
      BY <2>1, ModBaseIsDistance DEF TxBase
    <2>3. \A i \in 1..Len(q) : q[i] \in Retx
      BY ElementOfSeq
    <2>4. \A x \in Retx : x.sn \in SN
      BY DEF Retx
    <2> QED
      BY <2>1, <2>2, <2>3, <2>4, LenProperties DEF OneAfterTheOther
  <1>2. \A i \in 1..Len(q) : Ahead(q[i].sn) \in 0..(MOD - 1)
    BY <1>1, ModBaseIsDistance DEF Ahead
  <1>3. \A i \in 1..Len(q) : q[i].sn # vt_s
    <2> TAKE i \in 1..Len(q)
    <2>1. q # << >> /\ 1 \in 1..Len(q) /\ q[1].sn \in DOMAIN tx_window
      BY <1>1, EmptySeq
    <2>2. CASE i = 1
      BY <1>1, <2>1, <2>2
    <2>3. CASE i # 1
      <3>1. Ahead(q[1].sn) >= MOD - TxBase(vt_s)
        BY <2>1, LiveIsFar
      <3>2. Ahead(q[1].sn) < Ahead(q[i].sn) + RLC_AM_WINDOW_SIZE
        <4>1. 1 < i
          BY <1>1, <2>3
        <4> QED
          BY <2>1, <4>1 DEF QueueOk
      <3>3. Ahead(q[i].sn) # 0
        <4> PICK a, b, t : a = Ahead(q[1].sn) /\ b = Ahead(q[i].sn) /\ t = TxBase(vt_s)
          OBVIOUS
        <4>1. a \in 0..(MOD - 1) /\ b \in 0..(MOD - 1) /\ t \in 0..(MOD - 1)
              /\ a >= MOD - t /\ a < b + RLC_AM_WINDOW_SIZE /\ t < RLC_AM_WINDOW_SIZE
          BY <1>1, <1>2, <2>1, <3>1, <3>2
        <4>2. b # 0
          BY <4>1, SnAssumption
        <4> QED
          BY <4>2
      <3> QED
        BY <1>1, <3>3, ModBaseZero DEF Ahead
    <2> QED
      BY <2>2, <2>3
  <1>4. \A i \in 1..Len(q) : Ahead(q[i].sn)' = Ahead(q[i].sn) - 1
    <2> TAKE i \in 1..Len(q)
    <2> PICK s : s = q[i].sn
      OBVIOUS
    <2>1. s \in SN /\ s # vt_s
      BY <1>1, <1>3
    <2>2. ModBase(s, vt_s') = ModBase(s, vt_s) - 1
      BY <1>1, <2>1, AheadStep
    <2> QED
      BY <2>2 DEF Ahead
  <1>5. \A i, j \in 1..Len(q) : i < j => Ahead(q[i].sn)' < Ahead(q[j].sn)' + RLC_AM_WINDOW_SIZE
    <2> SUFFICES ASSUME NEW i \in 1..Len(q), NEW j \in 1..Len(q), i < j
                 PROVE  Ahead(q[i].sn)' < Ahead(q[j].sn)' + RLC_AM_WINDOW_SIZE
      OBVIOUS
    <2>1. Ahead(q[i].sn) < Ahead(q[j].sn) + RLC_AM_WINDOW_SIZE
      BY DEF QueueOk
    <2> PICK a, b : a = Ahead(q[i].sn) /\ b = Ahead(q[j].sn)
      OBVIOUS
    <2>2. a \in 0..(MOD - 1) /\ b \in 0..(MOD - 1) /\ a < b + RLC_AM_WINDOW_SIZE
      BY <1>2, <2>1
    <2>3. a - 1 < (b - 1) + RLC_AM_WINDOW_SIZE
      BY <2>2, SnAssumption
    <2>4. Ahead(q[i].sn)' = a - 1 /\ Ahead(q[j].sn)' = b - 1
      BY <1>4
    <2> QED
      BY <2>3, <2>4
  <1>6. \A i \in 1..Len(q) : q[i].sn \in DOMAIN tx_window' =>
            q[i].so_start < q[i].so_end /\ q[i].so_end = Len(PduData(q[i].sn)')
    <2> TAKE i \in 1..Len(q)
    <2> HAVE q[i].sn \in DOMAIN tx_window'
    <2>1. q[i].sn \in DOMAIN tx_window
      BY <1>3
    <2> QED
      BY <2>1 DEF QueueOk
  <1> QED
    BY <1>5, <1>6 DEF QueueOk

(* build_data_pdu: the next bytes of the stream are sent under the next number. *)
LEMMA NewPduStream ==
    ASSUME AmTypes, TxWindowContiguous, TxWindowContiguous', Numbers, Numbers', DataInv,
           NEW n \in 1..Len(Waiting), NEW poll, NEW data, data = SubSeq(Waiting, 1, n),
           tx_sdu' = Rest(data[n][1], data[n][2]),
           tx_sdu_queue' = LeftOf(tx_sdu_queue, data[n][1]),
           accepted' = accepted, vt_a' = vt_a, vt_s' = Inc(vt_s),
           tx_window' = [s \in DOMAIN tx_window \cup {vt_s} |->
                             IF s = vt_s THEN [data |-> data, retx_count |-> 0]
                             ELSE tx_window[s]],
           pdu_list' = Append(pdu_list, [sn |-> vt_s, p |-> poll, rf |-> FALSE,
                                         so |-> 0, lsf |-> FALSE, data |-> data]),
           retx_queue' \in Seq(Retx), QueueOk(retx_queue'),
           retx_queue' # << >> => retx_queue'[1].sn \in DOMAIN tx_window,
           UNCHANGED rx_vars
    PROVE  DataInv'
  <1> PICK id, k : id = data[n][1] /\ k = data[n][2]
    OBVIOUS
  <1> PICK v, w : v = vt_s /\ w = Inc(vt_s)
    OBVIOUS
  <1>0. TxTypes /\ SduStream /\ WindowStream /\ RxStream /\ InFlight /\ Held /\ OneAfterTheOther
        /\ OneAfterTheOther'
    BY DEF AmTypes, DataInv, Numbers
  <1>1. /\ Run(data) /\ data[1] = NextToSend /\ data[n] = Waiting[n]
        /\ NextOf(data) = Successor(data[n])
        /\ id \in 1..MaxSdus /\ k \in 1..SduLen /\ Taken <= id /\ id <= accepted
    BY <1>0, BytesTaken
  <1>2. NextToSend' = NextOf(data) /\ SduStream'
    <2>1. tx_sdu' = Rest(id, k) /\ tx_sdu_queue' = LeftOf(tx_sdu_queue, id)
      OBVIOUS
    <2>2. NextToSend' = Successor(<<id, k>>) /\ SduStream'
      BY <1>0, <1>1, <2>1, TakeFromWaiting
    <2>3. Successor(<<id, k>>) = Successor(data[n])
      BY DEF Successor
    <2> QED
      BY <1>1, <2>2, <2>3
  <1>3. /\ DOMAIN tx_window' = DOMAIN tx_window \cup {vt_s}
        /\ PduData(v)' = data /\ \A s \in DOMAIN tx_window : PduData(s)' = PduData(s)
    <2>1. DOMAIN tx_window' = DOMAIN tx_window \cup {v}
      OBVIOUS
    <2>2. tx_window'[v] = [data |-> data, retx_count |-> 0]
      OBVIOUS
    <2>3. \A s \in DOMAIN tx_window : tx_window'[s] = tx_window[s]
      BY <1>0 DEF OneAfterTheOther
    <2> QED
      BY <2>1, <2>2, <2>3 DEF PduData
  <1>4. /\ vt_s \notin DOMAIN tx_window
        /\ vt_s' \notin DOMAIN tx_window /\ vt_s' # vt_s
    BY <1>0, <1>3 DEF OneAfterTheOther
  <1>5. /\ \A s \in DOMAIN tx_window \cup {vt_s} : FirstOf(s)' = FirstOf(s)
        /\ FirstOf(w)' = NextOf(data)
    <2>1. FirstOf(w)' = NextOf(data)
      BY <1>2 DEF FirstOf
    <2>2. FirstOf(v)' = FirstOf(v)
      BY <1>1, <1>3, <1>4 DEF FirstOf
    <2>3. \A s \in DOMAIN tx_window : FirstOf(s)' = FirstOf(s)
      BY <1>3, <1>4 DEF FirstOf
    <2> QED
      BY <2>1, <2>2, <2>3
  <1>6. WindowStream'
    <2> SUFFICES ASSUME NEW s \in DOMAIN tx_window'
                 PROVE  Run(PduData(s)') /\ NextOf(PduData(s)') = FirstOf(Inc(s))'
      BY DEF WindowStream
    <2>1. CASE s = v
      BY <1>1, <1>3, <1>5, <2>1
    <2>2. CASE s # v
      <3> PICK t : t = Inc(s)
        OBVIOUS
      <3>1. s \in DOMAIN tx_window /\ t \in DOMAIN tx_window \cup {vt_s}
        BY <1>0, <1>3, <2>2 DEF OneAfterTheOther
      <3>2. Run(PduData(s)) /\ NextOf(PduData(s)) = FirstOf(t)
        BY <1>0, <3>1 DEF WindowStream
      <3>3. FirstOf(t)' = FirstOf(t) /\ PduData(s)' = PduData(s)
        BY <1>3, <1>5, <3>1
      <3> QED
        BY <3>2, <3>3
    <2> QED
      BY <2>1, <2>2
  <1>7. UNCHANGED <<vr_r, rx_window, rx_segments, rx_sdu, delivered>>
    BY DEF rx_vars
  <1>8. RxStream'
    <2>1. vr_r \in DOMAIN tx_window \cup {vt_s}
      BY DEF Numbers
    <2> QED
      BY <1>0, <1>5, <1>7, <2>1 DEF RxStream
  <1>9. TxBase(vt_s) < RLC_AM_WINDOW_SIZE
    <2> PICK x, y : x = vt_s /\ y = vt_s'
      OBVIOUS
    <2>0. vt_a \in SN /\ x \in SN /\ y \in SN
      BY <1>0 DEF OneAfterTheOther, TxTypes, WindowTypes
    <2>1. TxBase(x)' < TxBase(y)'
      BY <1>3 DEF TxWindowContiguous
    <2>2. TxBase(y)' <= RLC_AM_WINDOW_SIZE
      BY DEF Numbers
    <2>3. ModBase(x, vt_a) < ModBase(y, vt_a) /\ ModBase(y, vt_a) <= RLC_AM_WINDOW_SIZE
      BY <2>1, <2>2 DEF TxBase
    <2>4. ModBase(x, vt_a) \in Nat /\ ModBase(y, vt_a) \in Nat
      BY <2>0, ModBaseIsDistance
    <2>5. ModBase(x, vt_a) < RLC_AM_WINDOW_SIZE
      BY <2>3, <2>4, SnAssumption
    <2> QED
      BY <2>5 DEF TxBase
  <1>10. Held'
    <2>1. \A s \in Awaited : s \in Awaited' /\ s \in DOMAIN tx_window
      <3> SUFFICES ASSUME NEW s \in Awaited PROVE s \in Awaited' /\ s \in DOMAIN tx_window
        OBVIOUS
      <3>1. s \in SN /\ RxBase(s) < RxBase(vt_s) /\ s \in DOMAIN tx_window
        BY DEF Awaited, Numbers
      <3>2. vr_r \in SN /\ vt_s \in SN
        BY <1>0 DEF OneAfterTheOther, AmTypes, RxInv, RxTypeOK
      <3> PICK a, b, t : a = RxBase(s) /\ b = RxBase(vt_s) /\ t = TxBase(vt_s)
        OBVIOUS
      <3>3. a \in 0..(MOD - 1) /\ b \in 0..(MOD - 1) /\ t \in 0..(MOD - 1)
        BY <1>0, <3>1, <3>2, ModBaseIsDistance DEF RxBase, TxBase, TxTypes, WindowTypes
      <3>4. b <= t /\ t < RLC_AM_WINDOW_SIZE /\ a < b
        BY <1>9, <3>1 DEF Numbers
      <3>5. b < MOD - 1 /\ a < b + 1
        BY <3>3, <3>4, SnAssumption
      <3>6. ModBase(Inc(vt_s), vr_r) = b + 1
        BY <3>2, <3>5, ModBaseInc DEF RxBase
      <3>7. RxBase(vt_s)' = b + 1 /\ RxBase(s)' = a
        BY <1>7, <3>6 DEF RxBase
      <3> QED
        BY <3>1, <3>5, <3>7 DEF Awaited
    <2>2. \A s \in DOMAIN rx_window : s \in Awaited
      BY HeldIsAwaited
    <2> QED
      BY <1>0, <1>3, <1>7, <2>1, <2>2 DEF Held
  <1>11. InFlight'
    <2> PICK P : pdu_list \in Seq(P)
      BY <1>0 DEF TxTypes, PdusInFlight
    <2> PICK new : new = [sn |-> vt_s, p |-> poll, rf |-> FALSE,
                          so |-> 0, lsf |-> FALSE, data |-> data]
      OBVIOUS
    <2>1. /\ Len(pdu_list') = Len(pdu_list) + 1 /\ Len(pdu_list) \in Nat
          /\ \A i \in 1..Len(pdu_list) : pdu_list'[i] = pdu_list[i]
          /\ pdu_list'[Len(pdu_list) + 1] = new
      <3>1. pdu_list \in Seq(P \cup {new}) /\ new \in P \cup {new}
        OBVIOUS
      <3> QED
        BY <3>1, AppendProperties, LenProperties
    <2>2. Carries(new)'
      <3>1. new.sn = vt_s /\ new.rf = FALSE /\ new.data = data
        OBVIOUS
      <3>2. new.sn = v /\ new.data = PduData(v)'
        BY <1>3, <3>1
      <3> QED
        BY <3>1, <3>2 DEF Carries
    <2>3. \A i \in 1..Len(pdu_list) : Carries(pdu_list[i])'
      <3> TAKE i \in 1..Len(pdu_list)
      <3> PICK pdu : pdu = pdu_list[i]
        OBVIOUS
      <3>1. Carries(pdu) /\ pdu.sn # vt_s
        BY <1>0, <1>9 DEF InFlight, Numbers
      <3>2. Carries(pdu)'
        BY <1>3, <3>1 DEF Carries
      <3>3. pdu_list'[i] = pdu
        BY <2>1
      <3> QED
        BY <3>2, <3>3
    <2> QED
      BY <2>1, <2>2, <2>3 DEF InFlight
  <1>12. QueueOk(retx_queue)'
    <2> PICK q : q = retx_queue'
      OBVIOUS
    <2>1. q \in Seq(Retx) /\ QueueOk(q) /\ (q # << >> => q[1].sn \in DOMAIN tx_window)
      OBVIOUS
    <2>2. QueueOk(q)'
      BY <1>0, <1>3, <1>9, <2>1, QueueAfterNew
    <2> QED
      BY <2>2 DEF QueueOk
  <1> QED
    BY <1>2, <1>6, <1>8, <1>10, <1>11, <1>12 DEF DataInv

-----------------------------------------------------------------------------
(* The retransmission queue *)

(* The end of a queue in order is in order. *)
LEMMA QueueSuffix ==
    ASSUME NEW q, QueueOk(q), Len(q) \in Nat, NEW d \in Nat, NEW r, Len(r) \in Nat,
           d + Len(r) <= Len(q), \A i \in 1..Len(r) : r[i] = q[i + d]
    PROVE  QueueOk(r)
  <1>1. \A i \in 1..Len(r) : i + d \in 1..Len(q)
    OBVIOUS
  <1>2. \A i, j \in 1..Len(r) : i < j => i + d < j + d
    OBVIOUS
  <1> QED
    BY <1>1, <1>2 DEF QueueOk

(* What is in the window may be queued after anything. *)
LEMMA QueueJoined ==
    ASSUME AmTypes, TxWindowContiguous, Numbers, WindowStream,
           NEW q \in Seq(Retx), QueueOk(q), NEW w \in Seq(Retx),
           \A i \in 1..Len(w) : w[i].sn \in DOMAIN tx_window /\ w[i] = WholeRetx(w[i].sn)
    PROVE  q \o w \in Seq(Retx) /\ QueueOk(q \o w)
  <1> PICK m, n, z : m = Len(q) /\ n = Len(w) /\ z = q \o w
    OBVIOUS
  <1>1. /\ m \in Nat /\ n \in Nat /\ z \in Seq(Retx) /\ Len(z) = m + n
        /\ \A i \in 1..(m + n) : z[i] = IF i <= m THEN q[i] ELSE w[i - m]
    BY LenProperties, ConcatProperties
  <1>2. \A i \in 1..(m + n) : z[i].sn \in SN
    <2>1. \A i \in 1..(m + n) : z[i] \in Retx
      BY <1>1, ElementOfSeq
    <2> QED
      BY <2>1 DEF Retx
  <1>3. /\ vt_s \in SN /\ TxBase(vt_s) \in 0..RLC_AM_WINDOW_SIZE
    <2>1. vt_s \in SN /\ vt_a \in SN
      BY DEF AmTypes, TxTypes, WindowTypes
    <2>2. TxBase(vt_s) \in Nat
      BY <2>1, ModBaseIsDistance DEF TxBase
    <2>3. TxBase(vt_s) <= RLC_AM_WINDOW_SIZE
      BY DEF Numbers
    <2> QED
      BY <2>1, <2>2, <2>3, SnAssumption
  <1>4. \A i \in 1..(m + n) : Ahead(z[i].sn) \in 0..(MOD - 1)
    BY <1>2, <1>3, ModBaseIsDistance DEF Ahead
  <1>5. \A j \in 1..(m + n) : ~(j <= m) => j - m \in 1..n /\ z[j] = w[j - m]
    BY <1>1
  <1>6. ASSUME NEW i \in 1..(m + n), NEW j \in 1..(m + n), i < j
        PROVE  Ahead(z[i].sn) < Ahead(z[j].sn) + RLC_AM_WINDOW_SIZE
    <2>1. CASE j <= m
      <3>1. i \in 1..m /\ j \in 1..m /\ z[i] = q[i] /\ z[j] = q[j]
        BY <1>1, <1>6, <2>1
      <3> QED
        BY <1>6, <3>1 DEF QueueOk
    <2>2. CASE ~(j <= m)
      <3>1. z[j].sn \in DOMAIN tx_window
        BY <1>5, <2>2
      <3>2. Ahead(z[j].sn) >= MOD - TxBase(vt_s)
        BY <3>1, LiveIsFar
      <3> PICK a, b, t : a = Ahead(z[i].sn) /\ b = Ahead(z[j].sn) /\ t = TxBase(vt_s)
        OBVIOUS
      <3>3. a \in 0..(MOD - 1) /\ b \in 0..(MOD - 1) /\ t \in 0..RLC_AM_WINDOW_SIZE /\ b >= MOD - t
        BY <1>3, <1>4, <3>2
      <3>4. a < b + RLC_AM_WINDOW_SIZE
        <4>1. MOD \in Nat /\ RLC_AM_WINDOW_SIZE \in Nat
          BY SnAssumption
        <4> QED
          BY <3>3, <4>1, WithinAWindow
      <3> QED
        BY <3>4
    <2> QED
      BY <2>1, <2>2
  <1>7. ASSUME NEW i \in 1..(m + n), z[i].sn \in DOMAIN tx_window
        PROVE  z[i].so_start < z[i].so_end /\ z[i].so_end = Len(PduData(z[i].sn))
    <2>1. CASE i <= m
      <3>1. i \in 1..m /\ z[i] = q[i]
        BY <1>1, <2>1
      <3> QED
        BY <1>7, <3>1 DEF QueueOk
    <2>2. CASE ~(i <= m)
      <3> PICK s : s = z[i].sn
        OBVIOUS
      <3>1. z[i] = WholeRetx(s) /\ s \in DOMAIN tx_window
        BY <1>5, <2>2
      <3>2. z[i].so_start = 0 /\ z[i].so_end = Len(PduData(s))
        BY <3>1 DEF WholeRetx, PduData
      <3>3. Run(PduData(s))
        BY <3>1 DEF WindowStream
      <3>4. Len(PduData(s)) \in Nat \ {0}
        BY <3>3, RunTypes
      <3> QED
        BY <3>2, <3>4
    <2> QED
      BY <2>1, <2>2
  <1>8. QueueOk(z)
    BY <1>1, <1>6, <1>7 DEF QueueOk
  <1> QED
    BY <1>1, <1>8

(* retransmit_random_pdu, the poll's repetition of a PDU, keeps the order. *)
LEMMA RandomRetxQueue ==
    ASSUME AmTypes, TxWindowContiguous, Numbers, WindowStream, QueueOk(retx_queue),
           NEW q \in RandomRetx
    PROVE  q \in Seq(Retx) /\ QueueOk(q)
  <1>1. retx_queue \in Seq(Retx) /\ WindowTypes
    BY DEF AmTypes, TxTypes, WindowTypes
  <1>2. q \in Seq(Retx)
    BY <1>1, RandomRetxType
  <1>3. CASE q = retx_queue
    BY <1>2, <1>3
  <1>4. ASSUME NEW sn \in DOMAIN tx_window, q = Append(retx_queue, WholeRetx(sn))
        PROVE  QueueOk(q)
    <2> PICK x : x = WholeRetx(sn)
      OBVIOUS
    <2>1. x \in Retx /\ x.sn = sn
      <3>1. sn \in SN /\ tx_window[sn] \in TxPdu
        BY <1>1 DEF WindowTypes
      <3>2. Len(tx_window[sn].data) \in Nat
        BY <3>1, LenProperties DEF TxPdu
      <3> QED
        BY <3>1, <3>2 DEF WholeRetx, Retx
    <2>2. <<x>> \in Seq(Retx) /\ Len(<<x>>) = 1 /\ <<x>>[1] = x /\ q = retx_queue \o <<x>>
      BY <1>1, <1>4, <2>1
    <2>3. \A i \in 1..Len(<<x>>) : <<x>>[i].sn \in DOMAIN tx_window
                                   /\ <<x>>[i] = WholeRetx(<<x>>[i].sn)
      BY <2>1, <2>2
    <2> QED
      BY <1>1, <2>2, <2>3, QueueJoined
  <1> QED
    BY <1>2, <1>3, <1>4 DEF RandomRetx

(* Reading drops the acknowledged entries at the queue's head. *)
LEMMA DropAckedQueue ==
    ASSUME WindowTypes, NEW q \in Seq(Retx), QueueOk(q)
    PROVE  /\ DropAcked(q) \in Seq(Retx) /\ QueueOk(DropAcked(q))
           /\ DropAcked(q) # << >> => /\ DropAcked(q)[1].sn \in DOMAIN tx_window
                                      /\ Head(DropAcked(q)) = DropAcked(q)[1]
  <1> DEFINE live == {i \in 1..Len(q) : q[i].sn \in DOMAIN tx_window}
             first == CHOOSE i \in live : \A j \in live : i <= j
             r == DropAcked(q)
  <1>1. Len(q) \in Nat
    BY LenProperties
  <1>2. r \in Seq(Retx) /\ (r # << >> => Head(r) = r[1] /\ r[1].sn \in DOMAIN tx_window)
    <2>1. r \in Seq(Retx) /\ (r # << >> => Head(r).sn \in DOMAIN tx_window)
      BY DropAckedType
    <2>2. r # << >> => Head(r) = r[1]
      BY <2>1, HeadTailProperties
    <2> QED
      BY <2>1, <2>2
  <1>3. CASE live = {}
    <2>1. r = << >>
      BY <1>3 DEF DropAcked
    <2> HIDE DEF r
    <2>2. QueueOk(r)
      BY <2>1 DEF QueueOk
    <2> QED
      BY <1>2, <2>2 DEF r
  <1>4. CASE live # {}
    <2>1. live \in SUBSET Nat
      BY <1>1
    <2>2. \E i \in live : \A j \in live : i <= j
      BY <1>4, <2>1, LeastOfNaturals
    <2>3. first \in 1..Len(q)
      BY <2>2
    <2>4. r = SubSeq(q, first, Len(q))
      BY <1>4 DEF DropAcked
    <2> HIDE DEF first, live, r
    <2>5. /\ Len(r) = Len(q) - first + 1
          /\ \A i \in 1..(Len(q) - first + 1) : r[i] = q[first + i - 1]
      BY <1>1, <2>3, <2>4
    <2> PICK d : d = first - 1
      OBVIOUS
    <2>6. d \in Nat /\ Len(r) \in Nat /\ d + Len(r) <= Len(q)
      BY <1>1, <2>3, <2>5
    <2>7. \A i \in 1..Len(r) : r[i] = q[i + d]
      <3> TAKE i \in 1..Len(r)
      <3>1. i \in 1..(Len(q) - first + 1) /\ first + i - 1 = i + d
        BY <1>1, <2>3, <2>5
      <3> QED
        BY <2>5, <3>1
    <2>8. QueueOk(r)
      BY <1>1, <2>6, <2>7, QueueSuffix
    <2> QED
      BY <1>2, <2>8 DEF r
  <1> QED
    BY <1>3, <1>4

(* A retransmission takes the queue's first entry. *)
LEMMA QueueTail ==
    ASSUME NEW q \in Seq(Retx), q # << >>, QueueOk(q)
    PROVE  Tail(q) \in Seq(Retx) /\ QueueOk(Tail(q))
  <1>1. /\ Tail(q) \in Seq(Retx) /\ Len(q) \in Nat \ {0} /\ Len(Tail(q)) = Len(q) - 1
        /\ \A i \in 1..Len(Tail(q)) : Tail(q)[i] = q[i + 1]
    <2>1. Len(q) \in Nat \ {0}
      BY EmptySeq, LenProperties
    <2> QED
      BY <2>1, HeadTailProperties
  <1>2. Len(Tail(q)) \in Nat /\ 1 + Len(Tail(q)) <= Len(q)
    BY <1>1
  <1> QED
    BY <1>1, <1>2, QueueSuffix

(* The rest of a PDU sent in part stays at the front. *)
LEMMA QueueRest ==
    ASSUME NEW q \in Seq(Retx), q # << >>, QueueOk(q),
           NEW x \in Retx, x.sn = q[1].sn, x.so_end = q[1].so_end, x.so_start < x.so_end
    PROVE  <<x>> \o Tail(q) \in Seq(Retx) /\ QueueOk(<<x>> \o Tail(q))
  <1> PICK z : z = <<x>> \o Tail(q)
    OBVIOUS
  <1>1. /\ Tail(q) \in Seq(Retx) /\ Len(q) \in Nat \ {0} /\ Len(Tail(q)) = Len(q) - 1
        /\ \A i \in 1..Len(Tail(q)) : Tail(q)[i] = q[i + 1]
    <2>1. Len(q) \in Nat \ {0}
      BY EmptySeq, LenProperties
    <2> QED
      BY <2>1, HeadTailProperties
  <1>2. <<x>> \in Seq(Retx) /\ Len(<<x>>) = 1 /\ <<x>>[1] = x
    OBVIOUS
  <1>3. z \in Seq(Retx) /\ Len(z) = Len(q) /\ z[1] = x /\ \A i \in 2..Len(q) : z[i] = q[i]
    <2>1. /\ z \in Seq(Retx) /\ Len(z) = 1 + (Len(q) - 1)
          /\ \A i \in 1..(1 + (Len(q) - 1)) : z[i] = IF i <= 1 THEN <<x>>[i] ELSE Tail(q)[i - 1]
      BY <1>1, <1>2, ConcatProperties
    <2>2. \A i \in 2..Len(q) : i \in 1..(1 + (Len(q) - 1)) /\ ~(i <= 1) /\ i - 1 \in 1..(Len(q) - 1)
                                /\ (i - 1) + 1 = i
      BY <1>1
    <2>3. \A i \in 2..Len(q) : z[i] = q[i]
      BY <1>1, <2>1, <2>2
    <2>4. z[1] = x
      BY <1>1, <1>2, <2>1
    <2> QED
      BY <1>1, <2>1, <2>3, <2>4
  <1>4. \A i \in 1..Len(q) : z[i].sn = q[i].sn
    <2> TAKE i \in 1..Len(q)
    <2>1. i = 1 \/ i \in 2..Len(q)
      BY <1>1
    <2> QED
      BY <1>3, <2>1
  <1>5. \A i \in 1..Len(q) : i = 1 \/ (i \in 2..Len(q) /\ z[i] = q[i])
    BY <1>1, <1>3
  <1>6. \A i, j \in 1..Len(z) : i < j => Ahead(z[i].sn) < Ahead(z[j].sn) + RLC_AM_WINDOW_SIZE
    BY <1>3, <1>4 DEF QueueOk
  <1>7. ASSUME NEW i \in 1..Len(z), z[i].sn \in DOMAIN tx_window
        PROVE  z[i].so_start < z[i].so_end /\ z[i].so_end = Len(PduData(z[i].sn))
    <2>1. q[i].so_start < q[i].so_end /\ q[i].so_end = Len(PduData(q[i].sn))
      BY <1>3, <1>4, <1>7 DEF QueueOk
    <2> QED
      BY <1>3, <1>5, <2>1
  <1> QED
    BY <1>3, <1>6, <1>7 DEF QueueOk

-----------------------------------------------------------------------------
(* Steps of the transmitter that send nothing new *)

(* A step of the sender that sends no new byte and moves no byte. *)
LEMMA SenderStep ==
    ASSUME AmTypes, Numbers, Numbers', DataInv,
           SduStream', vt_s' = vt_s, NextToSend' = NextToSend,
           \A s \in DOMAIN tx_window' :
               s \in DOMAIN tx_window /\ tx_window'[s].data = tx_window[s].data,
           UNCHANGED <<vr_r, rx_window, rx_segments, rx_sdu, delivered>>,
           \A n \in 1..Len(pdu_list') : Carries(pdu_list'[n]),
           QueueOk(retx_queue')
    PROVE  DataInv'
  <1>1. WindowStream /\ RxStream /\ Held /\ OneAfterTheOther'
    BY DEF DataInv, Numbers
  <1>2. RxStream' /\ Held'
    BY <1>1, ReceiverKept
  <1>3. /\ WindowStream'
        /\ \A pdu : Carries(pdu) => Carries(pdu)'
        /\ \A q : QueueOk(q) => QueueOk(q)'
    BY <1>1, StreamKept
  <1>4. InFlight'
    <2> SUFFICES ASSUME NEW n \in 1..Len(pdu_list') PROVE Carries(pdu_list[n])'
      BY DEF InFlight
    <2> PICK pdu : pdu = pdu_list'[n]
      OBVIOUS
    <2>1. Carries(pdu)
      OBVIOUS
    <2>2. Carries(pdu)'
      BY <1>3, <2>1
    <2> QED
      BY <2>2 DEF Carries
  <1>5. QueueOk(retx_queue)'
    <2> PICK q : q = retx_queue'
      OBVIOUS
    <2>1. QueueOk(q)'
      BY <1>3
    <2> QED
      BY <2>1 DEF QueueOk
  <1> QED
    BY <1>2, <1>3, <1>4, <1>5 DEF DataInv

(* A PDU put into flight with the bytes of its number. *)
LEMMA OneMoreCarried ==
    ASSUME PdusInFlight, InFlight, NEW pdu, Carries(pdu), pdu_list' = Append(pdu_list, pdu)
    PROVE  \A n \in 1..Len(pdu_list') : Carries(pdu_list'[n])
  <1> PICK P : pdu_list \in Seq(P)
    BY DEF PdusInFlight
  <1>1. /\ Len(pdu_list') = Len(pdu_list) + 1 /\ Len(pdu_list) \in Nat
        /\ \A i \in 1..Len(pdu_list) : pdu_list'[i] = pdu_list[i]
        /\ pdu_list'[Len(pdu_list) + 1] = pdu
    <2>1. pdu_list \in Seq(P \cup {pdu}) /\ pdu \in P \cup {pdu}
      OBVIOUS
    <2> QED
      BY <2>1, AppendProperties, LenProperties
  <1>2. \A i \in 1..Len(pdu_list) : Carries(pdu_list[i])
    BY DEF InFlight
  <1> TAKE n \in 1..Len(pdu_list')
  <1>3. n = Len(pdu_list) + 1 \/ n \in 1..Len(pdu_list)
    BY <1>1
  <1> QED
    BY <1>1, <1>2, <1>3

(* A read of new bytes carries the stream on. *)
LEMMA DataPartStream ==
    ASSUME AmTypes, TxWindowContiguous, TxWindowContiguous', Numbers, Numbers', DataInv,
           NEW g \in Nat, NEW retxs \in Seq(Retx), QueueOk(retxs),
           retxs # << >> => retxs[1].sn \in DOMAIN tx_window,
           NEW without_poll, NEW timer, DataPart(g, retxs, without_poll, timer),
           UNCHANGED rx_vars
    PROVE  DataInv'
  <1>1. CASE BuildDataPdu(g, retxs, without_poll, timer)
    <2>1. PICK n \in 1..g :
            /\ n <= Len(Waiting)
            /\ LET data == SubSeq(Waiting, 1, n)
                   id   == data[n][1]
                   k    == data[n][2]
                   left == LeftOf(tx_sdu_queue, id)
                   poll == PollRequired(without_poll + 1, timer, left, retxs)
               IN /\ tx_sdu' = Rest(id, k)
                  /\ tx_sdu_queue' = left
                  /\ vt_s' = Inc(vt_s)
                  /\ tx_window' = [s \in DOMAIN tx_window \cup {vt_s} |->
                                      IF s = vt_s THEN [data |-> data, retx_count |-> 0]
                                      ELSE tx_window[s]]
                  /\ pdu_list' = Append(pdu_list,
                        [sn |-> vt_s, p |-> poll, rf |-> FALSE,
                         so |-> 0, lsf |-> FALSE, data |-> data])
      BY <1>1 DEF BuildDataPdu, Waiting
    <2> PICK data : data = SubSeq(Waiting, 1, n)
      OBVIOUS
    <2> DEFINE left == LeftOf(tx_sdu_queue, data[n][1])
               poll == PollRequired(without_poll + 1, timer, left, retxs)
    <2>2. /\ retx_queue' = retxs /\ accepted' = accepted /\ vt_a' = vt_a
      BY <1>1 DEF BuildDataPdu
    <2>3. n \in 1..Len(Waiting)
      <3>1. Len(Waiting) \in Nat
        BY WaitingType, LenProperties DEF AmTypes
      <3> QED
        BY <2>1, <3>1
    <2>4. /\ tx_sdu' = Rest(data[n][1], data[n][2])
          /\ tx_sdu_queue' = left
          /\ vt_s' = Inc(vt_s)
          /\ tx_window' = [s \in DOMAIN tx_window \cup {vt_s} |->
                              IF s = vt_s THEN [data |-> data, retx_count |-> 0]
                              ELSE tx_window[s]]
          /\ pdu_list' = Append(pdu_list, [sn |-> vt_s, p |-> poll, rf |-> FALSE,
                                           so |-> 0, lsf |-> FALSE, data |-> data])
      BY <2>1
    <2>5. /\ retx_queue' \in Seq(Retx) /\ QueueOk(retx_queue')
          /\ retx_queue' # << >> => retx_queue'[1].sn \in DOMAIN tx_window
      BY <2>2
    <2> HIDE DEF poll
    <2> QED
      BY <2>2, <2>3, <2>4, <2>5, NewPduStream
  <1>2. CASE NoDataPdu(retxs, without_poll, timer)
    <2>1. /\ retx_queue' = retxs
          /\ UNCHANGED <<accepted, tx_sdu_queue, tx_sdu, tx_window, vt_s, pdu_list>>
      BY <1>2 DEF NoDataPdu
    <2>2. SduStream /\ InFlight
      BY DEF DataInv
    <2>3. SduStream' /\ NextToSend' = NextToSend
      BY <2>1, <2>2 DEF SduStream, Taken, NextToSend
    <2>4. \A m \in 1..Len(pdu_list') : Carries(pdu_list'[m])
      BY <2>1, <2>2 DEF InFlight
    <2>5. UNCHANGED <<vr_r, rx_window, rx_segments, rx_sdu, delivered>>
      BY DEF rx_vars
    <2> QED
      BY <2>1, <2>3, <2>4, <2>5, SenderStep
  <1> QED
    BY <1>1, <1>2 DEF DataPart

(* A slice of a PDU's bytes is a part of it. *)
LEMMA PartIsPart ==
    ASSUME NEW d, Run(d), NEW so \in Nat, NEW end \in Nat, so < end, end <= Len(d),
           NEW x, x.so = so, x.data = SubSeq(d, so + 1, end), x.lsf <=> end = Len(d)
    PROVE  PartOf(x, d)
  <1>1. Len(d) \in Nat /\ d \in Seq(SduByte) /\ \A k \in 1..Len(d) : d[k] \in SduByte
    BY RunTypes
  <1> PICK p : p = SubSeq(d, so + 1, end)
    OBVIOUS
  <1>2. /\ p \in Seq(SduByte) /\ Len(p) = end - so
        /\ \A k \in 1..(end - so) : p[k] = d[so + k]
    BY <1>1
  <1>3. p # << >>
    <2>1. Len(p) # 0
      BY <1>2
    <2> QED
      BY <2>1, EmptySeq
  <1>4. so + Len(p) = end
    BY <1>2
  <1> QED
    BY <1>1, <1>2, <1>3, <1>4 DEF PartOf

(* A PDU sent again whole carries what it carried. *)
LEMMA RetxWholeStream ==
    ASSUME AmTypes, Numbers, Numbers', DataInv,
           NEW retxs \in Seq(Retx), QueueOk(retxs), retxs # << >>,
           retxs[1].sn \in DOMAIN tx_window, Head(retxs) = retxs[1],
           RetxWhole(retxs), UNCHANGED rx_vars
    PROVE  DataInv'
  <1> PICK sn : sn = Head(retxs).sn
    OBVIOUS
  <1>0. sn \in DOMAIN tx_window /\ PdusInFlight /\ SduStream /\ InFlight /\ WindowStream
        /\ \A s \in DOMAIN tx_window : tx_window[s] \in TxPdu
    BY DEF AmTypes, TxTypes, WindowTypes, DataInv
  <1>1. PICK poll : pdu_list' = Append(pdu_list,
           [sn |-> sn, p |-> poll, rf |-> FALSE, so |-> 0, lsf |-> FALSE,
            data |-> tx_window[sn].data])
    BY DEF RetxWhole
  <1>2. PICK more : tx_window' = [tx_window EXCEPT ![sn].retx_count = more]
    BY DEF RetxWhole
  <1>3. \A s \in DOMAIN tx_window' :
            s \in DOMAIN tx_window /\ tx_window'[s].data = tx_window[s].data
    <2>1. DOMAIN tx_window' = DOMAIN tx_window
      BY <1>2
    <2>2. \A s \in DOMAIN tx_window :
            tx_window'[s] = IF s = sn THEN [tx_window[s] EXCEPT !.retx_count = more] ELSE tx_window[s]
      BY <1>2
    <2>3. \A x \in TxPdu : [x EXCEPT !.retx_count = more].data = x.data
      BY DEF TxPdu
    <2> QED
      BY <1>0, <2>1, <2>2, <2>3
  <1>4. \A n \in 1..Len(pdu_list') : Carries(pdu_list'[n])
    <2> PICK pdu : pdu = [sn |-> sn, p |-> poll, rf |-> FALSE, so |-> 0, lsf |-> FALSE,
                          data |-> tx_window[sn].data]
      OBVIOUS
    <2>1. pdu.sn = sn /\ pdu.rf = FALSE /\ pdu.data = PduData(sn)
      BY DEF PduData
    <2>2. Carries(pdu)
      BY <2>1 DEF Carries
    <2> QED
      BY <1>0, <1>1, <2>2, OneMoreCarried
  <1>5. QueueOk(retx_queue')
    <2>1. retx_queue' = Tail(retxs)
      BY DEF RetxWhole
    <2> QED
      BY <2>1, QueueTail
  <1>6. UNCHANGED <<accepted, tx_sdu_queue, tx_sdu, vt_s>>
    BY DEF RetxWhole
  <1>7. SduStream' /\ NextToSend' = NextToSend
    BY <1>0, <1>6 DEF SduStream, Taken, NextToSend
  <1>8. UNCHANGED <<vr_r, rx_window, rx_segments, rx_sdu, delivered>>
    BY DEF rx_vars
  <1> QED
    BY <1>3, <1>4, <1>5, <1>6, <1>7, <1>8, SenderStep

(* A PDU sent again in a segment carries a part of it. *)
LEMMA RetxSegmentStream ==
    ASSUME AmTypes, Numbers, Numbers', DataInv,
           NEW retxs \in Seq(Retx), QueueOk(retxs), retxs # << >>,
           retxs[1].sn \in DOMAIN tx_window, Head(retxs) = retxs[1],
           NEW room \in Nat \ {0}, RetxSegment(retxs, room), UNCHANGED rx_vars
    PROVE  DataInv'
  <1> PICK retx : retx = Head(retxs)
    OBVIOUS
  <1> PICK sn, from, to, data : /\ sn = retx.sn /\ from = retx.so_start /\ to = retx.so_end
                                /\ data = tx_window[sn].data
    OBVIOUS
  <1>e. PICK end : end = IF room < to - from THEN from + room ELSE to
    OBVIOUS
  <1>0. sn \in DOMAIN tx_window /\ PdusInFlight /\ SduStream /\ InFlight /\ WindowStream
    BY DEF AmTypes, TxTypes, DataInv
  <1>1. Run(data) /\ data = PduData(sn) /\ Len(data) \in Nat
    <2>1. Run(data) /\ data = PduData(sn)
      BY <1>0 DEF WindowStream, PduData
    <2> QED
      BY <2>1, RunTypes
  <1>2. retx \in Retx /\ from \in Nat /\ to \in Nat /\ from < to /\ to = Len(data)
    <2>0. 1 \in 1..Len(retxs)
      BY EmptySeq, LenProperties
    <2>1. retx \in Retx
      BY <2>0, ElementOfSeq
    <2>2. retx.so_start < retx.so_end /\ retx.so_end = Len(PduData(retx.sn))
      BY <2>0 DEF QueueOk
    <2> QED
      BY <1>1, <2>1, <2>2 DEF Retx
  <1>3. end \in Nat /\ from < end /\ end <= to
    BY <1>e, <1>2
  <1>4. PICK poll : pdu_list' = Append(pdu_list,
             [sn |-> sn, p |-> poll, rf |-> TRUE, so |-> from,
              lsf |-> end = Len(data), data |-> SubSeq(data, from + 1, end)])
    BY <1>e DEF RetxSegment
  <1>5. \A n \in 1..Len(pdu_list') : Carries(pdu_list'[n])
    <2>p. PICK pdu : pdu = [sn |-> sn, p |-> poll, rf |-> TRUE, so |-> from,
                          lsf |-> end = Len(data), data |-> SubSeq(data, from + 1, end)]
      OBVIOUS
    <2>1. pdu.sn = sn /\ pdu.rf = TRUE
      BY <2>p
    <2>2. pdu.so = from /\ pdu.data = SubSeq(data, from + 1, end) /\ (pdu.lsf <=> end = Len(data))
      BY <2>p
    <2>3. PartOf(pdu, data)
      <3>1. Run(data) /\ from \in Nat /\ end \in Nat /\ from < end /\ end <= Len(data)
        BY <1>1, <1>2, <1>3
      <3> QED
        BY <2>2, <3>1, PartIsPart
    <2>4. Carries(pdu)
      BY <1>1, <2>1, <2>3 DEF Carries
    <2> QED
      BY <1>0, <1>4, <2>p, <2>4, OneMoreCarried
  <1>6. QueueOk(retx_queue')
    <2> PICK x : x = [retx EXCEPT !.is_segment = TRUE, !.so_start = end]
      OBVIOUS
    <2>1. retx_queue' = IF end \in {Len(data), to} THEN Tail(retxs) ELSE <<x>> \o Tail(retxs)
      BY <1>e DEF RetxSegment
    <2>2. x \in Retx /\ x.sn = sn /\ x.so_end = to /\ x.so_start = end
      BY <1>2, <1>3 DEF Retx
    <2>3. CASE end \in {Len(data), to}
      BY <2>1, <2>3, QueueTail
    <2>4. CASE end \notin {Len(data), to}
      <3>1. x.so_start < x.so_end /\ x.sn = retxs[1].sn /\ x.so_end = retxs[1].so_end
        BY <1>2, <1>3, <2>2, <2>4
      <3> QED
        BY <2>1, <2>2, <2>4, <3>1, QueueRest
    <2> QED
      BY <2>3, <2>4
  <1>7. UNCHANGED <<accepted, tx_sdu_queue, tx_sdu, vt_s, tx_window>>
    BY DEF RetxSegment
  <1>8. SduStream' /\ NextToSend' = NextToSend
    BY <1>0, <1>7 DEF SduStream, Taken, NextToSend
  <1>9. UNCHANGED <<vr_r, rx_window, rx_segments, rx_sdu, delivered>>
    BY DEF rx_vars
  <1> QED
    BY <1>5, <1>6, <1>7, <1>8, <1>9, SenderStep

(* read_pdu, all of it. *)
LEMMA ReadStream ==
    ASSUME AmTypes, TxWindowContiguous, TxWindowContiguous', Numbers, Numbers', DataInv,
           NEW g \in Nat, ReadPdu(g), UNCHANGED rx_vars
    PROVE  DataInv'
  <1>0. WindowTypes /\ WindowStream /\ QueueOk(retx_queue)
    BY DEF AmTypes, TxTypes, DataInv
  <1>1. PICK q \in RetxAtGrant :
          LET retxs == DropAcked(q)
          IN \/ retxs # << >> /\ RetxWhole(retxs)
             \/ retxs # << >> /\ g > SegHdr /\ RetxSegment(retxs, g - SegHdr)
             \/ retxs # << >> /\ RetxNoRoom(retxs, g)
             \/ retxs = << >> /\ DataPart(g, retxs, pdu_without_poll, poll_retx_timer)
    BY DEF ReadPdu
  <1>2. q \in Seq(Retx) /\ QueueOk(q)
    BY <1>0, RandomRetxQueue DEF RetxAtGrant, WindowTypes
  <1> PICK retxs : retxs = DropAcked(q)
    OBVIOUS
  <1>3. /\ retxs \in Seq(Retx) /\ QueueOk(retxs)
        /\ retxs # << >> => retxs[1].sn \in DOMAIN tx_window /\ Head(retxs) = retxs[1]
    BY <1>0, <1>2, DropAckedQueue
  <1>4. CASE retxs # << >> /\ RetxWhole(retxs)
    BY <1>3, <1>4, RetxWholeStream
  <1>5. CASE retxs # << >> /\ g > SegHdr /\ RetxSegment(retxs, g - SegHdr)
    <2>1. g - SegHdr \in Nat \ {0}
      BY <1>5, TxAssumption
    <2> QED
      BY <1>3, <1>5, <2>1, RetxSegmentStream
  <1>6. CASE retxs # << >> /\ RetxNoRoom(retxs, g)
    <2>1. PICK wp, timer : DataPart(g, retxs, wp, timer)
      BY <1>6 DEF RetxNoRoom
    <2> QED
      BY <1>3, <2>1, DataPartStream
  <1>7. CASE retxs = << >> /\ DataPart(g, retxs, pdu_without_poll, poll_retx_timer)
    BY <1>3, <1>7, DataPartStream
  <1> QED
    BY <1>1, <1>4, <1>5, <1>6, <1>7

(* handle_control_pdu: what is left of the window stays as it was, and what is queued
   again is in the window. *)
LEMMA StatusStream ==
    ASSUME AmTypes, TxWindowContiguous, Numbers, Numbers', DataInv,
           NEW status, HandleControlPdu(status), UNCHANGED rx_vars
    PROVE  DataInv'
  <1> DEFINE covered == Covered(status.ack_sn)
             nacked  == covered \cap status.nacks
             acked   == Acked(covered, nacked)
             lost    == nacked \cap DOMAIN tx_window
             again   == InOrder(lost)
             kept    == IF status.nacks # {} THEN << >> ELSE retx_queue
             more    == [n \in 1..Len(again) |-> WholeRetx(again[n])]
  <1>0. WindowTypes /\ WindowStream /\ QueueOk(retx_queue) /\ SduStream /\ InFlight
    BY DEF AmTypes, TxTypes, DataInv
  <1>1. kept \in Seq(Retx) /\ QueueOk(kept)
    <2>1. CASE status.nacks # {}
      <3>1. kept = << >> /\ << >> \in Seq(Retx)
        BY <2>1, EmptySeq
      <3>2. QueueOk(<< >>)
        BY DEF QueueOk
      <3> QED
        BY <3>1, <3>2
    <2>2. CASE ~(status.nacks # {})
      BY <1>0, <2>2 DEF WindowTypes
    <2> QED
      BY <2>1, <2>2
  <1>2. lost \in SUBSET DOMAIN tx_window /\ lost \in SUBSET SN /\ vt_a \in SN
    BY <1>0 DEF WindowTypes
  <1>c. /\ retx_queue' = kept \o more
        /\ tx_window' = [i \in DOMAIN tx_window \ acked |-> tx_window[i]]
        /\ UNCHANGED <<accepted, tx_sdu_queue, tx_sdu, vt_s, pdu_list>>
    BY DEF HandleControlPdu
  <1> HIDE DEF lost, kept, acked
  <1>3. again \in Seq(lost) /\ Len(again) = Cardinality(lost) /\ Len(again) \in Nat
    BY <1>2, InOrderLists, FiniteSN
  <1>4. \A n \in 1..Len(again) : again[n] \in DOMAIN tx_window
    <2>1. \A n \in 1..Len(again) : again[n] \in lost
      BY <1>3, ElementOfSeq
    <2> QED
      BY <1>2, <2>1
  <1>5. \A sn \in DOMAIN tx_window : WholeRetx(sn) \in Retx /\ WholeRetx(sn).sn = sn
    <2> TAKE sn \in DOMAIN tx_window
    <2>1. sn \in SN /\ tx_window[sn] \in TxPdu
      BY <1>0 DEF WindowTypes
    <2>2. Len(tx_window[sn].data) \in Nat
      BY <2>1, LenProperties DEF TxPdu
    <2> QED
      BY <2>1, <2>2 DEF WholeRetx, Retx
  <1> HIDE DEF again
  <1>6. /\ more \in Seq(Retx) /\ Len(more) = Len(again)
        /\ \A n \in 1..Len(again) : more[n] = WholeRetx(again[n])
    BY <1>3, <1>4, <1>5
  <1> HIDE DEF more
  <1>7. \A i \in 1..Len(more) : more[i].sn \in DOMAIN tx_window /\ more[i] = WholeRetx(more[i].sn)
    BY <1>4, <1>5, <1>6
  <1>8. QueueOk(retx_queue')
    <2>1. QueueOk(kept \o more)
      BY <1>0, <1>1, <1>6, <1>7, QueueJoined
    <2> QED
      BY <1>c, <2>1
  <1>9. SduStream' /\ NextToSend' = NextToSend
    BY <1>0, <1>c DEF SduStream, Taken, NextToSend
  <1>10. \A s \in DOMAIN tx_window' :
            s \in DOMAIN tx_window /\ tx_window'[s].data = tx_window[s].data
    BY <1>c
  <1>11. \A n \in 1..Len(pdu_list') : Carries(pdu_list'[n])
    BY <1>0, <1>c DEF InFlight
  <1>12. UNCHANGED <<vr_r, rx_window, rx_segments, rx_sdu, delivered>>
    BY DEF rx_vars
  <1> QED
    BY <1>c, <1>8, <1>9, <1>10, <1>11, <1>12, SenderStep

(* write_sdu: the SDU waits behind all others. *)
LEMMA WriteStream ==
    ASSUME AmTypes, Numbers, Numbers', DataInv, WriteSdu, UNCHANGED rx_vars
    PROVE  DataInv'
  <1> PICK l : l = Len(tx_sdu_queue)
    OBVIOUS
  <1>0. TxTypes /\ SduStream /\ InFlight /\ QueueOk(retx_queue)
    BY DEF AmTypes, DataInv
  <1>1. /\ l \in Nat /\ accepted \in Nat /\ Taken \in Nat /\ Taken + l = accepted
        /\ \A i \in 1..l : tx_sdu_queue[i] = Taken + i
    BY <1>0, QueueIs
  <1>2. /\ accepted' = accepted + 1 /\ tx_sdu_queue' = Append(tx_sdu_queue, accepted + 1)
        /\ UNCHANGED <<tx_sdu, tx_window, vt_s, retx_queue, pdu_list>>
    BY DEF WriteSdu
  <1>3. /\ Len(tx_sdu_queue') = l + 1 /\ tx_sdu_queue'[l + 1] = accepted + 1
        /\ \A i \in 1..l : tx_sdu_queue'[i] = tx_sdu_queue[i]
    <2>1. tx_sdu_queue \in Seq(Nat) /\ accepted + 1 \in Nat
      <3>1. tx_sdu_queue \in Seq(1..MaxSdus)
        BY <1>0 DEF TxTypes
      <3> QED
        BY <1>1, <3>1, SduAssumption
    <2> QED
      BY <1>2, <2>1, AppendProperties
  <1>4. Taken' = Taken
    <2>1. Taken' = accepted' - Len(tx_sdu_queue') /\ Taken = accepted - l
      BY DEF Taken
    <2> QED
      BY <1>1, <1>2, <1>3, <2>1
  <1>5. \A i \in 1..Len(tx_sdu_queue') : tx_sdu_queue'[i] = Taken' + i
    <2> TAKE i \in 1..Len(tx_sdu_queue')
    <2>1. i = l + 1 \/ i \in 1..l
      BY <1>1, <1>3
    <2>2. Taken + (l + 1) = accepted + 1
      BY <1>1
    <2> QED
      BY <1>1, <1>3, <1>4, <2>1, <2>2
  <1>6. SduStream' /\ NextToSend' = NextToSend
    BY <1>0, <1>2, <1>4, <1>5 DEF SduStream, NextToSend
  <1>7. \A n \in 1..Len(pdu_list') : Carries(pdu_list'[n])
    BY <1>0, <1>2 DEF InFlight
  <1>8. UNCHANGED <<vr_r, rx_window, rx_segments, rx_sdu, delivered>>
    BY DEF rx_vars
  <1> QED
    BY <1>0, <1>2, <1>6, <1>7, <1>8, SenderStep

(* Every other step that hands nothing to the receiver. *)
LEMMA QuietStream ==
    ASSUME AmTypes, TxWindowContiguous, Numbers, Numbers', DataInv,
           UNCHANGED <<accepted, tx_sdu_queue, tx_sdu, tx_window, vt_s>>,
           UNCHANGED <<vr_r, rx_window, rx_segments, rx_sdu, delivered>>,
           retx_queue' = retx_queue \/ retx_queue' \in RandomRetx,
           \A n \in 1..Len(pdu_list') : \E m \in 1..Len(pdu_list) : pdu_list'[n] = pdu_list[m]
    PROVE  DataInv'
  <1>0. SduStream /\ InFlight /\ QueueOk(retx_queue) /\ WindowStream
    BY DEF DataInv
  <1>1. QueueOk(retx_queue')
    BY <1>0, RandomRetxQueue
  <1>2. SduStream' /\ NextToSend' = NextToSend
    BY <1>0 DEF SduStream, Taken, NextToSend
  <1>3. \A n \in 1..Len(pdu_list') : Carries(pdu_list'[n])
    BY <1>0 DEF InFlight
  <1> QED
    BY <1>1, <1>2, <1>3, SenderStep

(* The steps that change nothing of the stream at the receiver. *)
LEMMA SenderStream ==
    ASSUME AmTypes, TxWindowContiguous, TxWindowContiguous', Numbers, Numbers', DataInv,
           \/ Write \/ PollExpires \/ PollCallback \/ Lose \/ Reordering
           \/ \E g \in Grants : Read(g)
           \/ \E room \in Rooms : GetStatus(room)
           \/ SendStatus \/ ProhibitExpires
           \/ DeliverStatus \/ DuplicateStatus \/ LoseStatus
           \/ UNCHANGED vars
    PROVE  DataInv'
  <1>1. CASE Write
    BY <1>1, WriteStream DEF Write
  <1>2. ASSUME NEW g \in Grants, Read(g) PROVE DataInv'
    <2>1. g \in Nat
      BY RlcAmAssumption
    <2> QED
      BY <1>2, <2>1, ReadStream DEF Read
  <1>3. CASE DeliverStatus
    <2>1. UNCHANGED rx_vars
      BY <1>3 DEF DeliverStatus
    <2>2. PICK n \in 1..Len(status_list) : HandleControlPdu(status_list[n])
      BY <1>3 DEF DeliverStatus
    <2> QED
      BY <2>1, <2>2, StatusStream
  <1>4. CASE DuplicateStatus
    <2>1. UNCHANGED rx_vars /\ HandleControlPdu(Head(status_list))
      BY <1>4 DEF DuplicateStatus
    <2> QED
      BY <2>1, StatusStream
  <1>5. CASE \/ PollExpires \/ Reordering \/ \E room \in Rooms : GetStatus(room)
             \/ SendStatus \/ ProhibitExpires \/ LoseStatus \/ UNCHANGED vars
    <2>1. UNCHANGED <<accepted, tx_sdu_queue, tx_sdu, tx_window, vt_s, retx_queue, pdu_list>>
      BY <1>5 DEF PollExpires, PollRetxExpires, Reordering, GetStatus, SendStatus,
                  ProhibitExpires, LoseStatus, vars, tx_vars
    <2>2. UNCHANGED <<vr_r, rx_window, rx_segments, rx_sdu, delivered>>
      BY <1>5 DEF PollExpires, Reordering, ReorderingExpired, GetStatus, GetStatusPdu,
                  SendStatus, ResetStatus, ProhibitExpires, StatusProhibitExpired,
                  LoseStatus, vars, rx_vars
    <2> QED
      BY <2>1, <2>2, QuietStream
  <1>6. CASE PollCallback
    <2>1. /\ UNCHANGED <<accepted, tx_sdu_queue, tx_sdu, tx_window, vt_s, pdu_list>>
          /\ UNCHANGED <<vr_r, rx_window, rx_segments, rx_sdu, delivered>>
      BY <1>6 DEF PollCallback, PollRetxCallback, rx_vars
    <2>2. retx_queue' = retx_queue \/ retx_queue' \in RandomRetx
      BY <1>6 DEF PollCallback, PollRetxCallback
    <2> QED
      BY <2>1, <2>2, QuietStream
  <1>7. CASE Lose
    <2>1. /\ UNCHANGED <<accepted, tx_sdu_queue, tx_sdu, tx_window, vt_s, retx_queue>>
          /\ UNCHANGED <<vr_r, rx_window, rx_segments, rx_sdu, delivered>>
          /\ pdu_list # << >> /\ pdu_list' = Tail(pdu_list)
      BY <1>7 DEF Lose, tx_own, rx_vars
    <2>2. PdusInFlight
      BY DEF AmTypes, TxTypes
    <2>3. PICK P : pdu_list \in Seq(P)
      BY <2>2 DEF PdusInFlight
    <2>4. /\ Len(pdu_list) \in Nat \ {0} /\ Len(Tail(pdu_list)) = Len(pdu_list) - 1
          /\ \A i \in 1..Len(Tail(pdu_list)) : Tail(pdu_list)[i] = pdu_list[i + 1]
      BY <2>1, <2>3, EmptySeq, LenProperties, HeadTailProperties
    <2>5. \A n \in 1..Len(pdu_list') : n + 1 \in 1..Len(pdu_list) /\ pdu_list'[n] = pdu_list[n + 1]
      BY <2>1, <2>4
    <2> QED
      BY <2>1, <2>5, QuietStream
  <1> QED
    BY <1>1, <1>2, <1>3, <1>4, <1>5, <1>6, <1>7

-----------------------------------------------------------------------------
(* Delivery in sequence *)

(* Two numbers as far from the same edge are one. *)
LEMMA SameDistance ==
    ASSUME NEW x \in SN, NEW y \in SN, NEW r \in SN, ModBase(x, r) = ModBase(y, r)
    PROVE  x = y
  <1>1. ModBase(x, r) \in 0..(MOD - 1) /\ ModBase(y, r) \in 0..(MOD - 1)
    BY ModBaseIsDistance
  <1>2. ModBase(x, y) = ModBase(x, r) - ModBase(y, r)
    BY <1>1, ModBaseShift
  <1>3. ModBase(x, y) = 0
    BY <1>1, <1>2
  <1> QED
    BY <1>3, ModBaseZero

(* The number at the distance k. *)
LEMMA NumberAtDistance ==
    ASSUME NEW r \in SN, NEW k \in 0..(MOD - 1), NEW y, y = (r + k) % MOD
    PROVE  y \in SN /\ ModBase(y, r) = k
  <1>1. y \in SN /\ y = IF r + k < MOD THEN r + k ELSE r + k - MOD
    BY PlusIsStep
  <1>2. ModBase(y, r) = IF y >= r THEN y - r ELSE y - r + MOD
    BY <1>1, ModBaseIsDistance
  <1>3. (IF y >= r THEN y - r ELSE y - r + MOD) = k
    <2>1. CASE r + k < MOD
      BY <1>1, <2>1, SnAssumption DEF SN
    <2>2. CASE ~(r + k < MOD)
      BY <1>1, <2>2, SnAssumption DEF SN
    <2> QED
      BY <2>1, <2>2
  <1> QED
    BY <1>1, <1>2, <1>3

(* Reassembly of nothing. *)
LEMMA TakeNothing ==
    ASSUME NEW base
    PROVE  FoldLeft(TakeByte, base, << >>) = base
  <1> DEFINE d == << >>
             Eq(g) == g = [s \in SUBSET (DOMAIN d) |->
                             IF s = {} THEN base
                             ELSE TakeByte(g[s \ {Max(s)}], d[Max(s)])]
             it == CHOOSE g : Eq(g)
             g0 == [s \in SUBSET (DOMAIN d) |-> base]
  <1>1. FoldLeft(TakeByte, base, d) = it[DOMAIN d]
    BY DEF FoldLeft, MapThenFoldSet
  <1>2. DOMAIN d = {}
    OBVIOUS
  <1>3. Eq(g0)
    <2>1. \A s \in SUBSET (DOMAIN d) : s = {}
      BY <1>2
    <2> QED
      BY <2>1
  <1> HIDE DEF d
  <1>4. it[{}] = base
    <2> HIDE DEF g0
    <2>1. Eq(it)
      BY <1>3
    <2> HIDE DEF it
    <2> QED
      BY <1>2, <2>1
  <1> HIDE DEF it
  <1> QED
    BY <1>1, <1>2, <1>4 DEF d

(* The numbers from r up to, and without, x. *)
LEMMA NumbersUpTo ==
    ASSUME NEW r \in SN, NEW x \in SN, NEW n, n = ModBase(x, r),
           NEW f, \A i \in 1..n : f[i] = (r + i - 1) % MOD
    PROVE  /\ n \in 0..(MOD - 1) /\ (n = 0 => x = r)
           /\ \A i \in 1..n : f[i] \in SN /\ ModBase(f[i], r) = i - 1
           /\ n # 0 => f[1] = r /\ Inc(f[n]) = x
           /\ \A i \in 1..(n - 1) : Inc(f[i]) = f[i + 1]
  <1>1. n \in 0..(MOD - 1) /\ (n = 0 => x = r)
    BY ModBaseIsDistance, ModBaseZero
  <1>2. ASSUME NEW i \in 1..n PROVE f[i] \in SN /\ ModBase(f[i], r) = i - 1
    <2> PICK k : k = i - 1
      OBVIOUS
    <2>1. k \in 0..(MOD - 1) /\ r + i - 1 = r + k
      BY <1>1, SnAssumption DEF SN
    <2>2. f[i] = (r + k) % MOD
      BY <2>1
    <2> QED
      BY <2>1, <2>2, NumberAtDistance
  <1>3. ASSUME NEW i \in 1..n PROVE Inc(f[i]) \in SN /\ (ModBase(Inc(f[i]), r) = i \/ i = MOD)
    <2> PICK y : y = f[i]
      OBVIOUS
    <2>1. y \in SN /\ ModBase(y, r) = i - 1
      BY <1>2
    <2>2. i - 1 < MOD - 1 /\ (i - 1) + 1 = i
      BY <1>1, SnAssumption
    <2> QED
      BY <2>1, <2>2, ModBaseInc, IncIsStep
  <1>4. \A i \in 1..n : i # MOD
    BY <1>1, SnAssumption
  <1>5. ASSUME n # 0 PROVE f[1] = r /\ Inc(f[n]) = x
    <2>1. 1 \in 1..n /\ n \in 1..n /\ 1 - 1 = 0
      BY <1>1, <1>5
    <2>2. ModBase(f[1], r) = 0 /\ f[1] \in SN
      BY <1>2, <2>1
    <2>3. Inc(f[n]) \in SN /\ ModBase(Inc(f[n]), r) = n
      BY <1>3, <1>4, <2>1
    <2> QED
      BY <2>2, <2>3, ModBaseZero, SameDistance
  <1>6. ASSUME NEW i \in 1..(n - 1) PROVE Inc(f[i]) = f[i + 1]
    <2>1. i \in 1..n /\ i + 1 \in 1..n /\ (i + 1) - 1 = i
      BY <1>1
    <2>2. Inc(f[i]) \in SN /\ ModBase(Inc(f[i]), r) = i
      BY <1>3, <1>4, <2>1
    <2>3. f[i + 1] \in SN /\ ModBase(f[i + 1], r) = i
      BY <1>2, <2>1
    <2> QED
      BY <2>2, <2>3, SameDistance
  <1> QED
    BY <1>1, <1>2, <1>5, <1>6

(* The next number awaited once the numbers of D have been received. *)
LEMMA NextAwaited ==
    ASSUME AmTypes, Numbers, NEW D, D \subseteq Awaited, NEW r, r = FirstNotIn(vr_r, D)
    PROVE  /\ r \in SN /\ r \in DOMAIN tx_window \cup {vt_s}
           /\ RxBase(r) \in Nat /\ RxBase(r) <= RxBase(vt_s)
           /\ \A s \in SN : RxBase(s) < RxBase(r) => s \in D
  <1>1. vr_r \in SN /\ vt_s \in SN /\ Awaited \subseteq DOMAIN tx_window
    BY DEF AmTypes, TxTypes, WindowTypes, RxInv, RxTypeOK, Numbers
  <1>2. \A s \in SN : RxBase(s) \in Nat
    BY <1>1, ModBaseIsDistance DEF RxBase
  <1>3. vt_s \in SN \ D
    BY <1>1, <1>2 DEF Awaited
  <1>4. r \in SN /\ \A z \in SN \ D : ModBase(r, vr_r) <= ModBase(z, vr_r)
    BY <1>1, <1>3, FirstNotInProperty
  <1>5. RxBase(r) \in Nat /\ RxBase(r) <= RxBase(vt_s)
    BY <1>2, <1>3, <1>4 DEF RxBase
  <1>6. ASSUME NEW s \in SN, RxBase(s) < RxBase(r) PROVE s \in D
    <2>1. ~(RxBase(r) <= RxBase(s))
      BY <1>2, <1>4, <1>6
    <2> QED
      BY <1>4, <2>1 DEF RxBase
  <1>7. r \in DOMAIN tx_window \cup {vt_s}
    <2>1. CASE RxBase(r) < RxBase(vt_s)
      BY <1>1, <1>4, <2>1 DEF Awaited
    <2>2. CASE RxBase(r) = RxBase(vt_s)
      <3>1. ModBase(r, vr_r) = ModBase(vt_s, vr_r)
        BY <2>2 DEF RxBase
      <3> QED
        BY <1>1, <1>4, <3>1, SameDistance
    <2> QED
      BY <1>1, <1>2, <1>5, <2>1, <2>2
  <1> QED
    BY <1>4, <1>5, <1>6, <1>7

(* What the receiver reassembles when it moves on to r is the stream up to r. *)
LEMMA InSequence ==
    ASSUME AmTypes, Numbers, WindowStream, RxStream,
           NEW win, DOMAIN win \subseteq Awaited, \A s \in DOMAIN win : win[s] = PduData(s),
           NEW r, r = FirstNotIn(vr_r, DOMAIN win)
    PROVE  FoldLeft(TakeByte, [sdu |-> rx_sdu, out |-> delivered], InSequenceBytes(win, r))
              = Before(FirstOf(r))
  <1> PICK n, D, base : n = RxBase(r) /\ D = DOMAIN win /\ base = [sdu |-> rx_sdu, out |-> delivered]
    OBVIOUS
  <1>f. PICK f : f = [i \in 1..n |-> (vr_r + i - 1) % MOD]
    OBVIOUS
  <1>s. PICK seqs : seqs = [i \in 1..n |-> win[f[i]]]
    OBVIOUS
  <1>0. vr_r \in SN /\ r \in SN /\ \A s \in SN : RxBase(s) < n => s \in D
    <2>1. r \in SN /\ \A s \in SN : RxBase(s) < RxBase(r) => s \in D
      BY NextAwaited
    <2> QED
      BY <2>1 DEF AmTypes, RxInv, RxTypeOK
  <1>1. base = Before(FirstOf(vr_r))
    BY DEF RxStream
  <1>2. InSequenceBytes(win, r) = FlattenSeq(seqs)
    <2>1. seqs = [i \in 1..RxBase(r) |-> win[(vr_r + i - 1) % MOD]]
      BY <1>f, <1>s
    <2> QED
      BY <2>1 DEF InSequenceBytes
  <1>3. /\ n \in 0..(MOD - 1) /\ (n = 0 => r = vr_r)
        /\ \A i \in 1..n : f[i] \in SN /\ ModBase(f[i], vr_r) = i - 1
        /\ n # 0 => f[1] = vr_r /\ Inc(f[n]) = r
        /\ \A i \in 1..(n - 1) : Inc(f[i]) = f[i + 1]
    <2>1. n = ModBase(r, vr_r)
      BY DEF RxBase
    <2>2. \A i \in 1..n : f[i] = (vr_r + i - 1) % MOD
      BY <1>f
    <2>3. vr_r \in SN /\ r \in SN
      BY <1>0
    <2> QED
      BY <2>1, <2>2, <2>3, NumbersUpTo
  <1>4. CASE n = 0
    <2>1. seqs = << >>
      BY <1>s, <1>4
    <2>2. FlattenSeq(seqs) = << >>
      BY <2>1 DEF FlattenSeq, FoldLeft, MapThenFoldSet
    <2>3. FoldLeft(TakeByte, base, << >>) = base
      BY TakeNothing
    <2> QED
      BY <1>1, <1>2, <1>3, <1>4, <2>2, <2>3
  <1>5. CASE n # 0
    <2>1. \A i \in 1..n : /\ f[i] \in D /\ f[i] \in DOMAIN tx_window /\ f[i] # vt_s
                          /\ seqs[i] = PduData(f[i]) /\ Run(seqs[i])
                          /\ NextOf(seqs[i]) = FirstOf(Inc(f[i])) /\ seqs[i][1] = FirstOf(f[i])
      <3> TAKE i \in 1..n
      <3>1. f[i] \in D
        <4>1. f[i] \in SN /\ RxBase(f[i]) = i - 1 /\ i - 1 < n
          BY <1>3 DEF RxBase
        <4> QED
          BY <1>0, <4>1
      <3>2. f[i] \in DOMAIN tx_window /\ f[i] # vt_s
        BY <3>1 DEF Numbers, OneAfterTheOther
      <3>3. seqs[i] = win[f[i]]
        BY <1>s
      <3>4. seqs[i] = PduData(f[i])
        BY <3>1, <3>3
      <3>5. Run(PduData(f[i])) /\ NextOf(PduData(f[i])) = FirstOf(Inc(f[i]))
        BY <3>2 DEF WindowStream
      <3>6. FirstOf(f[i]) = PduData(f[i])[1]
        BY <3>2 DEF FirstOf
      <3> QED
        BY <3>1, <3>2, <3>4, <3>5, <3>6
    <2>2. seqs \in Seq(Seq(SduByte)) /\ Len(seqs) = n
      <3>1. \A i \in 1..n : win[f[i]] \in Seq(SduByte)
        <4> TAKE i \in 1..n
        <4>1. seqs[i] \in Seq(SduByte)
          BY <2>1 DEF Run
        <4>2. seqs[i] = win[f[i]]
          BY <1>s
        <4> QED
          BY <4>1, <4>2
      <3>2. n \in Nat
        BY <1>3
      <3>3. seqs \in [1..n -> Seq(SduByte)]
        BY <1>s, <3>1
      <3> QED
        BY <3>2, <3>3
    <2>3. seqs # << >>
      BY <1>5, <2>2, EmptySeq
    <2>4. \A i \in 1..(Len(seqs) - 1) : seqs[i + 1][1] = NextOf(seqs[i])
      <3> TAKE i \in 1..(Len(seqs) - 1)
      <3>1. i \in 1..(n - 1) /\ i \in 1..n /\ i + 1 \in 1..n
        BY <1>3, <2>2
      <3>2. seqs[i + 1][1] = FirstOf(f[i + 1]) /\ NextOf(seqs[i]) = FirstOf(Inc(f[i]))
        BY <2>1, <3>1
      <3>3. Inc(f[i]) = f[i + 1]
        BY <1>3, <3>1
      <3> QED
        BY <3>2, <3>3
    <2> PICK all : all = FlattenSeq(seqs)
      OBVIOUS
    <2>5. Run(all) /\ all[1] = seqs[1][1] /\ NextOf(all) = NextOf(seqs[n])
      <3>1. \A i \in 1..Len(seqs) : Run(seqs[i])
        BY <2>1, <2>2
      <3>2. Run(all) /\ all[1] = seqs[1][1] /\ NextOf(all) = NextOf(seqs[Len(seqs)])
        BY <2>2, <2>3, <2>4, <3>1, FlattenRuns
      <3> QED
        BY <2>2, <3>2
    <2>6. all[1] = FirstOf(vr_r) /\ NextOf(all) = FirstOf(r)
      <3>1. 1 \in 1..n /\ n \in 1..n
        BY <1>3, <1>5
      <3>2. seqs[1][1] = FirstOf(f[1]) /\ NextOf(seqs[n]) = FirstOf(Inc(f[n]))
        BY <2>1, <3>1
      <3> QED
        BY <1>3, <1>5, <2>5, <3>2
    <2>7. FoldLeft(TakeByte, Before(all[1]), all) = Before(NextOf(all))
      BY <2>5, TakeRun
    <2> QED
      BY <1>1, <1>2, <2>6, <2>7
  <1> QED
    BY <1>4, <1>5

(* Parts of PDUs that are awaited. *)
PartsOk(segs) ==
    \A s \in DOMAIN segs : \A x \in segs[s] : s \in Awaited /\ PartOf(x, PduData(s))

\* The sender's part of the state stays.
SenderKept == UNCHANGED <<accepted, tx_sdu_queue, tx_sdu, tx_window, vt_s>>

\* The receiver's lower edge does not pass what was sent.
Onward == vr_r' \in SN /\ RxBase(vr_r') <= RxBase(vt_s)

(* The receiver holds on to what it has, and does not move. *)
LEMMA StillHeld ==
    ASSUME AmTypes, DataInv, SenderKept, vr_r' = vr_r, NEW segs, PartsOk(segs), rx_segments' = segs,
           \A s \in DOMAIN rx_window' : rx_window'[s] = PduData(s),
           UNCHANGED <<rx_sdu, delivered>>
    PROVE  RxStream' /\ Held' /\ Onward
  <1>1. RxStream'
    <2>1. RxStream
      BY DEF DataInv
    <2>2. FirstOf(vr_r)' = FirstOf(vr_r)
      BY DEF SenderKept, FirstOf, PduData, NextToSend, Taken
    <2> QED
      BY <2>1, <2>2 DEF RxStream
  <1>2. Awaited' = Awaited
    BY DEF Awaited, RxBase, SenderKept
  <1>3. \A s : PduData(s)' = PduData(s)
    BY DEF PduData, SenderKept
  <1>4. \A s \in DOMAIN rx_segments' : \A x \in rx_segments'[s] : s \in Awaited' /\ PartOf(x, PduData(s)')
    BY <1>2, <1>3 DEF PartsOk
  <1>5. \A s \in DOMAIN rx_window' : rx_window'[s] = PduData(s)'
    BY <1>3
  <1>6. Onward
    <2>1. vr_r \in SN /\ vt_s \in SN
      BY DEF AmTypes, TxTypes, WindowTypes, RxInv, RxTypeOK
    <2>2. ModBase(vr_r, vr_r) = 0 /\ ModBase(vt_s, vr_r) \in Nat
      BY <2>1, ModBaseZero, ModBaseIsDistance
    <2> QED
      BY <2>1, <2>2 DEF Onward, RxBase
  <1> QED
    BY <1>1, <1>4, <1>5, <1>6 DEF Held

(* What is awaited once the receiver has moved on to r. *)
LEMMA AwaitedAfter ==
    ASSUME AmTypes, NEW r \in SN, RxBase(r) <= RxBase(vt_s), vr_r' = r, vt_s' = vt_s,
           NEW s \in Awaited, ~(RxBase(s) < RxBase(r))
    PROVE  s \in Awaited'
  <1>1. vr_r \in SN /\ vt_s \in SN /\ s \in SN /\ RxBase(s) < RxBase(vt_s)
    BY DEF AmTypes, TxTypes, WindowTypes, RxInv, RxTypeOK, Awaited
  <1> PICK a, b, c : a = ModBase(s, vr_r) /\ b = ModBase(r, vr_r) /\ c = ModBase(vt_s, vr_r)
    OBVIOUS
  <1>2. a \in Nat /\ b \in Nat /\ c \in Nat
    BY <1>1, ModBaseIsDistance
  <1>3. a >= b /\ c >= b /\ a < c
    BY <1>1, <1>2 DEF RxBase
  <1>4. ModBase(s, r) = a - b /\ ModBase(vt_s, r) = c - b
    BY <1>1, <1>3, ModBaseShift
  <1>5. ModBase(s, r) < ModBase(vt_s, r)
    <2>1. a - b < c - b
      BY <1>2, <1>3
    <2> QED
      BY <1>4, <2>1
  <1> QED
    BY <1>1, <1>5 DEF Awaited, RxBase

(* handle_data_pdu with the bytes of the PDU that has the number. *)
LEMMA DataPduStream ==
    ASSUME AmTypes, Numbers, DataInv, SenderKept,
           NEW sn \in SN, NEW p, NEW data, NEW segs, NEW status, PartsOk(segs),
           RxBase(sn) < RLC_AM_WINDOW_SIZE => sn \in Awaited /\ data = PduData(sn),
           HandleDataPdu(sn, p, data, segs, status)
    PROVE  RxStream' /\ Held' /\ Onward
  <1>0. WindowStream /\ RxStream /\ \A s \in DOMAIN rx_window : rx_window[s] = PduData(s)
    BY DEF DataInv, Held
  <1>1. CASE ~InsideRxWindow(sn, vr_r, vr_mr) \/ sn \in DOMAIN rx_window
    <2>1. /\ rx_segments' = segs /\ vr_r' = vr_r /\ UNCHANGED <<rx_window, rx_sdu, delivered>>
      BY <1>1 DEF HandleDataPdu
    <2> QED
      BY <1>0, <2>1, StillHeld
  <1>2. CASE InsideRxWindow(sn, vr_r, vr_mr) /\ sn \notin DOMAIN rx_window
    <2> PICK D : D = DOMAIN rx_window \cup {sn}
      OBVIOUS
    <2>w. PICK win : win = [s \in D |-> IF s = sn THEN data ELSE rx_window[s]]
      OBVIOUS
    <2>r. PICK r : r = FirstNotIn(vr_r, D)
      OBVIOUS
    <2>t. PICK taken : taken = {s \in D : RxBase(s) < RxBase(r)}
      OBVIOUS
    <2>1. DOMAIN win = D
      BY <2>w
    <2>2. /\ vr_r' = r
          /\ rx_window' = [s \in D \ taken |-> win[s]]
          /\ rx_segments' = [s \in DOMAIN segs |-> IF s \in taken THEN {} ELSE segs[s]]
          /\ rx_sdu' = FoldLeft(TakeByte, [sdu |-> rx_sdu, out |-> delivered],
                                InSequenceBytes(win, r)).sdu
          /\ delivered' = FoldLeft(TakeByte, [sdu |-> rx_sdu, out |-> delivered],
                                   InSequenceBytes(win, r)).out
      BY <1>2, <2>1, <2>w, <2>r, <2>t DEF HandleDataPdu
    <2>3. RxInv /\ sn \in Awaited /\ data = PduData(sn)
      BY <1>2, InsideIsNear DEF AmTypes
    <2>4. D \subseteq Awaited
      BY <2>3, HeldIsAwaited
    <2>5. \A s \in D : win[s] = PduData(s)
      BY <1>0, <2>3, <2>w
    <2>6. /\ r \in SN /\ RxBase(r) \in Nat /\ RxBase(r) <= RxBase(vt_s)
          /\ \A s \in SN : RxBase(s) < RxBase(r) => s \in D
      BY <2>4, <2>r, NextAwaited
    <2>7. FoldLeft(TakeByte, [sdu |-> rx_sdu, out |-> delivered], InSequenceBytes(win, r))
             = Before(FirstOf(r))
      BY <1>0, <2>1, <2>4, <2>5, <2>r, InSequence
    <2>8. RxStream'
      <3>1. rx_sdu' = Before(FirstOf(r)).sdu /\ delivered' = Before(FirstOf(r)).out
        BY <2>2, <2>7
      <3>2. FirstOf(vr_r)' = FirstOf(r)
        BY <2>2 DEF SenderKept, FirstOf, PduData, NextToSend, Taken
      <3>3. \A e : [sdu |-> Before(e).sdu, out |-> Before(e).out] = Before(e)
        BY DEF Before
      <3> QED
        BY <3>1, <3>2, <3>3 DEF RxStream
    <2>9. \A s : PduData(s)' = PduData(s)
      BY DEF PduData, SenderKept
    <2>10. \A s \in DOMAIN rx_window' : rx_window'[s] = PduData(s)'
      BY <2>2, <2>5, <2>9
    <2>11. ASSUME NEW s \in DOMAIN rx_segments', NEW x \in rx_segments'[s]
           PROVE  s \in Awaited' /\ PartOf(x, PduData(s)')
      <3>1. s \in DOMAIN segs /\ s \notin taken /\ x \in segs[s]
        BY <2>2, <2>11
      <3>2. s \in Awaited /\ PartOf(x, PduData(s))
        BY <3>1 DEF PartsOk
      <3>3. ~(RxBase(s) < RxBase(r))
        BY <2>6, <2>t, <3>1, <3>2 DEF Awaited
      <3>4. s \in Awaited'
        BY <2>2, <2>6, <3>2, <3>3, AwaitedAfter DEF SenderKept
      <3> QED
        BY <2>9, <3>2, <3>4
    <2>12. Onward
      BY <2>2, <2>6 DEF Onward
    <2> QED
      BY <2>8, <2>10, <2>11, <2>12 DEF Held
  <1> QED
    BY <1>1, <1>2

-----------------------------------------------------------------------------
(* PDU segments *)

(* Where a part lies in its PDU. *)
LEMMA PartSpan ==
    ASSUME NEW d, Len(d) \in Nat, NEW x, PartOf(x, d)
    PROVE  /\ x.so \in Nat /\ SegEnd(x) \in Nat /\ x.so < SegEnd(x) /\ SegEnd(x) <= Len(d)
           /\ x.lsf <=> SegEnd(x) = Len(d)
           /\ \A k \in Nat : x.so < k /\ k <= SegEnd(x) => x.data[k - x.so] = d[k]
  <1> PICK a, l : a = x.so /\ l = Len(x.data)
    OBVIOUS
  <1>1. /\ a \in Nat /\ l \in Nat \ {0} /\ a + l <= Len(d)
        /\ x.lsf <=> a + l = Len(d)
        /\ \A k \in 1..l : x.data[k] = d[a + k]
    BY EmptySeq, LenProperties DEF PartOf
  <1>2. SegEnd(x) = a + l
    BY DEF SegEnd
  <1>3. ASSUME NEW k \in Nat, a < k, k <= a + l PROVE x.data[k - a] = d[k]
    <2>1. k - a \in 1..l /\ a + (k - a) = k
      BY <1>1, <1>3
    <2> QED
      BY <1>1, <2>1
  <1>4. a + l \in Nat /\ a < a + l
    BY <1>1
  <1> QED
    BY <1>1, <1>2, <1>3, <1>4

(* When the segments are complete, the PDU they make up is the one they are parts of. *)
LEMMA FullPduIs ==
    ASSUME NEW d, Run(d), NEW S, \A t \in S : PartOf(t, d), Complete(S)
    PROVE  FullPdu(S) = d
  <1> PICK n : n = Len(d)
    OBVIOUS
  <1>0. n \in Nat /\ d \in Seq(SduByte) /\ d = [k \in 1..n |-> d[k]]
    <2>1. n \in Nat /\ d \in Seq(SduByte)
      BY RunTypes
    <2> QED
      BY <2>1
  <1>1. \A t \in S : /\ t.so \in Nat /\ SegEnd(t) \in Nat /\ t.so < SegEnd(t) /\ SegEnd(t) <= n
                     /\ t.lsf <=> SegEnd(t) = n
                     /\ \A k \in Nat : t.so < k /\ k <= SegEnd(t) => t.data[k - t.so] = d[k]
    BY <1>0, PartSpan
  <1>2. PICK e \in S : SegEnd(e) = n
    BY <1>1 DEF Complete, Kept
  <1> DEFINE last == CHOOSE s \in S : \A t \in S : SegEnd(t) <= SegEnd(s)
             Has(s, k) == s.so < k /\ k <= SegEnd(s)
             IsFirst(s, k) == s \in S /\ Has(s, k) /\ \A t \in S : Has(t, k) => s.so <= t.so
             first(k) == CHOOSE s \in S : Has(s, k) /\ \A t \in S : Has(t, k) => s.so <= t.so
  <1>3. SegEnd(last) = n
    <2>1. \E s \in S : \A t \in S : SegEnd(t) <= SegEnd(s)
      BY <1>1, <1>2
    <2>2. last \in S /\ \A t \in S : SegEnd(t) <= SegEnd(last)
      BY <2>1
    <2>3. n <= SegEnd(last) /\ SegEnd(last) <= n /\ SegEnd(last) \in Nat
      BY <1>1, <1>2, <2>2
    <2> QED
      BY <1>0, <2>3
  <1>4. ASSUME NEW k \in 1..n PROVE \E s \in S : Has(s, k)
    <2> DEFINE B == {t.so : t \in {u \in S : k <= SegEnd(u)}}
    <2>1. B \in SUBSET Nat /\ B # {}
      BY <1>1, <1>2
    <2>2. PICK b \in B : \A c \in B : b <= c
      BY <2>1, LeastOfNaturals
    <2>3. PICK t \in S : k <= SegEnd(t) /\ b = t.so
      BY <2>2
    <2>4. \A u \in S : k <= SegEnd(u) => t.so <= u.so
      BY <2>2, <2>3
    <2> HIDE DEF B
    <2>5. SUFFICES ASSUME ~(t.so < k) PROVE FALSE
      BY <2>3
    <2>6. k <= t.so /\ t.so # 0 /\ t.so <= t.so
      BY <1>0, <1>1, <2>5
    <2>7. Reached(S, t)
      BY DEF Complete
    <2>8. PICK u \in S : u.so < t.so /\ SegEnd(u) >= t.so
      BY <2>6, <2>7 DEF Reached
    <2>9. k <= SegEnd(u)
      <3>1. SegEnd(u) \in Nat /\ t.so \in Nat /\ k \in Nat
        BY <1>1
      <3> QED
        BY <2>6, <2>8, <3>1
    <2>10. t.so <= u.so /\ u.so \in Nat /\ t.so \in Nat
      BY <1>1, <2>4, <2>9
    <2> QED
      BY <2>8, <2>10
  <1>5. ASSUME NEW k \in 1..n PROVE first(k).data[k - first(k).so] = d[k]
    <2> DEFINE B == {t.so : t \in {u \in S : Has(u, k)}}
    <2>1. B \in SUBSET Nat /\ B # {}
      BY <1>1, <1>4
    <2>2. PICK b \in B : \A c \in B : b <= c
      BY <2>1, LeastOfNaturals
    <2>3. PICK s \in S : Has(s, k) /\ b = s.so
      BY <2>2
    <2>4. \A t \in S : Has(t, k) => s.so <= t.so
      BY <2>2, <2>3
    <2>5. first(k) \in S /\ Has(first(k), k)
      BY <2>3, <2>4
    <2> HIDE DEF first
    <2> QED
      BY <1>1, <2>5
  <1>6. FullPdu(S) = [k \in 1..SegEnd(last) |-> first(k).data[k - first(k).so]]
    BY DEF FullPdu
  <1> HIDE DEF last, first
  <1> QED
    BY <1>0, <1>3, <1>5, <1>6

(* handle_data_pdu_segment with a part of the PDU that has the number. *)
LEMMA SegmentStream ==
    ASSUME AmTypes, Numbers, DataInv, SenderKept, NEW pdu, pdu.sn \in SN,
           RxBase(pdu.sn) < RLC_AM_WINDOW_SIZE =>
               pdu.sn \in Awaited /\ PartOf(pdu, PduData(pdu.sn)),
           HandleDataPduSegment(pdu)
    PROVE  RxStream' /\ Held' /\ Onward
  <1> PICK sn, seg : sn = pdu.sn /\ seg = [so |-> pdu.so, data |-> pdu.data, lsf |-> pdu.lsf]
    OBVIOUS
  <1> PICK all : all = Insert(rx_segments[sn], seg)
    OBVIOUS
  <1>0. PartsOk(rx_segments) /\ WindowStream /\ \A s \in DOMAIN rx_window : rx_window[s] = PduData(s)
    BY DEF DataInv, Held, PartsOk
  <1>1. CASE /\ ~InsideRxWindow(sn, vr_r, vr_mr)
             /\ UNCHANGED <<vr_r, rx_window, rx_segments, rx_sdu, delivered>>
    BY <1>0, <1>1, StillHeld
  <1>2. CASE InsideRxWindow(sn, vr_r, vr_mr)
    <2>1. sn \in Awaited /\ PartOf(pdu, PduData(sn)) /\ RxBase(sn) < RLC_AM_WINDOW_SIZE
      BY <1>2, InsideIsNear DEF AmTypes
    <2>2. PartOf(seg, PduData(sn))
      <3>1. seg.so = pdu.so /\ seg.data = pdu.data /\ (seg.lsf <=> pdu.lsf)
        OBVIOUS
      <3> QED
        BY <2>1, <3>1 DEF PartOf
    <2>3. Run(PduData(sn))
      BY <1>0, <2>1 DEF Numbers, WindowStream
    <2>4. ASSUME sn \in DOMAIN rx_segments PROVE \A t \in all : PartOf(t, PduData(sn))
      <3>1. \A t \in rx_segments[sn] : PartOf(t, PduData(sn))
        BY <1>0, <2>4 DEF PartsOk
      <3>2. all \subseteq rx_segments[sn] \cup {seg}
        BY DEF Insert
      <3> QED
        BY <2>2, <3>1, <3>2
    <2>5. CASE /\ sn \in DOMAIN rx_segments /\ Complete(all)
               /\ HandleDataPdu(sn, FALSE, FullPdu(all),
                     [s \in DOMAIN rx_segments \ {sn} |-> rx_segments[s]], do_status \/ pdu.p)
      <3>1. FullPdu(all) = PduData(sn)
        BY <2>3, <2>4, <2>5, FullPduIs
      <3> PICK segs : segs = [s \in DOMAIN rx_segments \ {sn} |-> rx_segments[s]]
        OBVIOUS
      <3>2. PartsOk(segs)
        BY <1>0 DEF PartsOk
      <3>3. HandleDataPdu(sn, FALSE, PduData(sn), segs, do_status \/ pdu.p)
        BY <2>5, <3>1
      <3>4. sn \in SN
        OBVIOUS
      <3> QED
        BY <2>1, <3>2, <3>3, <3>4, DataPduStream
    <2>6. CASE /\ sn \in DOMAIN rx_segments
               /\ rx_segments' = [rx_segments EXCEPT ![sn] = Kept(all)]
               /\ UNCHANGED <<vr_r, rx_window, rx_sdu, delivered>>
      <3> PICK segs : segs = rx_segments'
        OBVIOUS
      <3>1. DOMAIN segs = DOMAIN rx_segments /\ segs[sn] = Kept(all)
            /\ \A s \in DOMAIN rx_segments : s # sn => segs[s] = rx_segments[s]
        BY <2>6
      <3>2. Kept(all) \subseteq all
        BY DEF Kept
      <3>3. PartsOk(segs)
        BY <1>0, <2>1, <2>4, <2>6, <3>1, <3>2 DEF PartsOk
      <3> QED
        BY <1>0, <2>6, <3>3, StillHeld
    <2>7. CASE /\ rx_segments' = [s \in DOMAIN rx_segments \cup {sn} |->
                                     IF s = sn THEN {seg} ELSE rx_segments[s]]
               /\ UNCHANGED <<vr_r, rx_window, rx_sdu, delivered>>
      <3> PICK segs : segs = rx_segments'
        OBVIOUS
      <3>1. DOMAIN segs = DOMAIN rx_segments \cup {sn} /\ segs[sn] = {seg}
            /\ \A s \in DOMAIN rx_segments : s # sn => segs[s] = rx_segments[s]
        BY <2>7
      <3>2. PartsOk(segs)
        BY <1>0, <2>1, <2>2, <3>1 DEF PartsOk
      <3> QED
        BY <1>0, <2>7, <3>2, StillHeld
    <2> QED
      BY <1>2, <2>5, <2>6, <2>7 DEF HandleDataPduSegment
  <1> QED
    BY <1>1, <1>2 DEF HandleDataPduSegment

(* A data PDU that arrives. *)
LEMMA ArrivalStream ==
    ASSUME AmTypes, Numbers, DataInv, SenderKept,
           NEW n \in 1..Len(pdu_list), RxWritePdu(pdu_list[n])
    PROVE  RxStream' /\ Held' /\ Onward
  <1> PICK pdu : pdu = pdu_list[n]
    OBVIOUS
  <1>1. pdu.sn \in SN
    BY InFlightTypes DEF AmTypes, TxTypes
  <1>2. RxBase(pdu.sn) < RLC_AM_WINDOW_SIZE => pdu.sn \in Awaited /\ pdu.sn \in DOMAIN tx_window
    BY DEF Numbers
  <1>3. Carries(pdu)
    BY DEF DataInv, InFlight
  <1>4. RxWritePdu(pdu)
    OBVIOUS
  <1>5. CASE pdu.rf
    <2>1. HandleDataPduSegment(pdu)
      BY <1>4, <1>5 DEF RxWritePdu
    <2>2. RxBase(pdu.sn) < RLC_AM_WINDOW_SIZE => pdu.sn \in Awaited /\ PartOf(pdu, PduData(pdu.sn))
      BY <1>2, <1>3, <1>5 DEF Carries
    <2> QED
      BY <1>1, <2>1, <2>2, SegmentStream
  <1>6. CASE ~pdu.rf
    <2>1. HandleDataPdu(pdu.sn, pdu.p, pdu.data, rx_segments, do_status)
      BY <1>4, <1>6 DEF RxWritePdu
    <2>2. RxBase(pdu.sn) < RLC_AM_WINDOW_SIZE => pdu.sn \in Awaited /\ pdu.data = PduData(pdu.sn)
      BY <1>2, <1>3, <1>6 DEF Carries
    <2>3. PartsOk(rx_segments)
      BY DEF DataInv, Held, PartsOk
    <2> QED
      BY <1>1, <2>1, <2>2, <2>3, DataPduStream
  <1> QED
    BY <1>5, <1>6

(* An arrival keeps the stream, the sender and the order of the edges. *)
LEMMA DeliveryStream ==
    ASSUME AmTypes, Numbers, Numbers', DataInv, Deliver \/ Duplicate \/ Overtake
    PROVE  DataInv' /\ SenderKept /\ Onward
  <1>0. PICK P : pdu_list \in Seq(P)
    BY DEF AmTypes, TxTypes, PdusInFlight
  <1>1. /\ Len(pdu_list) \in Nat
        /\ pdu_list # << >> => /\ Len(pdu_list) # 0 /\ Head(pdu_list) = pdu_list[1]
                               /\ Len(Tail(pdu_list)) = Len(pdu_list) - 1
                               /\ \A i \in 1..(Len(pdu_list) - 1) : Tail(pdu_list)[i] = pdu_list[i + 1]
    BY <1>0, EmptySeq, LenProperties, HeadTailProperties
  <1>2. UNCHANGED tx_own
    BY DEF Deliver, Duplicate, Overtake, tx_vars, tx_own
  <1>3. SenderKept /\ retx_queue' = retx_queue
    BY <1>2 DEF tx_own, SenderKept
  <1>4. RxStream' /\ Held' /\ Onward
    <2>1. CASE Deliver
      <3>1. 1 \in 1..Len(pdu_list) /\ RxWritePdu(pdu_list[1])
        BY <1>1, <2>1 DEF Deliver
      <3> QED
        BY <1>3, <3>1, ArrivalStream
    <2>2. CASE Duplicate
      <3>1. 1 \in 1..Len(pdu_list) /\ RxWritePdu(pdu_list[1])
        BY <1>1, <2>2 DEF Duplicate
      <3> QED
        BY <1>3, <3>1, ArrivalStream
    <2>3. CASE Overtake
      <3>1. 2 \in 1..Len(pdu_list) /\ RxWritePdu(pdu_list[2])
        BY <1>1, <2>3 DEF Overtake
      <3> QED
        BY <1>3, <3>1, ArrivalStream
    <2> QED
      BY <2>1, <2>2, <2>3
  <1>5. \A n \in 1..Len(pdu_list') : \E m \in 1..Len(pdu_list) : pdu_list'[n] = pdu_list[m]
    <2>1. CASE Deliver
      <3>1. pdu_list # << >> /\ pdu_list' = Tail(pdu_list)
        BY <2>1 DEF Deliver
      <3>2. \A n \in 1..Len(pdu_list') : n + 1 \in 1..Len(pdu_list) /\ pdu_list'[n] = pdu_list[n + 1]
        BY <1>1, <3>1
      <3> QED
        BY <3>2
    <2>2. CASE Duplicate
      BY <2>2 DEF Duplicate, tx_vars
    <2>3. CASE Overtake
      <3>1. 2 \in 1..Len(pdu_list) /\ pdu_list' = RemoveAt(pdu_list, 2)
        BY <1>1, <2>3 DEF Overtake
      <3>2. /\ Len(pdu_list') = Len(pdu_list) - 1
            /\ \A i \in 1..(Len(pdu_list) - 1) :
                  pdu_list'[i] = IF i < 2 THEN pdu_list[i] ELSE pdu_list[i + 1]
        BY <1>0, <3>1, RemoveAtProperties
      <3>3. \A n \in 1..Len(pdu_list') : /\ n \in 1..Len(pdu_list) /\ n + 1 \in 1..Len(pdu_list)
                                         /\ n \in 1..(Len(pdu_list) - 1)
        BY <1>1, <3>2
      <3> QED
        BY <3>2, <3>3
    <2> QED
      BY <2>1, <2>2, <2>3
  <1>6. SduStream' /\ NextToSend' = NextToSend
    BY <1>3 DEF DataInv, SduStream, Taken, NextToSend, SenderKept
  <1>7. /\ WindowStream'
        /\ \A pdu : Carries(pdu) => Carries(pdu)'
        /\ \A q : QueueOk(q) => QueueOk(q)'
    <2>1. WindowStream /\ OneAfterTheOther' /\ vt_s' = vt_s /\ tx_window' = tx_window
      BY <1>3 DEF DataInv, Numbers, SenderKept
    <2> QED
      BY <1>6, <2>1, StreamKept
  <1>8. InFlight'
    <2> SUFFICES ASSUME NEW n \in 1..Len(pdu_list') PROVE Carries(pdu_list[n])'
      BY DEF InFlight
    <2> PICK pdu : pdu = pdu_list'[n]
      OBVIOUS
    <2>1. Carries(pdu)
      BY <1>5 DEF DataInv, InFlight
    <2>2. Carries(pdu)'
      BY <1>7, <2>1
    <2> QED
      BY <2>2 DEF Carries
  <1>9. QueueOk(retx_queue)'
    <2> PICK q : q = retx_queue
      OBVIOUS
    <2>1. QueueOk(q)'
      BY <1>7 DEF DataInv
    <2> QED
      BY <1>3, <2>1 DEF QueueOk
  <1> QED
    BY <1>3, <1>4, <1>6, <1>7, <1>8, <1>9 DEF DataInv

-----------------------------------------------------------------------------
(* The data of both entities, together *)

(* The stream at the start: nothing is sent, nothing is held. *)
LEMMA DataInit ==
    ASSUME Init
    PROVE  DataInv
  <1>1. /\ accepted = 0 /\ tx_sdu_queue = << >> /\ tx_sdu = << >> /\ tx_window = << >>
        /\ retx_queue = << >> /\ vt_s = 0 /\ pdu_list = << >>
        /\ vr_r = 0 /\ rx_window = << >> /\ rx_segments = << >> /\ rx_sdu = << >>
        /\ delivered = << >>
    BY DEF Init, TxInit, RxInit
  <1>2. Taken = 0
    <2>1. Len(tx_sdu_queue) = 0 /\ accepted = 0
      BY <1>1
    <2>2. accepted - Len(tx_sdu_queue) = 0
      BY <2>1
    <2> QED
      BY <2>2 DEF Taken
  <1>3. SduStream
    BY <1>1, <1>2 DEF SduStream
  <1>4. RxStream
    <2>1. FirstOf(vr_r) = <<1, 1>>
      BY <1>1, <1>2 DEF FirstOf, NextToSend
    <2>2. Before(<<1, 1>>) = [sdu |-> << >>, out |-> << >>]
      BY DEF Before
    <2> QED
      BY <1>1, <2>1, <2>2 DEF RxStream
  <1>5. WindowStream /\ InFlight /\ Held /\ QueueOk(retx_queue)
    BY <1>1 DEF WindowStream, InFlight, Held, QueueOk
  <1> QED
    BY <1>3, <1>4, <1>5 DEF DataInv

(* Every step keeps the stream. *)
LEMMA DataStep ==
    ASSUME AmTypes, TxWindowContiguous, TxWindowContiguous', Numbers, Numbers', DataInv,
           [Next]_vars
    PROVE  DataInv'
  BY SenderStream, DeliveryStream DEF Next

(* Where a byte of an accepted SDU is. *)
LEMMA WaitingHas ==
    ASSUME TxTypes, SduStream, NEW b \in SduByte, b[1] <= accepted, ~Precedes(b, NextToSend)
    PROVE  b \in AtTransmitter
  <1> PICK l : l = Len(tx_sdu_queue)
    OBVIOUS
  <1>0. /\ l \in Nat /\ accepted \in Nat /\ Taken \in Nat /\ Taken + l = accepted
        /\ \A i \in 1..l : tx_sdu_queue[i] = Taken + i
    BY QueueIs
  <1>1. PICK id \in 1..MaxSdus, k \in 1..SduLen : b = <<id, k>>
    BY DEF SduByte
  <1>2. b[1] = id /\ b[2] = k /\ id \in Nat /\ k \in Nat
    BY <1>1
  <1>3. CASE id > Taken
    <2>1. id - Taken \in 1..l /\ Taken + (id - Taken) = id
      BY <1>0, <1>2, <1>3
    <2>2. tx_sdu_queue[id - Taken] = id
      BY <1>0, <2>1
    <2>3. b \in BytesIn(SduBytes(id))
      <3>1. Len(SduBytes(id)) = SduLen /\ SduBytes(id)[k] = <<id, k>>
        BY SduBytesType
      <3> QED
        BY <1>1, <3>1 DEF BytesIn
    <2> QED
      BY <2>1, <2>2, <2>3 DEF AtTransmitter
  <1>4. CASE ~(id > Taken)
    <2>1. Precedes(b, <<Taken + 1, 1>>)
      <3>1. id < Taken + 1
        BY <1>0, <1>2, <1>4
      <3> QED
        BY <1>2, <3>1 DEF Precedes
    <2>2. tx_sdu # << >>
      BY <2>1 DEF NextToSend
    <2>3. Run(tx_sdu) /\ NextOf(tx_sdu) = <<Taken + 1, 1>> /\ NextToSend = tx_sdu[1]
      BY <2>2 DEF SduStream, NextToSend
    <2>4. b \in BytesIn(tx_sdu)
      BY <2>1, <2>3, RunCovers
    <2> QED
      BY <2>4 DEF AtTransmitter
  <1> QED
    BY <1>3, <1>4

(* The bytes before the receiver's edge are in reassembly or handed over. *)
LEMMA ReceiverHas ==
    ASSUME RxStream, NEW b \in SduByte, Precedes(b, FirstOf(vr_r)),
           FirstOf(vr_r)[1] \in Nat, FirstOf(vr_r)[2] \in Nat
    PROVE  b \in AtReceiver
  <1>1. PICK id \in 1..MaxSdus, k \in 1..SduLen : b = <<id, k>>
    BY DEF SduByte
  <1> PICK i, j : i = FirstOf(vr_r)[1] /\ j = FirstOf(vr_r)[2]
    OBVIOUS
  <1>2. /\ rx_sdu = [x \in 1..(j - 1) |-> <<i, x>>]
        /\ delivered = [x \in 1..(i - 1) |-> SduBytes(x)]
    <2>1. rx_sdu = Before(FirstOf(vr_r)).sdu /\ delivered = Before(FirstOf(vr_r)).out
      <3>1. [sdu |-> rx_sdu, out |-> delivered] = Before(FirstOf(vr_r))
        BY DEF RxStream
      <3> QED
        BY <3>1
    <2> QED
      BY <2>1 DEF Before
  <1>3. i \in Nat /\ j \in Nat /\ (id < i \/ (id = i /\ k < j)) /\ id \in Nat /\ k \in Nat
    BY <1>1 DEF Precedes
  <1>4. CASE id < i
    <2>1. id \in 1..(i - 1) /\ Len(delivered) = i - 1 /\ delivered[id] = SduBytes(id)
      BY <1>2, <1>3, <1>4
    <2>2. b \in BytesIn(SduBytes(id))
      <3>1. Len(SduBytes(id)) = SduLen /\ SduBytes(id)[k] = <<id, k>>
        BY SduBytesType
      <3> QED
        BY <1>1, <3>1 DEF BytesIn
    <2> QED
      BY <2>1, <2>2 DEF AtReceiver
  <1>5. CASE id = i /\ k < j
    <2>1. k \in 1..(j - 1) /\ Len(rx_sdu) = j - 1 /\ rx_sdu[k] = b
      BY <1>1, <1>2, <1>3, <1>5
    <2>2. b \in BytesIn(rx_sdu)
      BY <2>1 DEF BytesIn
    <2> QED
      BY <2>2 DEF AtReceiver
  <1> QED
    BY <1>3, <1>4, <1>5

(* The numbers between the receiver's lower edge and vt_s have all that is in between. *)
LEMMA WindowHas ==
    ASSUME AmTypes, Numbers, WindowStream,
           NEW b \in SduByte, ~Precedes(b, FirstOf(vr_r)), Precedes(b, FirstOf(vt_s))
    PROVE  b \in AtTransmitter
  <1> PICK n : n = ModBase(vt_s, vr_r)
    OBVIOUS
  <1>f. PICK f : f = [i \in 1..n |-> (vr_r + i - 1) % MOD]
    OBVIOUS
  <1>0. vr_r \in SN /\ vt_s \in SN
    BY DEF AmTypes, TxTypes, WindowTypes, RxInv, RxTypeOK
  <1>1. /\ n \in 0..(MOD - 1) /\ (n = 0 => vt_s = vr_r)
        /\ \A i \in 1..n : f[i] \in SN /\ ModBase(f[i], vr_r) = i - 1
        /\ n # 0 => f[1] = vr_r /\ Inc(f[n]) = vt_s
        /\ \A i \in 1..(n - 1) : Inc(f[i]) = f[i + 1]
    <2>1. \A i \in 1..n : f[i] = (vr_r + i - 1) % MOD
      BY <1>f
    <2> QED
      BY <1>0, <2>1, NumbersUpTo
  <1>2. n # 0
    BY <1>1
  <1>3. ASSUME NEW i \in 1..n, ~Precedes(b, FirstOf(f[i])), Precedes(b, FirstOf(Inc(f[i])))
        PROVE  b \in AtTransmitter
    <2>1. f[i] \in SN /\ RxBase(f[i]) < RxBase(vt_s)
      <3>1. i - 1 < n
        BY <1>1
      <3> QED
        BY <1>1, <3>1 DEF RxBase
    <2>2. f[i] \in DOMAIN tx_window /\ f[i] # vt_s
      BY <2>1 DEF Numbers, OneAfterTheOther, Awaited
    <2>3. Run(PduData(f[i])) /\ NextOf(PduData(f[i])) = FirstOf(Inc(f[i]))
      BY <2>2 DEF WindowStream
    <2>4. FirstOf(f[i]) = PduData(f[i])[1]
      BY <2>2 DEF FirstOf
    <2>5. b \in BytesIn(PduData(f[i]))
      BY <1>3, <2>3, <2>4, RunCovers
    <2> QED
      BY <2>2, <2>5 DEF AtTransmitter, PduData
  <1> DEFINE T == {i \in 1..n : Precedes(b, FirstOf(Inc(f[i]))) => b \in AtTransmitter}
  <1>4. 1 \in T
    <2>1. 1 \in 1..n /\ f[1] = vr_r
      BY <1>1, <1>2
    <2> QED
      BY <1>3, <2>1
  <1>5. ASSUME NEW i \in 1..(n - 1), i \in T PROVE i + 1 \in T
    <2>1. i + 1 \in 1..n /\ Inc(f[i]) = f[i + 1]
      BY <1>1
    <2> QED
      BY <1>3, <1>5, <2>1
  <1> HIDE DEF T
  <1>6. n \in 1..n /\ n \in Nat \ {0}
    BY <1>1, <1>2
  <1>7. \A i \in 1..n : i \in T
    BY <1>4, <1>5, <1>6, UpTo
  <1>8. Precedes(b, FirstOf(Inc(f[n]))) => b \in AtTransmitter
    BY <1>6, <1>7 DEF T
  <1> QED
    BY <1>1, <1>2, <1>8

(* The stream goes on from number to number. *)
LEMMA FirstOfOrder ==
    ASSUME AmTypes, Numbers, WindowStream, NEW x \in SN, RxBase(x) <= RxBase(vt_s),
           FirstOf(vr_r)[1] \in Nat
    PROVE  FirstOf(x)[1] \in Nat => FirstOf(vr_r)[1] <= FirstOf(x)[1]
  <1> PICK n : n = ModBase(x, vr_r)
    OBVIOUS
  <1>f. PICK f : f = [i \in 1..n |-> (vr_r + i - 1) % MOD]
    OBVIOUS
  <1>0. vr_r \in SN /\ vt_s \in SN /\ RxBase(vt_s) \in Nat
    <2>1. vr_r \in SN /\ vt_s \in SN
      BY DEF AmTypes, TxTypes, WindowTypes, RxInv, RxTypeOK
    <2> QED
      BY <2>1, ModBaseIsDistance DEF RxBase
  <1>1. /\ n \in 0..(MOD - 1) /\ (n = 0 => x = vr_r)
        /\ \A i \in 1..n : f[i] \in SN /\ ModBase(f[i], vr_r) = i - 1
        /\ n # 0 => f[1] = vr_r /\ Inc(f[n]) = x
        /\ \A i \in 1..(n - 1) : Inc(f[i]) = f[i + 1]
    <2>1. \A i \in 1..n : f[i] = (vr_r + i - 1) % MOD
      BY <1>f
    <2> QED
      BY <1>0, <2>1, NumbersUpTo
  <1>2. CASE n = 0
    BY <1>1, <1>2
  <1>3. CASE n # 0
    <2>1. ASSUME NEW i \in 1..n
          PROVE  /\ FirstOf(Inc(f[i]))[1] \in Nat /\ FirstOf(f[i])[1] \in Nat
                 /\ FirstOf(f[i])[1] <= FirstOf(Inc(f[i]))[1]
      <3>1. f[i] \in SN /\ RxBase(f[i]) < RxBase(vt_s)
        <4>1. n <= RxBase(vt_s)
          BY DEF RxBase
        <4>2. i - 1 < RxBase(vt_s)
          BY <1>0, <1>1, <4>1
        <4> QED
          BY <1>1, <4>2 DEF RxBase
      <3>2. f[i] \in DOMAIN tx_window /\ f[i] # vt_s
        BY <3>1 DEF Numbers, OneAfterTheOther, Awaited
      <3> PICK d : d = PduData(f[i])
        OBVIOUS
      <3>3. Run(d) /\ NextOf(d) = FirstOf(Inc(f[i]))
        BY <3>2 DEF WindowStream
      <3>4. FirstOf(f[i]) = d[1]
        BY <3>2 DEF FirstOf
      <3>5. /\ d[1][1] \in Nat /\ d[1][2] \in Nat
            /\ NextOf(d)[1] \in Nat /\ NextOf(d)[2] \in Nat
        <4>1. /\ d[1][1] \in 1..MaxSdus /\ d[1][2] \in 1..SduLen
              /\ NextOf(d)[1] \in 1..(MaxSdus + 1) /\ NextOf(d)[2] \in 1..SduLen
          <5>1. 1 \in 1..Len(d)
            BY <3>3, RunTypes
          <5> QED
            BY <3>3, <5>1, RunTypes
        <4> QED
          BY <4>1
      <3>6. ~Precedes(NextOf(d), d[1])
        BY <3>3, RunCovers
      <3>7. d[1][1] <= NextOf(d)[1]
        BY <3>5, <3>6, PrecedesOrder
      <3> QED
        BY <3>3, <3>4, <3>5, <3>7
    <2> DEFINE T == {i \in 1..n : FirstOf(vr_r)[1] <= FirstOf(Inc(f[i]))[1]}
    <2>2. 1 \in T
      <3>1. 1 \in 1..n /\ f[1] = vr_r
        BY <1>1, <1>3
      <3> QED
        BY <2>1, <3>1
    <2>3. ASSUME NEW i \in 1..(n - 1), i \in T PROVE i + 1 \in T
      <3>1. i \in 1..n /\ i + 1 \in 1..n /\ Inc(f[i]) = f[i + 1]
        BY <1>1
      <3>2. FirstOf(vr_r)[1] <= FirstOf(f[i + 1])[1]
        BY <2>3, <3>1
      <3>3. /\ FirstOf(Inc(f[i + 1]))[1] \in Nat /\ FirstOf(f[i + 1])[1] \in Nat
            /\ FirstOf(f[i + 1])[1] <= FirstOf(Inc(f[i + 1]))[1]
        BY <2>1, <3>1
      <3>4. FirstOf(vr_r)[1] <= FirstOf(Inc(f[i + 1]))[1]
        BY <3>2, <3>3
      <3> QED
        BY <3>1, <3>4
    <2> HIDE DEF T
    <2>4. n \in 1..n /\ n \in Nat
      BY <1>1, <1>3
    <2>5. \A i \in 1..n : i \in T
      BY <2>2, <2>3, <2>4, UpTo
    <2>6. FirstOf(vr_r)[1] <= FirstOf(Inc(f[n]))[1]
      BY <2>4, <2>5 DEF T
    <2> QED
      BY <1>1, <1>3, <2>6
  <1> QED
    BY <1>2, <1>3

(* What is sent next is not beyond what was accepted, and the receiver not beyond that. *)
LEMMA FirstOfTypes ==
    ASSUME AmTypes, Numbers, DataInv
    PROVE  /\ FirstOf(vr_r)[1] \in 1..(accepted + 1) /\ FirstOf(vr_r)[2] \in Nat
           /\ FirstOf(vt_s) = NextToSend
  <1>0. TxTypes /\ SduStream /\ WindowStream /\ vr_r \in SN /\ vt_s \in SN
    BY DEF AmTypes, TxTypes, WindowTypes, RxInv, RxTypeOK, DataInv
  <1>1. FirstOf(vt_s) = NextToSend
    BY DEF FirstOf
  <1> PICK l : l = Len(tx_sdu_queue)
    OBVIOUS
  <1>2. l \in Nat /\ accepted \in Nat /\ Taken \in Nat /\ Taken + l = accepted
    BY <1>0, QueueIs
  <1>3. NextToSend[1] \in 1..(accepted + 1) /\ NextToSend[2] \in Nat
    <2>1. CASE tx_sdu # << >>
      <3>1. Run(tx_sdu) /\ tx_sdu[1][1] = Taken /\ NextToSend = tx_sdu[1]
        BY <1>0, <2>1 DEF SduStream, NextToSend
      <3>2. 1 \in 1..Len(tx_sdu)
        BY <3>1, RunTypes
      <3>3. tx_sdu[1][1] \in 1..MaxSdus /\ tx_sdu[1][2] \in 1..SduLen
        BY <3>1, <3>2, RunTypes
      <3>4. Taken \in 1..(accepted + 1)
        BY <1>2, <3>1, <3>3
      <3> QED
        BY <3>1, <3>3, <3>4
    <2>2. CASE tx_sdu = << >>
      <3>1. NextToSend = <<Taken + 1, 1>>
        BY <2>2 DEF NextToSend
      <3>2. Taken + 1 \in 1..(accepted + 1)
        BY <1>2
      <3> QED
        BY <3>1, <3>2
    <2> QED
      BY <2>1, <2>2
  <1>4. CASE vr_r = vt_s
    BY <1>1, <1>3, <1>4
  <1>5. CASE vr_r # vt_s
    <2>1. vr_r \in DOMAIN tx_window
      BY <1>5 DEF Numbers
    <2> PICK d : d = PduData(vr_r)
      OBVIOUS
    <2>2. Run(d) /\ FirstOf(vr_r) = d[1]
      BY <1>0, <1>5, <2>1 DEF WindowStream, FirstOf
    <2>3. d[1][1] \in 1..MaxSdus /\ d[1][2] \in 1..SduLen
      <3>1. 1 \in 1..Len(d)
        BY <2>2, RunTypes
      <3> QED
        BY <2>2, <3>1, RunTypes
    <2>4. FirstOf(vr_r)[1] \in Nat \ {0} /\ FirstOf(vr_r)[2] \in Nat
      BY <2>2, <2>3
    <2>5. RxBase(vt_s) <= RxBase(vt_s)
      BY <1>0, ModBaseIsDistance DEF RxBase
    <2>6. FirstOf(vr_r)[1] <= NextToSend[1]
      <3>1. FirstOf(vt_s)[1] \in Nat
        BY <1>1, <1>3
      <3> QED
        BY <1>0, <1>1, <2>4, <2>5, <3>1, FirstOfOrder
    <2> QED
      BY <1>1, <1>2, <1>3, <2>4, <2>6
  <1> QED
    BY <1>4, <1>5

(* The stream leaves no byte out: what the receiver does not have the window or the queue has. *)
LEMMA NoneForgotten ==
    ASSUME AmTypes, Numbers, DataInv
    PROVE  NothingForgotten
  <1>0. TxTypes /\ SduStream /\ WindowStream /\ RxStream /\ accepted \in 0..MaxSdus
    BY DEF AmTypes, TxTypes, DataInv
  <1>1. FirstOf(vr_r)[1] \in Nat /\ FirstOf(vr_r)[2] \in Nat /\ FirstOf(vt_s) = NextToSend
    BY FirstOfTypes
  <1>2. ASSUME NEW id \in 1..accepted, NEW b \in BytesIn(SduBytes(id))
        PROVE  b \in AtReceiver \cup AtTransmitter
    <2>1. id \in 1..MaxSdus
      BY <1>0, SduAssumption
    <2>2. PICK k \in 1..SduLen : b = <<id, k>>
      BY <2>1, SduBytesType DEF BytesIn
    <2>3. b \in SduByte /\ b[1] <= accepted
      BY <1>0, <2>1, <2>2 DEF SduByte
    <2>4. CASE Precedes(b, FirstOf(vr_r))
      BY <1>0, <1>1, <2>3, <2>4, ReceiverHas
    <2>5. CASE ~Precedes(b, FirstOf(vr_r)) /\ Precedes(b, FirstOf(vt_s))
      BY <1>0, <2>3, <2>5, WindowHas
    <2>6. CASE ~Precedes(b, FirstOf(vt_s))
      BY <1>0, <1>1, <2>3, <2>6, WaitingHas
    <2> QED
      BY <2>4, <2>5, <2>6
  <1> QED
    BY <1>2 DEF NothingForgotten

-----------------------------------------------------------------------------
(* The service *)

\* What reassembly has handed over: the SDUs 1 to m.
FirstSdus(m) == [i \in 1..m |-> SduBytes(i)]

\* How many that is.
SdusHanded == FirstOf(vr_r)[1] - 1
\* Exactly those, in order, were handed over.
HandedOver == SdusHanded \in 0..accepted /\ delivered = FirstSdus(SdusHanded)

(* What was handed over follows from where the receiver's edge is in the stream. *)
LEMMA DeliveredIs == AmTypes /\ Numbers /\ DataInv => HandedOver
  <1> SUFFICES ASSUME AmTypes, Numbers, DataInv PROVE HandedOver
    OBVIOUS
  <1>0. accepted \in Nat /\ FirstOf(vr_r)[1] \in 1..(accepted + 1)
    BY FirstOfTypes, SduAssumption DEF AmTypes, TxTypes
  <1>1. FirstOf(vr_r)[1] - 1 \in 0..accepted
    BY <1>0
  <1>2. delivered = Before(FirstOf(vr_r)).out
    <2>1. [sdu |-> rx_sdu, out |-> delivered] = Before(FirstOf(vr_r))
      BY DEF DataInv, RxStream
    <2> QED
      BY <2>1
  <1> QED
    BY <1>1, <1>2 DEF Before, FirstSdus, SdusHanded, HandedOver

(* The type of the edge after a step. *)
LEMMA NextFirstOfTypes ==
    (AmTypes /\ Numbers /\ DataInv)' => (FirstOf(vr_r)[1] \in Nat)'
  <1>1. AmTypes /\ Numbers /\ DataInv => FirstOf(vr_r)[1] \in Nat
    BY FirstOfTypes
  <1> QED
    BY <1>1, PTL

(* The same after a step. *)
LEMMA DeliveredWillBe == AmTypes' /\ Numbers' /\ DataInv' => HandedOver'
  BY DeliveredIs, PTL

(* A delivery hands over the SDUs that come next, if any. *)
LEMMA SduDelivered ==
    ASSUME NEW m \in Nat, NEW n \in Nat, NEW a \in Nat, m <= n, n <= a
    PROVE  \/ FirstSdus(n) = FirstSdus(m)
           \/ \E k \in (Len(FirstSdus(m)) + 1)..Len(FirstSdus(a)) :
                  FirstSdus(n) = SubSeq(FirstSdus(a), 1, k)
  <1>1. \A x \in Nat : Len(FirstSdus(x)) = x
    BY DEF FirstSdus
  <1>2. CASE n = m
    BY <1>2
  <1>3. CASE n # m
    <2>1. n \in (Len(FirstSdus(m)) + 1)..Len(FirstSdus(a))
      BY <1>1, <1>3
    <2>2. FirstSdus(n) = SubSeq(FirstSdus(a), 1, n)
      BY DEF FirstSdus
    <2> QED
      BY <2>1, <2>2
  <1> QED
    BY <1>2, <1>3

(* One more SDU accepted is one more sent, as the service sees it. *)
LEMMA SduAccepted ==
    ASSUME NEW a \in Nat, a + 1 <= MaxSdus
    PROVE  \E sdu \in {SduBytes(id) : id \in 1..MaxSdus} :
               FirstSdus(a + 1) = Append(FirstSdus(a), sdu)
  <1>1. a + 1 \in 1..MaxSdus
    BY SduAssumption
  <1>2. FirstSdus(a + 1) = Append(FirstSdus(a), SduBytes(a + 1))
    BY DEF FirstSdus
  <1> QED
    BY <1>1, <1>2

(* Every step is one of the service, or none that it sees. *)
LEMMA ServiceStep ==
    ASSUME AmTypes, AmTypes', TxWindowContiguous, TxWindowContiguous', Numbers, Numbers',
           DataInv, DataInv', [Next]_vars
    PROVE  [Service!Next]_<<[id \in 1..accepted |-> SduBytes(id)], delivered>>
  <1>0. accepted \in Nat
    BY SduAssumption DEF AmTypes, TxTypes
  <1>1. CASE accepted' = accepted + 1 /\ delivered' = delivered
    <2>1. accepted + 1 <= MaxSdus
      BY <1>1, SduAssumption DEF AmTypes, TxTypes
    <2>2. \E sdu \in {SduBytes(id) : id \in 1..MaxSdus} :
              FirstSdus(accepted + 1) = Append(FirstSdus(accepted), sdu)
      BY <1>0, <2>1, SduAccepted
    <2>3. \E sdu \in {SduBytes(id) : id \in 1..MaxSdus} :
              [id \in 1..accepted' |-> SduBytes(id)]
                 = Append([id \in 1..accepted |-> SduBytes(id)], sdu)
      BY <1>1, <2>2 DEF FirstSdus
    <2> QED
      BY <1>1, <2>3 DEF Service!Next, Service!Accept
  <1>2. CASE accepted' = accepted /\ delivered' = delivered
    BY <1>2
  <1>3. CASE Deliver \/ Duplicate \/ Overtake
    <2>1. SenderKept /\ Onward
      BY <1>3, DeliveryStream
    <2>0. HandedOver /\ HandedOver'
      BY DeliveredIs, DeliveredWillBe
    <2>p. PICK a, m, n : a = accepted /\ m = SdusHanded /\ n = SdusHanded'
      OBVIOUS
    <2>2. m \in 0..a /\ delivered = FirstSdus(m)
      BY <2>0, <2>p DEF HandedOver
    <2>3. FirstOf(vr_r)' = FirstOf(vr_r')
      <3> PICK r : r = vr_r'
        OBVIOUS
      <3>1. FirstOf(vr_r)' = FirstOf(r)
        BY <2>1 DEF SenderKept, FirstOf, PduData, NextToSend, Taken
      <3> QED
        BY <3>1
    <2>4. accepted' = a
      BY <2>1, <2>p DEF SenderKept
    <2>5. n \in 0..a /\ delivered' = FirstSdus(n)
      <3>1. SdusHanded' \in 0..accepted' /\ delivered' = FirstSdus(SdusHanded')
        BY <2>0 DEF HandedOver
      <3> QED
        BY <2>4, <2>p, <3>1
    <2>6. m <= n
      <3> PICK r : r = vr_r'
        OBVIOUS
      <3>1. FirstOf(vr_r)[1] \in Nat
        BY FirstOfTypes
      <3>2. n = FirstOf(r)[1] - 1 /\ m = FirstOf(vr_r)[1] - 1
        BY <2>3, <2>p DEF SdusHanded
      <3>3. r \in SN /\ RxBase(r) <= RxBase(vt_s) /\ WindowStream
        BY <2>1 DEF Onward, DataInv
      <3>4. FirstOf(r)[1] \in Nat
        <4>1. (AmTypes /\ Numbers /\ DataInv)' => (FirstOf(vr_r)[1] \in Nat)'
          BY NextFirstOfTypes
        <4>2. FirstOf(vr_r)' = FirstOf(r)
          BY <2>3
        <4>3. (FirstOf(vr_r)')[1] \in Nat
          BY <4>1
        <4> QED
          BY <4>2, <4>3
      <3>5. FirstOf(vr_r)[1] <= FirstOf(r)[1]
        BY <3>1, <3>3, <3>4, FirstOfOrder
      <3> QED
        BY <3>1, <3>2, <3>4, <3>5
    <2>7. \/ FirstSdus(n) = FirstSdus(m)
          \/ \E k \in (Len(FirstSdus(m)) + 1)..Len(FirstSdus(a)) :
                 FirstSdus(n) = SubSeq(FirstSdus(a), 1, k)
      <3>1. m \in Nat /\ n \in Nat /\ a \in Nat /\ m <= n /\ n <= a
        BY <1>0, <2>p, <2>2, <2>5, <2>6
      <3> QED
        BY <3>1, SduDelivered
    <2>8. FirstSdus(a) = [id \in 1..accepted |-> SduBytes(id)]
      BY <2>p DEF FirstSdus
    <2>9. CASE FirstSdus(n) = FirstSdus(m)
      BY <2>p, <2>2, <2>4, <2>5, <2>9, <1>2
    <2>10. CASE \E k \in (Len(FirstSdus(m)) + 1)..Len(FirstSdus(a)) :
                    FirstSdus(n) = SubSeq(FirstSdus(a), 1, k)
      <3>1. \E k \in (Len(delivered) + 1)..Len([id \in 1..accepted |-> SduBytes(id)]) :
                delivered' = SubSeq([id \in 1..accepted |-> SduBytes(id)], 1, k)
        BY <2>2, <2>5, <2>8, <2>10
      <3>2. [id \in 1..accepted' |-> SduBytes(id)] = [id \in 1..accepted |-> SduBytes(id)]
        BY <2>4, <2>p
      <3> QED
        BY <3>1, <3>2 DEF Service!Next, Service!Deliver
    <2> QED
      BY <2>7, <2>9, <2>10
  <1>4. CASE Write
    BY <1>1, <1>4 DEF Write, WriteSdu, rx_vars
  <1>5. ASSUME NEW g \in Grants, Read(g) PROVE accepted' = accepted /\ delivered' = delivered
    <2>1. delivered' = delivered
      BY <1>5 DEF Read, rx_vars
    <2>2. accepted' = accepted
      BY <1>5 DEF Read, ReadPdu, RetxWhole, RetxSegment, RetxNoRoom, DataPart, BuildDataPdu,
                  NoDataPdu
    <2> QED
      BY <2>1, <2>2
  <1>6. CASE \/ PollExpires \/ PollCallback \/ Lose \/ Reordering
             \/ \E room \in Rooms : GetStatus(room)
             \/ SendStatus \/ ProhibitExpires
             \/ DeliverStatus \/ DuplicateStatus \/ LoseStatus
             \/ UNCHANGED vars
    <2>1. accepted' = accepted
      BY <1>6 DEF PollExpires, PollRetxExpires, PollCallback, PollRetxCallback, Lose, Reordering,
                  GetStatus, SendStatus, ProhibitExpires, DeliverStatus, DuplicateStatus,
                  HandleControlPdu, LoseStatus, vars, tx_vars, tx_own
    <2>2. delivered' = delivered
      BY <1>6 DEF PollExpires, PollCallback, Lose, Reordering, ReorderingExpired, GetStatus,
                  GetStatusPdu, SendStatus, ResetStatus, ProhibitExpires, StatusProhibitExpired,
                  DeliverStatus, DuplicateStatus, LoseStatus, vars, rx_vars
    <2> QED
      BY <1>2, <2>1, <2>2
  <1> QED
    BY <1>2, <1>3, <1>4, <1>5, <1>6 DEF Next

(* The start is the service's start. *)
LEMMA ServiceInit ==
    ASSUME Init
    PROVE  Service!Init
  <1>1. accepted = 0 /\ delivered = << >>
    BY DEF Init, TxInit, RxInit
  <1>2. [id \in 1..accepted |-> SduBytes(id)] = << >>
    BY <1>1
  <1> QED
    BY <1>1, <1>2 DEF Service!Init

(* The data of the two entities, as long as the windows agree. *)
THEOREM DataHolds ==
    StatusInOrder => (Spec /\ []WithinWindow => [](AmTypes /\ Numbers /\ DataInv))
  <1> SUFFICES ASSUME StatusInOrder
               PROVE  Spec /\ []WithinWindow => [](AmTypes /\ Numbers /\ DataInv)
    OBVIOUS
  <1>1. Init => Agreed /\ DataInv
    BY AgreedInit, DataInit
  <1>2. AmTypes /\ TxWindowContiguous /\ WithinWindow' /\ Agreed /\ [Next]_vars => Agreed'
    BY AgreedStep
  <1>3. AmTypes /\ WithinWindow => WindowFits
    BY WithinFits
  <1>4. AmTypes /\ TxWindowContiguous /\ Agreed => Numbers
    BY AgreedNumbers
  <1>5. /\ AmTypes /\ TxWindowContiguous /\ TxWindowContiguous' /\ Numbers /\ Numbers'
        /\ DataInv /\ [Next]_vars
        => DataInv'
    BY DataStep
  <1> QED
    BY <1>1, <1>2, <1>3, <1>4, <1>5, AmTypesHold, TxWindowCorrect, PTL DEF Spec

(* tx_window is the only copy of what was sent: no byte is erased from it before the
   receiver has it. *)
THEOREM NoByteForgotten ==
    StatusInOrder => (Spec /\ []WithinWindow => []NothingForgotten)
  <1> SUFFICES ASSUME StatusInOrder
               PROVE  Spec /\ []WithinWindow => []NothingForgotten
    OBVIOUS
  <1>1. Spec /\ []WithinWindow => [](AmTypes /\ Numbers /\ DataInv)
    BY DataHolds
  <1>2. AmTypes /\ Numbers /\ DataInv => NothingForgotten
    BY NoneForgotten
  <1> QED
    BY <1>1, <1>2, PTL

(* The two entities implement the service. *)
THEOREM AmImplementsService ==
    StatusInOrder => (Spec /\ []WithinWindow => ServiceSpec)
  <1> SUFFICES ASSUME StatusInOrder
               PROVE  Spec /\ []WithinWindow => ServiceSpec
    OBVIOUS
  <1>1. Spec /\ []WithinWindow => [](AmTypes /\ Numbers /\ DataInv)
    BY DataHolds
  <1>2. Init => Service!Init
    BY ServiceInit
  <1>3. AmTypes /\ WithinWindow => WindowFits
    BY WithinFits
  <1>4. /\ AmTypes /\ AmTypes' /\ TxWindowContiguous /\ TxWindowContiguous'
        /\ Numbers /\ Numbers' /\ DataInv /\ DataInv' /\ [Next]_vars
        => [Service!Next]_<<[id \in 1..accepted |-> SduBytes(id)], delivered>>
    BY ServiceStep
  <1> QED
    BY <1>1, <1>2, <1>3, <1>4, AmTypesHold, TxWindowCorrect, PTL DEF Spec, ServiceSpec, Service!Spec

(* Where an SDU is one byte nothing is left to assume but that no STATUS overtakes
   another: the entities implement the service (ReliableDelivery) and forget no byte. *)
THEOREM OneByteService ==
    SduLen = 1 /\ StatusInOrder => (Spec => ServiceSpec /\ []NothingForgotten)
  <1> SUFFICES ASSUME SduLen = 1, StatusInOrder
               PROVE  Spec => ServiceSpec /\ []NothingForgotten
    OBVIOUS
  <1>1. Spec => []WithinWindow
    BY OneByteWindow
  <1>2. Spec /\ []WithinWindow => ServiceSpec
    BY AmImplementsService
  <1>3. Spec /\ []WithinWindow => []NothingForgotten
    BY NoByteForgotten
  <1> QED
    BY <1>1, <1>2, <1>3, PTL
==============================================================================
