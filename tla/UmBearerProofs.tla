----------------------------- MODULE UmBearerProofs -----------------------------
(***************************************************************************)
(* The UM receiver keeps its window against any peer, for every size of    *)
(* the window (UmRxSafe), and so it does in the bearer (UmBearerSafe).     *)
(* The bearer implements the service LossyDelivery (UmImplementsService),  *)
(* its state is well typed (UmTypeCorrect), the receiving PDCP entity      *)
(* rebuilds every COUNT (CountsStayInSync), and what arrives is delivered  *)
(* (UmOnlyTheLostIsLost).                                                  *)
(*                                                                         *)
(* RxModBase(_, uh) orders the numbers as they follow the lower edge of    *)
(* the window: the window is 0..UM_WINDOW-1, VR(UH) itself is UM_WINDOW.   *)
(*                                                                         *)
(* The last four rest on places: the PDUs sent are numbered from 0 on      *)
(* without a modulus, a sequence number is a place modulo UM_MOD, and F[c] *)
(* is the byte that the PDU at place c begins with.  The invariant (UmAt)  *)
(* says that places account for the whole bearer: S PDUs were built, N is  *)
(* the first in flight, VR(UH) and VR(UR) stand at H and R, PDUs are held  *)
(* at the places K, and what was delivered ends before F[R].  B is the     *)
(* number of SDUs written when COUNT last began, t the SDU being sent.     *)
(*                                                                         *)
(* For UmOnlyTheLostIsLost it says too (Reached) which bytes have arrived, *)
(* that of what lies below R everything is out that could be (Done), and   *)
(* that the members of reassembly do not keep the next SDU from coming out *)
(* (Progress): rx_sdu holds what arrived of it, a loss is remembered only  *)
(* while no SDU out is near, and vr_ur_in_rx_sdu is the number of a place  *)
(* that ends no earlier than the last SDU out.                             *)
(***************************************************************************)
EXTENDS UmBearer, RlcSduProofs

------------------------------------------------------------------------------
(* Arithmetic *)

\* RX_MOD_BASE without a remainder.
PlaceOf(x, uh) == IF x >= uh + UM_WINDOW THEN x - uh - UM_WINDOW
                ELSE IF x + UM_WINDOW >= uh
                     THEN x - uh - UM_WINDOW + UM_MOD
                     ELSE x - uh - UM_WINDOW + 2 * UM_MOD

(* RX_MOD_BASE of a number is its place. *)
LEMMA RxModBaseIsPlace ==
    ASSUME NEW x \in UmSN, NEW uh \in UmSN
    PROVE  RxModBase(x, uh) = PlaceOf(x, uh) /\ PlaceOf(x, uh) \in 0..(UM_MOD - 1)
  BY UmSnAssumption DEF UmSN, RxModBase, PlaceOf

(* A place is one of UM_MOD. *)
LEMMA RxModBaseIsDistance ==
    ASSUME NEW x \in UmSN, NEW uh \in UmSN
    PROVE  RxModBase(x, uh) \in 0..(UM_MOD - 1)
  BY RxModBaseIsPlace

(* The upper edge of the window is VR(UH). *)
LEMMA EdgeOfWindow ==
    ASSUME NEW uh \in UmSN
    PROVE  /\ RxModBase(uh, uh) = UM_WINDOW
           /\ RxModBase(uh - UM_WINDOW, uh) = 0
           /\ \A x \in UmSN : RxModBase(x, uh) = UM_WINDOW => x = uh
  <1>1. RxModBase(uh, uh) = UM_WINDOW
    BY UmSnAssumption, RxModBaseIsPlace DEF UmSN, PlaceOf
  <1>2. RxModBase(uh - UM_WINDOW, uh) = (0 - UM_MOD) % UM_MOD
    BY UmSnAssumption DEF UmSN, RxModBase
  <1>3. (0 - UM_MOD) % UM_MOD = 0
    BY UmSnAssumption
  <1>4. ASSUME NEW x \in UmSN, RxModBase(x, uh) = UM_WINDOW
        PROVE  x = uh
    <2>1. PlaceOf(x, uh) = UM_WINDOW
      BY <1>4, RxModBaseIsPlace
    <2> QED
      BY <2>1, UmSnAssumption DEF UmSN, PlaceOf
  <1> QED
    BY <1>1, <1>2, <1>3, <1>4

(* No two numbers have the same place. *)
LEMMA RxModBaseInjective ==
    ASSUME NEW x \in UmSN, NEW y \in UmSN, NEW uh \in UmSN,
           RxModBase(x, uh) = RxModBase(y, uh)
    PROVE  x = y
  <1>1. PlaceOf(x, uh) = PlaceOf(y, uh)
    BY RxModBaseIsPlace
  <1> QED
    BY <1>1, UmSnAssumption DEF UmSN, PlaceOf

(* inside_reordering_window. *)
LEMMA InsideIsBelowWindow ==
    ASSUME NEW x \in UmSN, NEW uh \in UmSN, NEW D
    PROVE  InsideReorderingWindow(x, uh, D)
               <=> D = {} \/ RxModBase(x, uh) < UM_WINDOW
  <1>1. RxModBase(x, uh) \in 0..(UM_MOD - 1)
    BY RxModBaseIsDistance
  <1> QED
    BY <1>1, EdgeOfWindow, UmSnAssumption DEF InsideReorderingWindow, UmSN

(* A number n further on is n places further on. *)
LEMMA Advance ==
    ASSUME NEW x \in UmSN, NEW uh \in UmSN, NEW n \in 0..UM_MOD
    PROVE  /\ (x + n) % UM_MOD \in UmSN
           /\ RxModBase((x + n) % UM_MOD, uh)
                 = IF RxModBase(x, uh) + n < UM_MOD THEN RxModBase(x, uh) + n
                   ELSE RxModBase(x, uh) + n - UM_MOD
  <1> DEFINE y == (x + n) % UM_MOD
  <1>1. y \in UmSN /\ y = IF x + n < UM_MOD THEN x + n ELSE x + n - UM_MOD
    BY UmSnAssumption DEF UmSN
  <1>2. RxModBase(y, uh) = PlaceOf(y, uh) /\ RxModBase(x, uh) = PlaceOf(x, uh)
    BY <1>1, RxModBaseIsPlace
  <1> HIDE DEF y
  <1>3. RxModBase(y, uh) = IF RxModBase(x, uh) + n < UM_MOD
                           THEN RxModBase(x, uh) + n
                           ELSE RxModBase(x, uh) + n - UM_MOD
    BY <1>1, <1>2, UmSnAssumption DEF UmSN, PlaceOf
  <1> QED
    BY <1>1, <1>3 DEF y

(* How far s is ahead of x. *)
LEMMA Ahead ==
    ASSUME NEW s \in UmSN, NEW x \in UmSN, NEW uh \in UmSN
    PROVE  /\ (s - x) % UM_MOD
                 = IF RxModBase(s, uh) >= RxModBase(x, uh)
                   THEN RxModBase(s, uh) - RxModBase(x, uh)
                   ELSE RxModBase(s, uh) - RxModBase(x, uh) + UM_MOD
           /\ (s - x) % UM_MOD \in 0..(UM_MOD - 1)
  <1>1. /\ (s - x) % UM_MOD = IF s >= x THEN s - x ELSE s - x + UM_MOD
        /\ (s - x) % UM_MOD \in 0..(UM_MOD - 1)
    BY UmSnAssumption DEF UmSN
  <1>2. RxModBase(s, uh) = PlaceOf(s, uh) /\ RxModBase(x, uh) = PlaceOf(x, uh)
    BY RxModBaseIsPlace
  <1> QED
    BY <1>1, <1>2, UmSnAssumption DEF UmSN, PlaceOf

(* What the edge of the window does to the places when the number sn at or above
   VR(UH) moves it up by k. *)
LEMMA WindowMovesUp ==
    ASSUME NEW sn \in UmSN, NEW uh \in UmSN, RxModBase(sn, uh) >= UM_WINDOW,
           NEW k, k = RxModBase(sn, uh) - UM_WINDOW + 1
    PROVE  /\ Next1(sn) \in UmSN /\ k \in 1..UM_WINDOW
           /\ \A x \in UmSN :
                 RxModBase(x, Next1(sn))
                    = IF RxModBase(x, uh) >= k THEN RxModBase(x, uh) - k
                      ELSE RxModBase(x, uh) - k + UM_MOD
  <1>1. /\ Next1(sn) = IF sn = UM_MOD - 1 THEN 0 ELSE sn + 1
        /\ Next1(sn) \in UmSN
    BY UmSnAssumption DEF UmSN, Next1
  <1>2. k = PlaceOf(sn, uh) - UM_WINDOW + 1 /\ k \in 1..UM_WINDOW
    <2>1. RxModBase(sn, uh) = PlaceOf(sn, uh) /\ PlaceOf(sn, uh) \in 0..(UM_MOD - 1)
      BY RxModBaseIsPlace
    <2> QED
      BY <2>1, UmSnAssumption
  <1>3. ASSUME NEW x \in UmSN
        PROVE  RxModBase(x, Next1(sn))
                  = IF RxModBase(x, uh) >= k THEN RxModBase(x, uh) - k
                    ELSE RxModBase(x, uh) - k + UM_MOD
    <2>1. /\ RxModBase(x, uh) = PlaceOf(x, uh)
          /\ RxModBase(x, Next1(sn)) = PlaceOf(x, Next1(sn))
      BY <1>1, RxModBaseIsPlace
    <2>2. PlaceOf(x, Next1(sn)) = IF PlaceOf(x, uh) >= k THEN PlaceOf(x, uh) - k
                                ELSE PlaceOf(x, uh) - k + UM_MOD
      BY <1>1, <1>2, UmSnAssumption DEF UmSN, PlaceOf
    <2> QED
      BY <2>1, <2>2
  <1> QED
    BY <1>1, <1>2, <1>3

------------------------------------------------------------------------------
(* The loops of reassemble_rx_sdus *)

\* VR(UR) at x, the numbers D held at or above it, and where the second loop stops.
SecondLoop(x, uh, D, n, y) ==
    /\ x \in UmSN /\ uh \in UmSN /\ D \in SUBSET UmSN
    /\ RxModBase(x, uh) <= UM_WINDOW
    /\ \A s \in D : RxModBase(s, uh) < UM_WINDOW
    /\ D # {} => \E s \in D : RxModBase(s, uh) = UM_WINDOW - 1
    /\ D = {} => x = uh
    /\ n = InSequence(x, D) /\ y = (x + n) % UM_MOD

\* ... and how it leaves them.
SecondLoopStops(x, uh, D, n, y) ==
    /\ n \in 0..UM_WINDOW /\ y \in UmSN
    /\ RxModBase(y, uh) = RxModBase(x, uh) + n
    /\ RxModBase(y, uh) <= UM_WINDOW
    /\ \A z \in UmSN : RxModBase(x, uh) <= RxModBase(z, uh)
                       /\ RxModBase(z, uh) < RxModBase(y, uh) => z \in D
    /\ IsWindow(y, uh, {s \in D : RxModBase(s, uh) >= RxModBase(y, uh)})

(* The second loop, started at a number x not above VR(UH): VR(UR) stops at y, the
   first number missing, and what is held from there on is a window again. *)
LEMMA InSequenceStops ==
    ASSUME NEW x, NEW uh, NEW D, NEW n, NEW y, SecondLoop(x, uh, D, n, y)
    PROVE  SecondLoopStops(x, uh, D, n, y)
  <1>h. /\ x \in UmSN /\ uh \in UmSN /\ D \in SUBSET UmSN
        /\ RxModBase(x, uh) <= UM_WINDOW
        /\ \A s \in D : RxModBase(s, uh) < UM_WINDOW
        /\ D # {} => \E s \in D : RxModBase(s, uh) = UM_WINDOW - 1
        /\ D = {} => x = uh
        /\ n = InSequence(x, D) /\ y = (x + n) % UM_MOD
    BY DEF SecondLoop
  <1> USE <1>h
  <1> DEFINE b == RxModBase(x, uh)
             At(m) == (x + m) % UM_MOD
             top == UM_WINDOW - b
             Stop(k) == At(k) \notin D /\ \A m \in 0..(k - 1) : At(m) \in D
  <1>b. b \in 0..UM_WINDOW /\ top \in 0..UM_WINDOW /\ UM_WINDOW \in Nat
        /\ UM_WINDOW > 0 /\ UM_MOD = 2 * UM_WINDOW
    BY RxModBaseIsDistance, UmSnAssumption
  <1>at. \A m \in 0..top : At(m) \in UmSN /\ RxModBase(At(m), uh) = b + m
    <2> TAKE m \in 0..top
    <2>1. m \in 0..UM_MOD /\ b + m < UM_MOD
      BY <1>b
    <2> QED
      BY <2>1, Advance
  <1>1. At(top) \notin D
    <2>1. RxModBase(At(top), uh) = UM_WINDOW
      BY <1>b, <1>at
    <2> QED
      BY <2>1, <1>b
  <1>2. \E k \in 0..UM_MOD : Stop(k)
    <2> DEFINE B == {k \in Nat : k <= UM_MOD /\ At(k) \notin D}
    <2>1. top \in B
      BY <1>1, <1>b
    <2> HIDE DEF B
    <2>2. B \in SUBSET Nat /\ B # {}
      BY <2>1 DEF B
    <2>3. PICK k \in B : \A c \in B : k <= c
      BY <2>2, LeastOfNaturals
    <2>4. k \in 0..UM_MOD /\ At(k) \notin D
      BY <2>3, <1>b DEF B
    <2>5. ASSUME NEW m \in 0..(k - 1)
          PROVE  At(m) \in D
      <3>1. m \in Nat /\ m < k /\ m <= UM_MOD
        BY <2>4, <1>b
      <3>2. m \notin B
        BY <2>3, <2>4, <3>1
      <3> QED
        BY <3>1, <3>2 DEF B
    <2> QED
      BY <2>4, <2>5
  <1>3. n \in 0..UM_MOD /\ Stop(n)
    BY <1>2 DEF InSequence
  <1>4. n <= top
    <2> SUFFICES ASSUME ~(n <= top) PROVE FALSE
      OBVIOUS
    <2>1. top \in 0..(n - 1)
      BY <1>3, <1>b
    <2> QED
      BY <2>1, <1>1, <1>3
  <1>5. n \in 0..top /\ n \in 0..UM_WINDOW
    BY <1>3, <1>4, <1>b
  <1>6. y \in UmSN /\ RxModBase(y, uh) = b + n /\ b + n <= UM_WINDOW
    BY <1>5, <1>at, <1>b
  <1>7. ASSUME NEW z \in UmSN, b <= RxModBase(z, uh),
               RxModBase(z, uh) < RxModBase(y, uh)
        PROVE  z \in D
    <2> DEFINE m == RxModBase(z, uh) - b
    <2>1. RxModBase(z, uh) \in 0..(UM_MOD - 1)
      BY RxModBaseIsDistance
    <2>2. m \in 0..(n - 1) /\ m \in 0..top /\ b + m = RxModBase(z, uh)
      BY <2>1, <1>7, <1>6, <1>5, <1>b
    <2>3. At(m) = z
      BY <2>2, <1>at, RxModBaseInjective
    <2> QED
      BY <2>2, <2>3, <1>3
  <1> DEFINE E == {s \in D : RxModBase(s, uh) >= RxModBase(y, uh)}
  <1>8. IsWindow(y, uh, E)
    <2>1. ASSUME NEW s \in E
          PROVE  RxModBase(y, uh) < RxModBase(s, uh)
      <3>1. s # y /\ s \in UmSN
        BY <1>3
      <3>2. RxModBase(s, uh) # RxModBase(y, uh)
        BY <3>1, <1>6, RxModBaseInjective
      <3>3. RxModBase(s, uh) \in Int /\ RxModBase(y, uh) \in Int
        BY <3>1, <1>6, RxModBaseIsDistance
      <3>4. RxModBase(s, uh) >= RxModBase(y, uh)
        OBVIOUS
      <3> QED
        BY <3>2, <3>3, <3>4
    <2>2. ASSUME D # {}, RxModBase(y, uh) <= UM_WINDOW - 1
          PROVE  \E s \in E : RxModBase(s, uh) = UM_WINDOW - 1
      <3>1. PICK s \in D : RxModBase(s, uh) = UM_WINDOW - 1
        BY <2>2
      <3> QED
        BY <3>1, <2>2, <1>6, <1>b
    <2>3. ASSUME E = {}
          PROVE  y = uh
      <3>1. CASE D = {}
        <4>1. b = UM_WINDOW
          BY <3>1, EdgeOfWindow
        <4> QED
          BY <4>1, <1>6, <1>5, <1>b, EdgeOfWindow
      <3>2. CASE D # {}
        <4>1. ~(RxModBase(y, uh) <= UM_WINDOW - 1)
          BY <3>2, <2>2, <2>3
        <4>2. RxModBase(y, uh) = UM_WINDOW
          BY <4>1, <1>6, <1>5, <1>b
        <4> QED
          BY <4>2, <1>6, EdgeOfWindow
      <3> QED
        BY <3>1, <3>2
    <2>4. ASSUME E # {}
          PROVE  \E s \in E : RxModBase(s, uh) = UM_WINDOW - 1
      <3>1. PICK s \in E : TRUE
        BY <2>4
      <3>2. RxModBase(y, uh) < RxModBase(s, uh) /\ RxModBase(s, uh) < UM_WINDOW
        BY <2>1
      <3>3. RxModBase(s, uh) \in Int /\ RxModBase(y, uh) \in Int
        BY <1>6, RxModBaseIsDistance
      <3> QED
        BY <3>2, <3>3, <2>2, <1>b
    <2> HIDE DEF E
    <2>5. \A s \in E : RxModBase(s, uh) < UM_WINDOW
      BY DEF E
    <2> QED
      BY <2>1, <2>3, <2>4, <2>5 DEF IsWindow
  <1> QED
    BY <1>5, <1>6, <1>7, <1>8 DEF SecondLoopStops
(* Where the first loop stops. *)
LEMMA CatchUpIs ==
    ASSUME NEW ur \in UmSN, NEW uh \in UmSN, NEW W, NEW k \in 0..UM_MOD,
           InsideReorderingWindow((ur + k) % UM_MOD, uh, LeftAfter(W, ur, k)),
           \A i \in 0..(k - 1) :
              ~InsideReorderingWindow((ur + i) % UM_MOD, uh, LeftAfter(W, ur, i))
    PROVE  CatchUp(ur, uh, W) = k
  <1> DEFINE Inside(m) == InsideReorderingWindow((ur + m) % UM_MOD, uh,
                                                 LeftAfter(W, ur, m))
             Stop(m) == Inside(m) /\ \A i \in 0..(m - 1) : ~Inside(i)
  <1> HIDE DEF Inside
  <1>1. Stop(k)
    BY DEF Inside
  <1>2. CatchUp(ur, uh, W) = CHOOSE m \in 0..UM_MOD : Stop(m)
    BY DEF CatchUp, Inside
  <1>3. ASSUME NEW m \in 0..UM_MOD, Stop(m)
        PROVE  m = k
    <2>1. m < k => m \in 0..(k - 1)
      BY UmSnAssumption
    <2>2. k < m => k \in 0..(m - 1)
      BY UmSnAssumption
    <2> QED
      BY <2>1, <2>2, <1>1, <1>3, UmSnAssumption
  <1> HIDE DEF Stop
  <1>4. \E m \in 0..UM_MOD : Stop(m)
    BY <1>1
  <1> DEFINE c == CHOOSE m \in 0..UM_MOD : Stop(m)
  <1>5. c \in 0..UM_MOD /\ Stop(c)
    BY <1>4
  <1> QED
    BY <1>2, <1>3, <1>5

\* VR(UR) at ur, b above the window that a PDU sn has just moved up by k, the numbers
\* W held, and where the first loop leaves both.
FirstLoop(ur, uh0, W0, sn, uh, W, k, b, n, x, W1) ==
    /\ ur \in UmSN /\ uh0 \in UmSN /\ W0 \in SUBSET UmSN /\ sn \in UmSN
    /\ uh \in UmSN /\ W = W0 \cup {sn}
    /\ k \in 1..UM_WINDOW /\ RxModBase(sn, uh0) = UM_WINDOW + k - 1
    /\ \A z \in UmSN :
          /\ RxModBase(z, uh0) \in 0..(UM_MOD - 1)
          /\ RxModBase(z, uh0) >= k => RxModBase(z, uh) = RxModBase(z, uh0) - k
          /\ RxModBase(z, uh0) < k
                => RxModBase(z, uh) = RxModBase(z, uh0) - k + UM_MOD
    /\ b \in 0..UM_WINDOW /\ RxModBase(ur, uh0) = b
    /\ \A s \in W0 : b < RxModBase(s, uh0) /\ RxModBase(s, uh0) < UM_WINDOW
    /\ n = CatchUp(ur, uh, W) /\ x = (ur + n) % UM_MOD /\ W1 = LeftAfter(W, ur, n)

\* ... and how it leaves them.
FirstLoopStops(uh, sn, W, k, b, x, W1) ==
    /\ x \in UmSN /\ W1 \in SUBSET W /\ W1 # {}
    /\ RxModBase(x, uh) = IF b >= k THEN b - k ELSE 0
    /\ \A s \in W1 : /\ RxModBase(s, uh) < UM_WINDOW
                     /\ RxModBase(x, uh) <= RxModBase(s, uh)
    /\ sn \in W1 /\ RxModBase(sn, uh) = UM_WINDOW - 1

(* The first loop, after a PDU sn has moved the window up by k: VR(UR) is moved into
   the window, over what is pushed out of it only, and sn stays. *)
LEMMA CatchUpMoved ==
    ASSUME NEW ur, NEW uh0, NEW W0, NEW sn, NEW uh, NEW W, NEW k, NEW b,
           NEW n, NEW x, NEW W1, FirstLoop(ur, uh0, W0, sn, uh, W, k, b, n, x, W1)
    PROVE  FirstLoopStops(uh, sn, W, k, b, x, W1)
  <1>h. /\ ur \in UmSN /\ uh0 \in UmSN /\ W0 \in SUBSET UmSN /\ sn \in UmSN
        /\ uh \in UmSN /\ W = W0 \cup {sn}
        /\ k \in 1..UM_WINDOW /\ RxModBase(sn, uh0) = UM_WINDOW + k - 1
        /\ \A z \in UmSN :
              /\ RxModBase(z, uh0) \in 0..(UM_MOD - 1)
              /\ RxModBase(z, uh0) >= k => RxModBase(z, uh) = RxModBase(z, uh0) - k
              /\ RxModBase(z, uh0) < k
                    => RxModBase(z, uh) = RxModBase(z, uh0) - k + UM_MOD
        /\ b \in 0..UM_WINDOW /\ RxModBase(ur, uh0) = b
        /\ \A s \in W0 : b < RxModBase(s, uh0) /\ RxModBase(s, uh0) < UM_WINDOW
        /\ n = CatchUp(ur, uh, W) /\ x = (ur + n) % UM_MOD /\ W1 = LeftAfter(W, ur, n)
    BY DEF FirstLoop
  <1> USE <1>h
  <1>c. UM_WINDOW \in Nat /\ UM_WINDOW > 0 /\ UM_MOD = 2 * UM_WINDOW
    BY UmSnAssumption
  <1>0. 0 \in 0..UM_MOD /\ 0..(0 - 1) = {}
    BY <1>c
  <1>3. RxModBase(sn, uh) = UM_WINDOW - 1
    BY <1>c
  <1>4. sn \in W /\ W \in SUBSET UmSN
    OBVIOUS
  <1>5. (ur + 0) % UM_MOD = ur /\ LeftAfter(W, ur, 0) = W
    <2>1. (ur + 0) % UM_MOD = ur
      BY <1>c DEF UmSN
    <2>2. \A s \in W : (s - ur) % UM_MOD >= 0
      BY Ahead, <1>4, <1>c
    <2> QED
      BY <2>1, <2>2 DEF LeftAfter
  <1>1. CASE b >= k
    <2>1. RxModBase(ur, uh) = b - k /\ b - k < UM_WINDOW
      BY <1>1, <1>c
    <2>2. InsideReorderingWindow((ur + 0) % UM_MOD, uh, LeftAfter(W, ur, 0))
      BY <2>1, <1>5, InsideIsBelowWindow
    <2>3. n = 0
      BY <2>2, <1>0, CatchUpIs
    <2>4. x = ur /\ W1 = W
      BY <2>3, <1>5
    <2>5. ASSUME NEW s \in W
          PROVE  RxModBase(s, uh) < UM_WINDOW /\ b - k <= RxModBase(s, uh)
      <3>1. CASE s = sn
        BY <3>1, <1>3, <2>1, <1>c
      <3>2. CASE s \in W0
        BY <3>2, <1>1, <1>c
      <3> QED
        BY <3>1, <3>2
    <2> QED
      BY <2>1, <2>4, <2>5, <1>1, <1>3, <1>4 DEF FirstLoopStops
  <1>2. CASE ~(b >= k)
    <2>j. PICK j \in 1..UM_WINDOW : j = k - b
      BY <1>2, <1>c
    <2>1. RxModBase(ur, uh) = UM_MOD - j
      BY <2>j, <1>2, <1>c
    <2>2. ASSUME NEW m \in 0..(j - 1)
          PROVE  ~InsideReorderingWindow((ur + m) % UM_MOD, uh, LeftAfter(W, ur, m))
      <3>1. m \in 0..UM_MOD /\ UM_MOD - j + m < UM_MOD /\ UM_MOD - j + m >= UM_WINDOW
        BY <2>j, <1>c
      <3>2. /\ (ur + m) % UM_MOD \in UmSN
            /\ RxModBase((ur + m) % UM_MOD, uh) = UM_MOD - j + m
        BY <3>1, <2>1, Advance
      <3>3. (sn - ur) % UM_MOD = UM_WINDOW + k - 1 - b
        BY Ahead, <1>2, <1>c
      <3>4. sn \in LeftAfter(W, ur, m)
        BY <3>3, <1>4, <2>j, <1>c DEF LeftAfter
      <3> QED
        BY <3>1, <3>2, <3>4, <1>c, <2>j, InsideIsBelowWindow
    <2>3. (ur + j) % UM_MOD \in UmSN /\ RxModBase((ur + j) % UM_MOD, uh) = 0
      <3>1. j \in 0..UM_MOD /\ ~(UM_MOD - j + j < UM_MOD) /\ UM_MOD - j + j - UM_MOD = 0
        BY <2>j, <1>c
      <3> QED
        BY <3>1, <2>1, Advance
    <2>4. InsideReorderingWindow((ur + j) % UM_MOD, uh, LeftAfter(W, ur, j))
      BY <2>3, <1>c, InsideIsBelowWindow
    <2>5. n = j
      <3>1. j \in 0..UM_MOD
        BY <1>c
      <3> QED
        BY <3>1, <2>2, <2>4, CatchUpIs
    <2>6. x \in UmSN /\ RxModBase(x, uh) = 0
      BY <2>3, <2>5
    <2>7. W1 = {s \in W : (s - ur) % UM_MOD >= j}
      BY <2>5 DEF LeftAfter
    <2>8. sn \in W1
      <3>1. (sn - ur) % UM_MOD = UM_WINDOW + k - 1 - b
        BY Ahead, <1>2, <1>c
      <3>2. (sn - ur) % UM_MOD >= j
        BY <3>1, <2>j, <1>c
      <3> QED
        BY <3>2, <2>7, <1>4
    <2>9. ASSUME NEW s \in W1
          PROVE  0 <= RxModBase(s, uh) /\ RxModBase(s, uh) < UM_WINDOW
      <3>1. s \in W /\ (s - ur) % UM_MOD >= j
        BY <2>7
      <3>2. CASE s = sn
        BY <3>2, <1>3, <1>c
      <3>3. CASE s \in W0
        <4>1. RxModBase(s, uh0) \in 0..(UM_MOD - 1) /\ b < RxModBase(s, uh0)
              /\ RxModBase(s, uh0) < UM_WINDOW
          BY <3>3
        <4>2. (s - ur) % UM_MOD = RxModBase(s, uh0) - b
          BY <4>1, <3>3, Ahead, <1>c
        <4>3. RxModBase(s, uh0) >= k
          BY <4>1, <4>2, <3>1, <2>j
        <4> QED
          BY <4>1, <4>3, <3>3, <1>c
      <3> QED
        BY <3>1, <3>2, <3>3
    <2> QED
      BY <2>6, <2>7, <2>8, <2>9, <1>2, <1>3 DEF FirstLoopStops
  <1> QED
    BY <1>1, <1>2

\* A PDU sn is taken into a window.
Taken(ur, uh0, W0, sn, W, uh, n, x, W1) ==
    /\ ur \in UmSN /\ uh0 \in UmSN /\ W0 \in SUBSET UmSN /\ sn \in UmSN
    /\ IsWindow(ur, uh0, W0) /\ RxModBase(sn, uh0) >= RxModBase(ur, uh0)
    /\ W = W0 \cup {sn}
    /\ uh = IF InsideReorderingWindow(sn, uh0, W) THEN uh0 ELSE Next1(sn)
    /\ n = CatchUp(ur, uh, W) /\ x = (ur + n) % UM_MOD /\ W1 = LeftAfter(W, ur, n)

\* ... and VR(UR) caught up.
WindowTakes(ur, uh0, W0, sn, W, uh, x, W1) ==
    /\ uh \in UmSN /\ x \in UmSN /\ W1 \in SUBSET W /\ W1 # {}
    /\ RxModBase(x, uh) < UM_WINDOW
    /\ \A s \in W1 : /\ RxModBase(s, uh) < UM_WINDOW
                     /\ RxModBase(x, uh) <= RxModBase(s, uh)
    /\ \E s \in W1 : RxModBase(s, uh) = UM_WINDOW - 1
    /\ \/ uh = uh0 /\ W0 # {}
       \/ /\ uh = Next1(sn) /\ RxModBase(sn, uh0) >= UM_WINDOW
          /\ RxModBase(x, uh)
                = IF RxModBase(ur, uh0) >= RxModBase(sn, uh0) - UM_WINDOW + 1
                  THEN RxModBase(ur, uh0) - (RxModBase(sn, uh0) - UM_WINDOW + 1)
                  ELSE 0

(* The first loop, after a PDU sn that is not below VR(UR) has been taken into a
   window. *)
LEMMA CatchUpStops ==
    ASSUME NEW ur, NEW uh0, NEW W0, NEW sn, NEW W, NEW uh, NEW n, NEW x, NEW W1,
           Taken(ur, uh0, W0, sn, W, uh, n, x, W1)
    PROVE  WindowTakes(ur, uh0, W0, sn, W, uh, x, W1)
  <1>h. /\ ur \in UmSN /\ uh0 \in UmSN /\ W0 \in SUBSET UmSN /\ sn \in UmSN
        /\ IsWindow(ur, uh0, W0) /\ RxModBase(sn, uh0) >= RxModBase(ur, uh0)
        /\ W = W0 \cup {sn}
        /\ uh = IF InsideReorderingWindow(sn, uh0, W) THEN uh0 ELSE Next1(sn)
        /\ n = CatchUp(ur, uh, W) /\ x = (ur + n) % UM_MOD /\ W1 = LeftAfter(W, ur, n)
    BY DEF Taken
  <1> USE <1>h
  <1>c. UM_WINDOW \in Nat /\ UM_WINDOW > 0 /\ UM_MOD = 2 * UM_WINDOW
    BY UmSnAssumption
  <1>b. PICK b : b = RxModBase(ur, uh0)
    OBVIOUS
  <1>w. W \in SUBSET UmSN /\ W # {} /\ sn \in W
    OBVIOUS
  <1>1. b \in 0..(UM_MOD - 1) /\ RxModBase(sn, uh0) \in 0..(UM_MOD - 1)
    BY <1>b, RxModBaseIsDistance
  <1>2. b <= UM_WINDOW
        /\ \A s \in W0 : b < RxModBase(s, uh0) /\ RxModBase(s, uh0) < UM_WINDOW
    <2>1. \A s \in W0 : /\ RxModBase(s, uh0) \in Int
                        /\ b < RxModBase(s, uh0) /\ RxModBase(s, uh0) < UM_WINDOW
      BY <1>b, RxModBaseIsDistance DEF IsWindow
    <2>2. CASE W0 = {}
      BY <2>2, <1>b, EdgeOfWindow, <1>c DEF IsWindow
    <2>3. CASE W0 # {}
      BY <2>1, <2>3, <1>1, <1>c
    <2> QED
      BY <2>1, <2>2, <2>3
  <1>3. CASE InsideReorderingWindow(sn, uh0, W)
    <2>1. uh = uh0 /\ RxModBase(sn, uh0) < UM_WINDOW
      BY <1>3, <1>w, InsideIsBelowWindow
    <2>2. b < UM_WINDOW
      BY <2>1, <1>1, <1>b, <1>c
    <2>3. W0 # {}
      BY <2>2, <1>b, EdgeOfWindow, <1>c DEF IsWindow
    <2>4. (ur + 0) % UM_MOD = ur /\ LeftAfter(W, ur, 0) = W
      <3>1. (ur + 0) % UM_MOD = ur
        BY <1>c DEF UmSN
      <3>2. \A s \in W : (s - ur) % UM_MOD >= 0
        BY Ahead, <1>w, <1>c
      <3> QED
        BY <3>1, <3>2 DEF LeftAfter
    <2>5. n = 0
      <3>1. InsideReorderingWindow((ur + 0) % UM_MOD, uh, LeftAfter(W, ur, 0))
        BY <2>1, <2>2, <2>4, <1>b, InsideIsBelowWindow
      <3>2. 0 \in 0..UM_MOD /\ 0..(0 - 1) = {}
        BY <1>c
      <3> QED
        BY <3>1, <3>2, <2>1, CatchUpIs
    <2>6. x = ur /\ W1 = W
      BY <2>4, <2>5
    <2>7. \E s \in W : RxModBase(s, uh) = UM_WINDOW - 1
      BY <2>1, <2>3 DEF IsWindow
    <2>8. ASSUME NEW s \in W
          PROVE  RxModBase(s, uh) < UM_WINDOW /\ b <= RxModBase(s, uh)
      <3>1. CASE s = sn
        BY <3>1, <2>1, <1>b
      <3>2. CASE s \in W0
        <4>1. RxModBase(s, uh0) \in Int
          BY <3>2, RxModBaseIsDistance
        <4> QED
          BY <4>1, <3>2, <2>1, <1>1, <1>2
      <3> QED
        BY <3>1, <3>2
    <2> QED
      BY <2>1, <2>2, <2>3, <2>6, <2>7, <2>8, <1>b, <1>w DEF WindowTakes
  <1>4. CASE ~InsideReorderingWindow(sn, uh0, W)
    <2>1. uh = Next1(sn) /\ RxModBase(sn, uh0) >= UM_WINDOW
      BY <1>4, <1>w, <1>1, <1>c, InsideIsBelowWindow
    <2>k. PICK k : k = RxModBase(sn, uh0) - UM_WINDOW + 1
      OBVIOUS
    <2>2. uh \in UmSN /\ k \in 1..UM_WINDOW
      BY <2>1, <2>k, WindowMovesUp
    <2>3. ASSUME NEW z \in UmSN
          PROVE  /\ RxModBase(z, uh0) \in 0..(UM_MOD - 1)
                 /\ RxModBase(z, uh0) >= k => RxModBase(z, uh) = RxModBase(z, uh0) - k
                 /\ RxModBase(z, uh0) < k
                       => RxModBase(z, uh) = RxModBase(z, uh0) - k + UM_MOD
      <3>1. RxModBase(z, uh0) \in 0..(UM_MOD - 1)
        BY RxModBaseIsDistance
      <3>2. RxModBase(z, uh) = IF RxModBase(z, uh0) >= k THEN RxModBase(z, uh0) - k
                               ELSE RxModBase(z, uh0) - k + UM_MOD
        BY <2>1, <2>k, WindowMovesUp
      <3> QED
        BY <3>1, <3>2, <2>2, <1>c
    <2>4. RxModBase(sn, uh0) = UM_WINDOW + k - 1 /\ b \in 0..UM_WINDOW
      BY <2>k, <1>1, <1>2, <1>c
    <2>5. /\ x \in UmSN /\ W1 \in SUBSET W /\ W1 # {}
          /\ RxModBase(x, uh) = IF b >= k THEN b - k ELSE 0
          /\ \A s \in W1 : /\ RxModBase(s, uh) < UM_WINDOW
                           /\ RxModBase(x, uh) <= RxModBase(s, uh)
          /\ sn \in W1 /\ RxModBase(sn, uh) = UM_WINDOW - 1
      <3>1. FirstLoop(ur, uh0, W0, sn, uh, W, k, b, n, x, W1)
        BY <2>2, <2>3, <2>4, <1>b, <1>2 DEF FirstLoop
      <3>2. FirstLoopStops(uh, sn, W, k, b, x, W1)
        BY <3>1, CatchUpMoved
      <3> QED
        BY <3>2 DEF FirstLoopStops
    <2>6. RxModBase(x, uh) < UM_WINDOW
      BY <2>5, <2>2, <2>4, <1>c
    <2> QED
      BY <2>1, <2>2, <2>5, <2>6, <2>k, <1>b DEF WindowTakes
  <1> QED
    BY <1>3, <1>4

------------------------------------------------------------------------------
(* The invariant *)

UmRxInv == UmRxTypeOK /\ UmWindowInv /\ HeldIsWaitedFor

(* What a reordering timer that runs says of VR(UX). *)
LEMMA WaitedFor ==
    ASSUME UmRxInv, reordering_running
    PROVE  /\ RxModBase(vr_ux, vr_uh) \in 0..UM_WINDOW
           /\ RxModBase(vr_ur, vr_uh) \in 0..RxModBase(vr_ux, vr_uh)
           /\ DOMAIN rx_window # {} => RxModBase(vr_ur, vr_uh) < RxModBase(vr_ux, vr_uh)
           /\ DOMAIN rx_window = {} => vr_ur = vr_uh /\ vr_ux = vr_ur
  <1>1. RxModBase(vr_ux, vr_uh) \in 0..(UM_MOD - 1)
        /\ RxModBase(vr_ur, vr_uh) \in 0..(UM_MOD - 1)
        /\ RxModBase(vr_uh, vr_uh) = UM_WINDOW
    BY RxModBaseIsDistance, EdgeOfWindow DEF UmRxInv, UmRxTypeOK
  <1>2. CASE DOMAIN rx_window = {}
    BY <1>1, <1>2, UmSnAssumption DEF UmRxInv, UmWindowInv, IsWindow, HeldIsWaitedFor
  <1>3. CASE DOMAIN rx_window # {}
    BY <1>1, <1>3, UmSnAssumption DEF UmRxInv, HeldIsWaitedFor
  <1> QED
    BY <1>2, <1>3

(* A PDU of the peer. *)
LEMMA HandleDataPduKeepsWindow ==
    ASSUME UmRxInv, NEW pdu, pdu.sn \in UmSN, HandleDataPdu(pdu), ~Discarded(pdu.sn)
    PROVE  UmRxInv'
  <1> DEFINE W0 == DOMAIN rx_window
  <1>sn. PICK sn : sn = pdu.sn
    OBVIOUS
  <1>W. PICK W : W = W0 \cup {sn}
    OBVIOUS
  <1>uh. PICK uh : uh = IF InsideReorderingWindow(sn, vr_uh, W) THEN vr_uh
                        ELSE Next1(sn)
    OBVIOUS
  <1>n1. PICK n1 : n1 = CatchUp(vr_ur, uh, W)
    OBVIOUS
  <1>x. PICK x : x = (vr_ur + n1) % UM_MOD
    OBVIOUS
  <1>W1. PICK W1 : W1 = LeftAfter(W, vr_ur, n1)
    OBVIOUS
  <1>n2. PICK n2 : n2 = InSequence(x, W1)
    OBVIOUS
  <1>y. PICK y : y = (x + n2) % UM_MOD
    OBVIOUS
  <1>W2. PICK W2 : W2 = LeftAfter(W1, x, n2)
    OBVIOUS
  <1> DEFINE still == StillReordering(y, uh, W2)
             start == ~still /\ RxModBase(uh, uh) > RxModBase(y, uh)
  <1>1. /\ vr_uh' = uh /\ vr_ur' = y /\ DOMAIN rx_window' = W2
        /\ reordering_running' = (still \/ start)
        /\ vr_ux' = IF start THEN uh ELSE vr_ux
    BY <1>sn, <1>W, <1>uh, <1>n1, <1>x, <1>W1, <1>n2, <1>y, <1>W2 DEF HandleDataPdu
  <1>c. UM_WINDOW \in Nat /\ UM_WINDOW > 0 /\ UM_MOD = 2 * UM_WINDOW
    BY UmSnAssumption
  <1>t. /\ vr_ur \in UmSN /\ vr_ux \in UmSN /\ vr_uh \in UmSN /\ W0 \in SUBSET UmSN
        /\ sn \in UmSN /\ IsWindow(vr_ur, vr_uh, W0)
    BY <1>sn DEF UmRxInv, UmRxTypeOK, UmWindowInv
  <1>2. RxModBase(sn, vr_uh) >= RxModBase(vr_ur, vr_uh)
    <2>1. RxModBase(sn, vr_uh) \in Nat /\ RxModBase(vr_ur, vr_uh) \in Nat
          /\ RxModBase(vr_uh - UM_WINDOW, vr_uh) = 0
      BY <1>t, <1>c, RxModBaseIsDistance, EdgeOfWindow
    <2> QED
      BY <2>1, <1>sn DEF Discarded
  <1>0. Taken(vr_ur, vr_uh, W0, sn, W, uh, n1, x, W1)
    BY <1>t, <1>2, <1>W, <1>uh, <1>n1, <1>x, <1>W1 DEF Taken
  <1>01. WindowTakes(vr_ur, vr_uh, W0, sn, W, uh, x, W1)
    BY <1>0, CatchUpStops
  <1>3. /\ uh \in UmSN /\ x \in UmSN /\ W1 \in SUBSET UmSN /\ W1 # {}
        /\ RxModBase(x, uh) < UM_WINDOW
        /\ \A s \in W1 : /\ RxModBase(s, uh) < UM_WINDOW
                         /\ RxModBase(x, uh) <= RxModBase(s, uh)
        /\ \E s \in W1 : RxModBase(s, uh) = UM_WINDOW - 1
        /\ W1 \in SUBSET W
    BY <1>01, <1>t, <1>W DEF WindowTakes
  <1>4. \/ uh = vr_uh /\ W0 # {}
        \/ /\ uh = Next1(sn) /\ RxModBase(sn, vr_uh) >= UM_WINDOW
           /\ RxModBase(x, uh)
                 = IF RxModBase(vr_ur, vr_uh) >= RxModBase(sn, vr_uh) - UM_WINDOW + 1
                   THEN RxModBase(vr_ur, vr_uh)
                           - (RxModBase(sn, vr_uh) - UM_WINDOW + 1)
                   ELSE 0
    BY <1>01, <1>t, <1>W DEF WindowTakes
  <1>5. /\ n2 \in 0..UM_WINDOW /\ y \in UmSN
        /\ RxModBase(y, uh) = RxModBase(x, uh) + n2 /\ RxModBase(y, uh) <= UM_WINDOW
        /\ \A z \in UmSN : RxModBase(x, uh) <= RxModBase(z, uh)
                           /\ RxModBase(z, uh) < RxModBase(y, uh) => z \in W1
        /\ IsWindow(y, uh, {s \in W1 : RxModBase(s, uh) >= RxModBase(y, uh)})
    <2>1. RxModBase(x, uh) \in Int /\ RxModBase(x, uh) <= UM_WINDOW
      BY <1>3, <1>c, RxModBaseIsDistance
    <2>2. SecondLoop(x, uh, W1, n2, y)
      BY <2>1, <1>3, <1>n2, <1>y DEF SecondLoop
    <2>3. SecondLoopStops(x, uh, W1, n2, y)
      BY <2>2, InSequenceStops
    <2> QED
      BY <2>3 DEF SecondLoopStops
  <1>6. W2 = {s \in W1 : RxModBase(s, uh) >= RxModBase(y, uh)}
    <2>1. ASSUME NEW s \in W1
          PROVE  (s - x) % UM_MOD >= n2 <=> RxModBase(s, uh) >= RxModBase(y, uh)
      <3>1. (s - x) % UM_MOD = RxModBase(s, uh) - RxModBase(x, uh)
        BY <1>3, Ahead
      <3>2. RxModBase(s, uh) \in Int /\ RxModBase(x, uh) \in Int
        BY <1>3, RxModBaseIsDistance
      <3> QED
        BY <3>1, <3>2, <1>5
    <2> QED
      BY <2>1, <1>W2 DEF LeftAfter
  <1>7. IsWindow(y, uh, W2) /\ W2 \in SUBSET UmSN
    BY <1>5, <1>6, <1>3
  <1>8. RxModBase(uh, uh) = UM_WINDOW
    BY <1>3, EdgeOfWindow
  <1>9. W2 # {} => RxModBase(y, uh) < UM_WINDOW
    <2>1. \A s \in W2 : RxModBase(s, uh) \in Int
      BY <1>7, <1>3, RxModBaseIsDistance
    <2>2. RxModBase(y, uh) \in Int
      BY <1>5, <1>3, RxModBaseIsDistance
    <2> QED
      BY <2>1, <2>2, <1>7, <1>c DEF IsWindow
  <1>10. ASSUME reordering_running, W2 = {}
         PROVE  RxModBase(vr_ux, uh) <= UM_WINDOW
    <2>1. /\ RxModBase(vr_ux, vr_uh) \in 0..UM_WINDOW
          /\ RxModBase(vr_ur, vr_uh) \in 0..RxModBase(vr_ux, vr_uh)
          /\ W0 # {} => RxModBase(vr_ur, vr_uh) < RxModBase(vr_ux, vr_uh)
          /\ W0 = {} => vr_ur = vr_uh /\ vr_ux = vr_ur
      BY <1>10, WaitedFor
    <2>2. CASE uh = vr_uh
      BY <2>1, <2>2
    <2>3. CASE ~(uh = vr_uh)
      <3>1. PICK k : k = RxModBase(sn, vr_uh) - UM_WINDOW + 1
        OBVIOUS
      <3>2. /\ uh = Next1(sn) /\ RxModBase(sn, vr_uh) >= UM_WINDOW
            /\ RxModBase(x, uh) = IF RxModBase(vr_ur, vr_uh) >= k
                                  THEN RxModBase(vr_ur, vr_uh) - k ELSE 0
        BY <2>3, <3>1, <1>4
      <3>3. k \in 1..UM_WINDOW
        BY <3>1, <3>2, <1>t, WindowMovesUp
      <3>4. /\ RxModBase(vr_ux, vr_uh) >= k
                  => RxModBase(vr_ux, uh) = RxModBase(vr_ux, vr_uh) - k
            /\ RxModBase(vr_uh, uh) = UM_WINDOW - k
        <4>1. RxModBase(vr_uh, vr_uh) = UM_WINDOW
          BY <1>t, EdgeOfWindow
        <4>2. \A z \in UmSN : RxModBase(z, uh) = IF RxModBase(z, vr_uh) >= k
                                                THEN RxModBase(z, vr_uh) - k
                                                ELSE RxModBase(z, vr_uh) - k + UM_MOD
          BY <3>1, <3>2, <1>t, WindowMovesUp
        <4>3. UM_WINDOW >= k
          BY <3>3, <1>c
        <4> QED
          BY <4>1, <4>2, <4>3, <1>t
      <3>5. CASE RxModBase(vr_ux, vr_uh) >= k
        BY <3>5, <3>4, <3>3, <2>1, <1>c
      <3>6. CASE ~(RxModBase(vr_ux, vr_uh) >= k)
        <4>1. W0 # {}
          <5>1. SUFFICES ASSUME W0 = {} PROVE FALSE
            OBVIOUS
          <5>2. RxModBase(vr_ux, vr_uh) = UM_WINDOW
            BY <5>1, <2>1, <1>t, EdgeOfWindow
          <5> QED
            BY <5>2, <3>6, <3>3, <1>c
        <4>2. RxModBase(vr_ur, vr_uh) < k /\ k >= 2
          BY <4>1, <2>1, <3>6, <3>3
        <4>3. RxModBase(x, uh) = 0
          BY <4>2, <3>2, <3>3, <2>1, <1>c
        <4>4. vr_uh \notin W
          <5>1. vr_uh # sn
            <6>1. RxModBase(vr_uh, vr_uh) = UM_WINDOW
              BY <1>t, EdgeOfWindow
            <6> QED
              BY <6>1, <4>2, <3>1, <3>3, <1>c
          <5>2. vr_uh \notin W0
            <6>1. RxModBase(vr_uh, vr_uh) = UM_WINDOW
              BY <1>t, EdgeOfWindow
            <6> QED
              BY <6>1, <1>t, <1>c DEF IsWindow
          <5> QED
            BY <5>1, <5>2, <1>W
        <4>5. y = uh
          BY <1>7, <1>10 DEF IsWindow
        <4>6. RxModBase(vr_uh, uh) < RxModBase(y, uh)
              /\ RxModBase(x, uh) <= RxModBase(vr_uh, uh)
          BY <4>5, <4>3, <3>4, <3>3, <1>8, <1>c
        <4>7. vr_uh \in W1
          BY <4>6, <1>5, <1>t
        <4> QED
          BY <4>7, <4>4, <1>3
      <3> QED
        BY <3>5, <3>6
    <2> QED
      BY <2>2, <2>3
  <1>11. /\ RxModBase(y, uh) \in 0..(UM_MOD - 1)
         /\ RxModBase(vr_ux, uh) \in 0..(UM_MOD - 1)
    BY <1>3, <1>5, <1>t, RxModBaseIsDistance
  <1>12. UmRxTypeOK'
    <2>1. vr_ux' \in UmSN
      BY <1>1, <1>3, <1>t
    <2>2. reordering_running' \in BOOLEAN
      BY <1>1
    <2> QED
      BY <2>1, <2>2, <1>1, <1>3, <1>5, <1>7 DEF UmRxTypeOK
  <1>13. UmWindowInv'
    BY <1>1, <1>7 DEF UmWindowInv
  <1>14. still => /\ reordering_running /\ RxModBase(vr_ux, uh) > RxModBase(y, uh)
                  /\ RxModBase(vr_ux, uh) <= UM_WINDOW
    <2>1. SUFFICES ASSUME still
                   PROVE  /\ reordering_running
                          /\ RxModBase(vr_ux, uh) > RxModBase(y, uh)
                          /\ RxModBase(vr_ux, uh) <= UM_WINDOW
      OBVIOUS
    <2>2. reordering_running /\ RxModBase(vr_ux, uh) > RxModBase(y, uh)
          /\ (InsideReorderingWindow(vr_ux, uh, W2) \/ vr_ux = uh)
      BY <2>1 DEF StillReordering
    <2>3. CASE W2 = {}
      BY <2>2, <2>3, <1>10
    <2>4. CASE W2 # {} /\ InsideReorderingWindow(vr_ux, uh, W2)
      BY <2>2, <2>4, <1>3, <1>t, <1>11, <1>c, InsideIsBelowWindow
    <2>5. CASE vr_ux = uh
      BY <2>2, <2>5, <1>8, <1>c
    <2> QED
      BY <2>2, <2>3, <2>4, <2>5
  <1>15. HeldIsWaitedFor'
    <2>1. ASSUME W2 # {}
          PROVE  /\ reordering_running'
                 /\ RxModBase(y, uh) < RxModBase(vr_ux', uh)
                 /\ RxModBase(vr_ux', uh) <= UM_WINDOW
      <3>1. CASE still
        BY <3>1, <1>1, <1>14, <1>11
      <3>2. CASE ~still
        <4>1. start
          BY <3>2, <2>1, <1>9, <1>8, <1>11, <1>c
        <4>2. reordering_running' /\ vr_ux' = uh
          <5> HIDE DEF start, still
          <5> QED
            BY <4>1, <1>1
        <4>3. RxModBase(y, uh) < UM_WINDOW
          BY <1>9, <2>1
        <4> QED
          BY <4>2, <4>3, <1>8, <1>c
      <3> QED
        BY <3>1, <3>2
    <2>2. ASSUME W2 = {}
          PROVE  ~reordering_running'
      <3>1. RxModBase(y, uh) = UM_WINDOW
        BY <2>2, <1>7, <1>8 DEF IsWindow
      <3>2. ~still /\ ~start
        BY <3>1, <1>14, <1>8, <1>11, <1>c
      <3> QED
        BY <3>2, <1>1
    <2> QED
      BY <2>1, <2>2, <1>1 DEF HeldIsWaitedFor
  <1> QED
    BY <1>12, <1>13, <1>15 DEF UmRxInv

(* An expiry of the reordering timer. *)
LEMMA ReorderingExpiredKeepsWindow ==
    ASSUME UmRxInv, ReorderingExpired
    PROVE  UmRxInv'
  <1> DEFINE D == DOMAIN rx_window
             b == RxModBase(vr_ur, vr_uh)
             bx == RxModBase(vr_ux, vr_uh)
             W2 == LeftAfter(D, vr_ur, ExpiryMoves)
  <1>c. UM_WINDOW \in Nat /\ UM_WINDOW > 0 /\ UM_MOD = 2 * UM_WINDOW
    BY UmSnAssumption
  <1>1. /\ vr_uh' = vr_uh /\ vr_ur' = UrAtExpiry /\ DOMAIN rx_window' = W2
        /\ reordering_running' = AgainAtExpiry
        /\ vr_ux' = IF AgainAtExpiry THEN vr_uh ELSE vr_ux
    BY DEF ReorderingExpired, Restrict, LeftAfter
  <1>t. /\ vr_ur \in UmSN /\ vr_ux \in UmSN /\ vr_uh \in UmSN /\ D \in SUBSET UmSN
        /\ IsWindow(vr_ur, vr_uh, D) /\ reordering_running
    BY DEF UmRxInv, UmRxTypeOK, UmWindowInv, ReorderingExpired
  <1>2. /\ bx \in 0..UM_WINDOW /\ b \in 0..bx
        /\ D # {} => b < bx
        /\ D = {} => vr_ur = vr_uh /\ vr_ux = vr_ur
    BY <1>t, WaitedFor
  <1>8. RxModBase(vr_uh, vr_uh) = UM_WINDOW
    BY <1>t, EdgeOfWindow
  <1>3. /\ UrAtExpiry \in UmSN /\ W2 \in SUBSET UmSN
        /\ IsWindow(UrAtExpiry, vr_uh, W2)
        /\ RxModBase(UrAtExpiry, vr_uh) \in 0..UM_WINDOW
    <2>1. CASE D = {}
      <3>1. ExpiryMoves = 0
        BY <2>1, <1>2 DEF ExpiryMoves
      <3>2. UrAtExpiry = vr_ur
        BY <3>1, <1>t, <1>c DEF UrAtExpiry, UmSN
      <3>3. W2 = D
        BY <2>1 DEF LeftAfter
      <3>4. b \in 0..UM_WINDOW
        BY <1>2, <1>c
      <3> QED
        BY <3>2, <3>3, <3>4, <1>t
    <2>2. CASE D # {}
      <3>n. PICK n : n = InSequence(vr_ux, D)
        OBVIOUS
      <3>y. PICK y : y = (vr_ux + n) % UM_MOD
        OBVIOUS
      <3>1. /\ \A s \in D : RxModBase(s, vr_uh) < UM_WINDOW
            /\ \E s \in D : RxModBase(s, vr_uh) = UM_WINDOW - 1
        BY <2>2, <1>t DEF IsWindow
      <3>2. /\ n \in 0..UM_WINDOW /\ y \in UmSN
            /\ RxModBase(y, vr_uh) = bx + n
            /\ RxModBase(y, vr_uh) <= UM_WINDOW
            /\ IsWindow(y, vr_uh, {s \in D : RxModBase(s, vr_uh) >= RxModBase(y, vr_uh)})
        <4>1. RxModBase(vr_ux, vr_uh) <= UM_WINDOW
          BY <1>2, <1>c
        <4>2. SecondLoop(vr_ux, vr_uh, D, n, y)
          BY <4>1, <3>n, <3>y, <3>1, <2>2, <1>t DEF SecondLoop
        <4>3. SecondLoopStops(vr_ux, vr_uh, D, n, y)
          BY <4>2, InSequenceStops
        <4> QED
          BY <4>3 DEF SecondLoopStops
      <3>3. (vr_ux - vr_ur) % UM_MOD = bx - b
        BY <1>2, <1>t, Ahead
      <3>4. ExpiryMoves = bx - b + n
        BY <3>3, <3>n, <2>2, <1>2 DEF ExpiryMoves
      <3>5. UrAtExpiry = y
        <4>1. ExpiryMoves \in 0..UM_MOD /\ b + ExpiryMoves = bx + n
              /\ b + ExpiryMoves < UM_MOD
          BY <3>4, <3>2, <1>2, <1>c
        <4>2. RxModBase(UrAtExpiry, vr_uh) = bx + n /\ UrAtExpiry \in UmSN
          BY <4>1, <1>t, Advance DEF UrAtExpiry
        <4> QED
          BY <4>2, <3>2, <1>t, RxModBaseInjective
      <3>6. W2 = {s \in D : RxModBase(s, vr_uh) >= RxModBase(y, vr_uh)}
        <4>1. ASSUME NEW s \in D
              PROVE  (s - vr_ur) % UM_MOD >= ExpiryMoves
                         <=> RxModBase(s, vr_uh) >= RxModBase(y, vr_uh)
          <5>1. b < RxModBase(s, vr_uh) /\ RxModBase(s, vr_uh) \in Int
            BY <1>t, RxModBaseIsDistance DEF IsWindow
          <5>2. (s - vr_ur) % UM_MOD = RxModBase(s, vr_uh) - b
            BY <5>1, <1>2, <1>t, Ahead
          <5> QED
            BY <5>1, <5>2, <3>2, <3>4, <1>2
        <4> QED
          BY <4>1 DEF LeftAfter
      <3>7. RxModBase(y, vr_uh) \in 0..UM_WINDOW
        BY <3>2, <1>2, <1>c
      <3>8. UrAtExpiry \in UmSN /\ IsWindow(UrAtExpiry, vr_uh, W2)
            /\ RxModBase(UrAtExpiry, vr_uh) \in 0..UM_WINDOW
        BY <3>2, <3>5, <3>6, <3>7
      <3> QED
        BY <3>8, <1>t DEF LeftAfter
    <2> QED
      BY <2>1, <2>2
  <1>4. AgainAtExpiry <=> RxModBase(UrAtExpiry, vr_uh) < UM_WINDOW
    BY <1>3, <1>8, <1>c DEF AgainAtExpiry
  <1>5. UmRxTypeOK'
    <2>1. AgainAtExpiry \in BOOLEAN
      BY <1>3, <1>8, <1>c DEF AgainAtExpiry
    <2> QED
      BY <2>1, <1>1, <1>3, <1>t DEF UmRxTypeOK
  <1>6. UmWindowInv'
    BY <1>1, <1>3 DEF UmWindowInv
  <1>7. HeldIsWaitedFor'
    <2>1. ASSUME W2 # {}
          PROVE  RxModBase(UrAtExpiry, vr_uh) < UM_WINDOW
      <3>1. PICK s \in W2 : TRUE
        BY <2>1
      <3>2. RxModBase(s, vr_uh) \in Int
        BY <1>3, <1>t, RxModBaseIsDistance
      <3>3. RxModBase(UrAtExpiry, vr_uh) < RxModBase(s, vr_uh)
            /\ RxModBase(s, vr_uh) < UM_WINDOW
        BY <1>3 DEF IsWindow
      <3> QED
        BY <3>2, <3>3, <1>3, <1>c
    <2>2. ASSUME W2 = {}
          PROVE  ~AgainAtExpiry
      <3>1. UrAtExpiry = vr_uh
        BY <2>2, <1>3 DEF IsWindow
      <3> QED
        BY <3>1, <1>8, <1>4, <1>c
    <2> QED
      BY <2>1, <2>2, <1>1, <1>4, <1>8, <1>c DEF HeldIsWaitedFor
  <1> QED
    BY <1>5, <1>6, <1>7 DEF UmRxInv

(* Whatever PDU comes, the receiver's window stays a window. *)
LEMMA AnyPduKeepsWindow ==
    ASSUME UmRxInv, NEW pdu, pdu.sn \in UmSN, HandleDataPdu(pdu)
    PROVE  UmRxInv'
  <1>1. CASE Discarded(pdu.sn)
    BY <1>1 DEF HandleDataPdu, um_rx_vars, UmRxInv, UmRxTypeOK, UmWindowInv, HeldIsWaitedFor
  <1>2. CASE ~Discarded(pdu.sn)
    BY <1>2, HandleDataPduKeepsWindow
  <1> QED
    BY <1>1, <1>2

LEMMA ReestablishKeepsWindow ==
    ASSUME UmRxInv, UmRxReestablish(PdcpReset)
    PROVE  UmRxInv'
  <1>1. /\ vr_ur' = 0 /\ vr_ux' = 0 /\ vr_uh' = 0 /\ DOMAIN rx_window' = {}
        /\ reordering_running' \in BOOLEAN
    BY DEF UmRxReestablish
  <1>2. 0 \in UmSN
    BY UmSnAssumption DEF UmSN
  <1> QED
    BY <1>1, <1>2 DEF UmRxInv, UmRxTypeOK, UmWindowInv, IsWindow, HeldIsWaitedFor

LEMMA InitIsWindow == UmRxInit => UmRxInv
  <1> SUFFICES ASSUME UmRxInit PROVE UmRxInv
    OBVIOUS
  <1>1. 0 \in UmSN /\ DOMAIN rx_window = {}
    BY UmSnAssumption DEF UmRxInit, UmSN
  <1> QED
    BY <1>1 DEF UmRxInit, UmRxInv, UmRxTypeOK, UmWindowInv, IsWindow, HeldIsWaitedFor

LEMMA WindowUntouched ==
    ASSUME UmRxInv, UNCHANGED um_rx_vars
    PROVE  UmRxInv'
  BY DEF um_rx_vars, UmRxInv, UmRxTypeOK, UmWindowInv, HeldIsWaitedFor

(* The receiver's variables keep their types, its window is a window, and what it
   holds is waited for: whatever PDUs come, in whatever order, and however often the
   receiver is reestablished (handle_data_pdu, timer_expired, reestablish). *)
THEOREM UmRxSafe == UmRxSpec => [](UmRxTypeOK /\ UmWindowInv /\ HeldIsWaitedFor)
  <1>1. UmRxInv /\ [UmRxNext]_um_rx_vars => UmRxInv'
    BY AnyPduKeepsWindow, ReorderingExpiredKeepsWindow, ReestablishKeepsWindow, WindowUntouched
       DEF UmRxNext, Pdu
  <1>2. UmRxInv => UmRxTypeOK /\ UmWindowInv /\ HeldIsWaitedFor
    BY DEF UmRxInv
  <1> QED
    BY InitIsWindow, <1>1, <1>2, PTL DEF UmRxSpec

------------------------------------------------------------------------------
(* The bearer: the PDUs of its transmitter are numbered, and whatever the MAC makes
   of them is one of the receiver's steps. *)

Numbered == /\ vt_us \in UmSN
            /\ \E T : pdu_list \in Seq(T) /\ \A pdu \in T : pdu.sn \in UmSN

LEMMA BuiltIsNumbered ==
    ASSUME Numbered, NEW g \in Grants, BuildDataPdu(g)
    PROVE  Numbered'
  <1>1. PICK T : pdu_list \in Seq(T) /\ \A pdu \in T : pdu.sn \in UmSN
    BY DEF Numbered
  <1>2. PICK h : h.sn = vt_us /\ pdu_list' = Append(pdu_list, h)
    <2>1. \E data : pdu_list' = Append(pdu_list, Header(vt_us, data))
      BY DEF BuildDataPdu
    <2> QED
      BY <2>1 DEF Header
  <1>3. vt_us' \in UmSN
    BY UmSnAssumption DEF Numbered, BuildDataPdu, UmSN
  <1>4. pdu_list' \in Seq(T \cup {h}) /\ \A pdu \in T \cup {h} : pdu.sn \in UmSN
    BY <1>1, <1>2 DEF Numbered
  <1> QED
    BY <1>3, <1>4 DEF Numbered

LEMMA HandedOverIsNumbered ==
    ASSUME Numbered, NEW i \in 1 .. Len(pdu_list), vt_us' = vt_us,
           pdu_list' \in {pdu_list, Tail(pdu_list), RemoveAt(pdu_list, i)}
    PROVE  Numbered' /\ pdu_list[i].sn \in UmSN
  <1>1. PICK T : pdu_list \in Seq(T) /\ \A pdu \in T : pdu.sn \in UmSN
    BY DEF Numbered
  <1>2. pdu_list' \in Seq(T)
    <2>1. SubSeq(pdu_list, 1, i - 1) \in Seq(T) /\ SubSeq(pdu_list, i + 1, Len(pdu_list)) \in Seq(T)
      BY <1>1
    <2>2. RemoveAt(pdu_list, i) \in Seq(T)
      BY <2>1 DEF RemoveAt
    <2>3. pdu_list # << >>
      BY EmptySeq
    <2>4. Tail(pdu_list) \in Seq(T)
      BY <1>1, <2>3, HeadTailProperties
    <2> QED
      BY <1>1, <2>2, <2>4
  <1> QED
    BY <1>1, <1>2 DEF Numbered

(* What UmRxSafe says of the receiver holds in the bearer, of any window, SDUs and
   grants, and however many PDUs the MAC loses, repeats and reorders. *)
THEOREM UmBearerSafe == Spec => [](UmWindowInv /\ HeldIsWaitedFor)
  <1> DEFINE BearerInv == UmRxInv /\ Numbered
  <1>1. Init => BearerInv
    <2> SUFFICES ASSUME Init PROVE UmRxInv /\ Numbered
      OBVIOUS
    <2>1. pdu_list \in Seq({}) /\ vt_us \in UmSN
      BY UmSnAssumption DEF Init, UmTxInit, UmSN
    <2> QED
      BY <2>1, InitIsWindow DEF Init, Numbered
  <1>2. BearerInv /\ [Next]_vars => BearerInv'
    <2> SUFFICES ASSUME UmRxInv, Numbered, [Next]_vars PROVE UmRxInv' /\ Numbered'
      OBVIOUS
    <2>1. ASSUME UNCHANGED <<vt_us, pdu_list>>
          PROVE  Numbered'
      BY <2>1 DEF Numbered
    <2>2. CASE Write
      BY <2>2, <2>1, WindowUntouched DEF Write, TryWriteSdu
    <2>3. ASSUME NEW g \in Grants, Read(g)
          PROVE  UmRxInv' /\ Numbered'
      BY <2>3, BuiltIsNumbered, WindowUntouched DEF Read
    <2>4. ASSUME NEW i \in 1 .. Len(pdu_list), Receive(pdu_list[i]),
                 pdu_list' \in {pdu_list, Tail(pdu_list), RemoveAt(pdu_list, i)}
          PROVE  UmRxInv' /\ Numbered'
      <3>1. Numbered' /\ pdu_list[i].sn \in UmSN
        BY <2>4, HandedOverIsNumbered DEF Receive
      <3> QED
        BY <2>4, <3>1, AnyPduKeepsWindow DEF Receive
    <2>5. pdu_list # << >> => 1 \in 1 .. Len(pdu_list) /\ Head(pdu_list) = pdu_list[1]
      BY DEF Numbered
    <2>6. CASE Deliver \/ Duplicate
      BY <2>4, <2>5, <2>6 DEF Deliver, Duplicate
    <2>7. CASE Overtake
      <3>1. 2 \in 1 .. Len(pdu_list)
        BY <2>7 DEF Overtake, Numbered
      <3> QED
        BY <2>4, <2>7, <3>1 DEF Overtake
    <2>8. CASE Lose
      BY <2>5, <2>8, HandedOverIsNumbered, WindowUntouched DEF Lose
    <2>9. CASE Reordering
      BY <2>9, <2>1, ReorderingExpiredKeepsWindow DEF Reordering, um_tx_vars
    <2>10. CASE Reestablish
      <3>1. vt_us' \in UmSN /\ pdu_list' \in Seq({})
        BY <2>10, UmSnAssumption DEF Reestablish, UmTxReestablish, UmSN
      <3> QED
        BY <2>10, <3>1, ReestablishKeepsWindow DEF Reestablish, Numbered
    <2>11. CASE UNCHANGED vars
      BY <2>11, <2>1, WindowUntouched DEF vars, um_tx_vars
    <2> QED
      BY <2>2, <2>3, <2>6, <2>7, <2>8, <2>9, <2>10, <2>11 DEF Next
  <1>3. BearerInv => UmWindowInv /\ HeldIsWaitedFor
    BY DEF UmRxInv
  <1> QED
    BY <1>1, <1>2, <1>3, PTL DEF Spec

------------------------------------------------------------------------------
(* What a PDU carries *)

(* The header of a PDU says what the PDU carries (build_data_pdu). *)
LEMMA HeaderSpans ==
    ASSUME NEW d, Run(d), NEW sn
    PROVE  Spans(Header(sn, d), d[1], NextOf(d)) /\ Header(sn, d).sn = sn
  <1>a. PICK n, e, b, m : n = Len(d) /\ e = d[1] /\ b = d[n] /\ m = b[1] - e[1] + 1
    OBVIOUS
  <1>1. /\ e \in SduByte /\ b \in SduByte /\ e[1] <= b[1] /\ (e[1] = b[1] => e[2] <= b[2])
        /\ [i \in 1..m |-> SubSeq(d, BytesUpTo(d, e[1] + i - 2) + 1, BytesUpTo(d, e[1] + i - 1))]
             = [i \in 1..m |-> PieceOf(e, b, i)]
    BY <1>a, CutRun
  <1>2. Cut(d) = [i \in 1..m |-> SubSeq(d, BytesUpTo(d, e[1] + i - 2) + 1, BytesUpTo(d, e[1] + i - 1))]
    BY <1>a DEF Cut, BytesUpTo
  <1>3. /\ Header(sn, d).start_aligned = (e[2] = 1) /\ Header(sn, d).end_aligned = (b[2] = SduLen)
        /\ Header(sn, d).segments = Cut(d) /\ Header(sn, d).sn = sn
    BY <1>a DEF Header
  <1>4. CarriesTo(Header(sn, d), e, b)
    BY <1>1, <1>2, <1>3, <1>a DEF CarriesTo
  <1>5. NextOf(d) = Successor(b)
    BY <1>a DEF NextOf
  <1> QED
    BY <1>3, <1>4, <1>5, <1>a DEF Spans

(* The data of a PDU are the bytes from its first up to the next one's. *)
LEMMA DataIsBetween ==
    ASSUME NEW pdu, NEW e, NEW next, Spans(pdu, e, next)
    PROVE  Data(pdu) = Between(e, next) /\ IsByte(e) /\ IsByte(next) /\ Pos(e) < Pos(next)
           /\ e \in SduByte
  BY SegmentsAreBetween DEF Data

------------------------------------------------------------------------------
(* Reassembly *)

\* The members that reassembly uses, and a PDU.
RxRec == [sdu : Seq(SduByte), in : UmSN, lost : BOOLEAN, out : Seq(Seq(SduByte))]
RxPdu == [sn : UmSN, start_aligned : BOOLEAN, end_aligned : BOOLEAN,
          segments : Seq(Seq(SduByte)) \ {<< >>}]

(* The members keep their types. *)
LEMMA DropPassTypes ==
    ASSUME NEW r \in RxRec, NEW s \in Seq(SduByte)
    PROVE  /\ Drop(r) \in RxRec /\ Drop(r).sdu = << >> /\ Drop(r).in = r.in /\ Drop(r).out = r.out
           /\ Drop(r).lost = FALSE
           /\ PassOn(r, s) \in RxRec /\ PassOn(r, s).sdu = << >> /\ PassOn(r, s).in = r.in
           /\ PassOn(r, s).out = Append(r.out, s)
           /\ \A n \in UmSN : [r EXCEPT !.in = n] \in RxRec
           /\ \A q \in Seq(SduByte) : r.sdu \o q \in Seq(SduByte)
  <1>1. << >> \in Seq(SduByte) /\ r.out \in Seq(Seq(SduByte)) /\ r.sdu \in Seq(SduByte)
        /\ FALSE \in BOOLEAN
    BY EmptySeq DEF RxRec
  <1>2. Append(r.out, s) \in Seq(Seq(SduByte))
    BY <1>1, AppendProperties
  <1>3. \A q \in Seq(SduByte) : r.sdu \o q \in Seq(SduByte)
    BY <1>1, ConcatProperties
  <1>4. Drop(r) = [r EXCEPT !.sdu = << >>, !.lost = FALSE]
    BY DEF Drop
  <1>5. PassOn(r, s) = [r EXCEPT !.sdu = << >>, !.out = Append(@, s), !.lost = FALSE]
    BY DEF PassOn
  <1> QED
    BY <1>1, <1>2, <1>3, <1>4, <1>5 DEF RxRec

\* One segment taken by the first loop, and by the second.
EdgeStep(acc, seg, sn, pdu) ==
    IF (acc.lost /\ ~pdu.start_aligned) \/ sn # Next1(acc.in)
    THEN Drop(acc) ELSE PassOn(acc, acc.sdu \o seg)
LineStep(acc, seg, sn) == [PassOn(acc, acc.sdu \o seg) EXCEPT !.in = sn]

\* The records of the first loop, and of the second.
EdgeTakes(f, r, sn, pdu, segs) ==
    /\ f \in [0..Len(segs) -> RxRec]
    /\ f[0] = r /\ f[Len(segs)] = EdgeSegments(r, sn, pdu)
    /\ \A i \in 1..Len(segs) : f[i] = EdgeStep(f[i - 1], segs[i], sn, pdu)
LineTakes(f, r, sn, segs) ==
    /\ f \in [0..Len(segs) -> RxRec]
    /\ f[0] = r /\ f[Len(segs)] = LineSegments(r, sn, segs)
    /\ \A i \in 1..Len(segs) : f[i] = LineStep(f[i - 1], segs[i], sn)

(* The first loop takes the segments of a PDU one at a time. *)
LEMMA EdgeSegmentsSteps ==
    ASSUME NEW r \in RxRec, NEW sn \in UmSN, NEW pdu, NEW segs \in Seq(Seq(SduByte)),
           segs = Front(pdu.segments)
    PROVE  \E f : EdgeTakes(f, r, sn, pdu, segs)
  <1> PICK n : n = Len(segs)
    OBVIOUS
  <1> DEFINE Take(acc, b) == EdgeStep(acc, b, sn, pdu)
             step == [x \in RxRec \X Seq(SduByte) |-> Take(x[1], x[2])]
             Eq(g) == g = [s \in SUBSET (DOMAIN segs) |->
                             IF s = {} THEN r
                             ELSE Take(g[s \ {Max(s)}], segs[Max(s)])]
             it == CHOOSE g : Eq(g)
  <1>0. n \in Nat /\ segs \in [1..n -> Seq(SduByte)] /\ DOMAIN segs = 1..n
    BY LenProperties, ElementOfSeq
  <1>1. EdgeSegments(r, sn, pdu) = it[1..n]
    BY <1>0 DEF EdgeSegments, FoldLeft, MapThenFoldSet, EdgeStep
  <1>2. \A acc \in RxRec, b \in Seq(SduByte) : Take(acc, b) \in RxRec
    BY DropPassTypes DEF EdgeStep
  <1> HIDE DEF Take
  <1>3. step \in [RxRec \X Seq(SduByte) -> RxRec] /\ r \in RxRec
    BY <1>2
  <1>4. ASSUME NEW g \in [SUBSET (1..n) -> RxRec], Folds(g, step, r, n, segs)
        PROVE  FoldsIn(it, RxRec, step, r, n, segs)
    <2>1. ASSUME NEW s \in SUBSET (1..n), s # {}, NEW acc \in RxRec
          PROVE  step[<<acc, segs[Max(s)]>>] = Take(acc, segs[Max(s)])
      BY <1>0, <2>1, LastOfSet
    <2>2. \A s \in SUBSET (1..n) : s # {} => g[s \ {Max(s)}] \in RxRec
      BY <1>0, <1>4, LastOfSet
    <2>3. Eq(g)
      <3>1. g = [s \in SUBSET (1..n) |-> g[s]]
        OBVIOUS
      <3>2. \A s \in SUBSET (1..n) :
               g[s] = IF s = {} THEN r ELSE step[<<g[s \ {Max(s)}], segs[Max(s)]>>]
        BY <1>4 DEF Folds
      <3> HIDE DEF step
      <3>3. \A s \in SUBSET (1..n) :
               g[s] = IF s = {} THEN r ELSE Take(g[s \ {Max(s)}], segs[Max(s)])
        BY <2>1, <2>2, <3>2
      <3> QED
        BY <1>0, <3>1, <3>3
    <2>4. Eq(it)
      <3> HIDE DEF Eq
      <3> QED
        BY <2>3
    <2> HIDE DEF it, step
    <2> QED
      BY <1>0, <2>1, <2>4 DEF FoldsIn
  <1> HIDE DEF it, step
  <1>5. PICK f \in [0..n -> RxRec] : Steps(f, it, step, r, n, segs)
    BY <1>0, <1>3, <1>4, FoldRuns
  <1> USE DEF step
  <1>6. \A i \in 1..n : f[i] = Take(f[i - 1], segs[i])
    <2> TAKE i \in 1..n
    <2>1. i - 1 \in 0..n /\ segs[i] \in Seq(SduByte)
      BY <1>0
    <2>2. f[i - 1] \in RxRec
      BY <2>1
    <2> QED
      BY <2>1, <2>2, <1>5 DEF Steps
  <1> HIDE DEF step
  <1>7. EdgeTakes(f, r, sn, pdu, segs)
    BY <1>1, <1>5, <1>6 DEF Steps, Take, EdgeTakes
  <1> QED
    BY <1>7

(* So does the second. *)
LEMMA LineSegmentsSteps ==
    ASSUME NEW r \in RxRec, NEW sn \in UmSN, NEW segs \in Seq(Seq(SduByte))
    PROVE  \E f : LineTakes(f, r, sn, segs)
  <1> PICK n : n = Len(segs)
    OBVIOUS
  <1> DEFINE Take(acc, b) == LineStep(acc, b, sn)
             step == [x \in RxRec \X Seq(SduByte) |-> Take(x[1], x[2])]
             Eq(g) == g = [s \in SUBSET (DOMAIN segs) |->
                             IF s = {} THEN r
                             ELSE Take(g[s \ {Max(s)}], segs[Max(s)])]
             it == CHOOSE g : Eq(g)
  <1>0. n \in Nat /\ segs \in [1..n -> Seq(SduByte)] /\ DOMAIN segs = 1..n
    BY LenProperties, ElementOfSeq
  <1>1. LineSegments(r, sn, segs) = it[1..n]
    BY <1>0 DEF LineSegments, FoldLeft, MapThenFoldSet, LineStep
  <1>2. \A acc \in RxRec, b \in Seq(SduByte) : Take(acc, b) \in RxRec
    BY DropPassTypes DEF LineStep
  <1> HIDE DEF Take
  <1>3. step \in [RxRec \X Seq(SduByte) -> RxRec] /\ r \in RxRec
    BY <1>2
  <1>4. ASSUME NEW g \in [SUBSET (1..n) -> RxRec], Folds(g, step, r, n, segs)
        PROVE  FoldsIn(it, RxRec, step, r, n, segs)
    <2>1. ASSUME NEW s \in SUBSET (1..n), s # {}, NEW acc \in RxRec
          PROVE  step[<<acc, segs[Max(s)]>>] = Take(acc, segs[Max(s)])
      BY <1>0, <2>1, LastOfSet
    <2>2. \A s \in SUBSET (1..n) : s # {} => g[s \ {Max(s)}] \in RxRec
      BY <1>0, <1>4, LastOfSet
    <2>3. Eq(g)
      <3>1. g = [s \in SUBSET (1..n) |-> g[s]]
        OBVIOUS
      <3>2. \A s \in SUBSET (1..n) :
               g[s] = IF s = {} THEN r ELSE step[<<g[s \ {Max(s)}], segs[Max(s)]>>]
        BY <1>4 DEF Folds
      <3> HIDE DEF step
      <3>3. \A s \in SUBSET (1..n) :
               g[s] = IF s = {} THEN r ELSE Take(g[s \ {Max(s)}], segs[Max(s)])
        BY <2>1, <2>2, <3>2
      <3> QED
        BY <1>0, <3>1, <3>3
    <2>4. Eq(it)
      <3> HIDE DEF Eq
      <3> QED
        BY <2>3
    <2> HIDE DEF it, step
    <2> QED
      BY <1>0, <2>1, <2>4 DEF FoldsIn
  <1> HIDE DEF it, step
  <1>5. PICK f \in [0..n -> RxRec] : Steps(f, it, step, r, n, segs)
    BY <1>0, <1>3, <1>4, FoldRuns
  <1> USE DEF step
  <1>6. \A i \in 1..n : f[i] = Take(f[i - 1], segs[i])
    <2> TAKE i \in 1..n
    <2>1. i - 1 \in 0..n /\ segs[i] \in Seq(SduByte)
      BY <1>0
    <2>2. f[i - 1] \in RxRec
      BY <2>1
    <2> QED
      BY <2>1, <2>2, <1>5 DEF Steps
  <1> HIDE DEF step
  <1>7. LineTakes(f, r, sn, segs)
    BY <1>1, <1>5, <1>6 DEF Steps, Take, LineTakes
  <1> QED
    BY <1>7

------------------------------------------------------------------------------
(* Segments that end SDUs *)

(* What the first loop makes of the segments before the last. *)
LEMMA EdgeSegmentsKeep ==
    ASSUME NEW r \in RxRec, NEW sn \in UmSN, NEW pdu, NEW segs \in Seq(Seq(SduByte)),
           segs = Front(pdu.segments), NEW lo \in Nat, NEW x \in Nat, lo <= x,
           Handed(r.out, lo, x), EndSdus(r.sdu, segs, x)
    PROVE  LET q == EdgeSegments(r, sn, pdu)
           IN /\ q \in RxRec /\ (segs = << >> => q = r) /\ (segs # << >> => q.sdu = << >>)
              /\ Handed(q.out, lo, x + Len(segs))
  <1>a. PICK n : n = Len(segs)
    OBVIOUS
  <1>1. n \in Nat /\ (segs = << >> <=> n = 0)
    BY <1>a, LenProperties, EmptySeq
  <1>r. PICK f : EdgeTakes(f, r, sn, pdu, segs)
    BY EdgeSegmentsSteps
  <1>2. /\ f \in [0..n -> RxRec]
        /\ f[0] = r /\ f[n] = EdgeSegments(r, sn, pdu)
        /\ \A i \in 1..n : f[i] = EdgeStep(f[i - 1], segs[i], sn, pdu)
    BY <1>a, <1>r DEF EdgeTakes
  <1>3. \A i \in 1..n : Ends(f[i - 1], f[i], segs[i])
    <2> TAKE i \in 1..n
    <2>1. i - 1 \in 0..n
      BY <1>1
    <2>2. f[i - 1] \in RxRec /\ segs[i] \in Seq(SduByte)
      BY <1>2, <1>a, <2>1, ElementOfSeq
    <2>a. PICK acc, s : acc = f[i - 1] /\ s = f[i - 1].sdu \o segs[i]
      OBVIOUS
    <2>3. s \in Seq(SduByte)
      BY <2>2, <2>a, DropPassTypes
    <2>4. /\ PassOn(acc, s).sdu = << >> /\ PassOn(acc, s).out = Append(acc.out, s)
          /\ Drop(acc).sdu = << >> /\ Drop(acc).out = acc.out
      BY <2>2, <2>3, <2>a, DropPassTypes
    <2>5. f[i] \in {Drop(acc), PassOn(acc, s)}
      BY <1>2, <2>a DEF EdgeStep
    <2> QED
      BY <2>4, <2>5, <2>a DEF Ends
  <1>4. (n > 0 => f[n].sdu = << >>) /\ Handed(f[n].out, lo, x + n)
    BY <1>1, <1>2, <1>3, <1>a, SegmentsHanded
  <1>5. f[n] \in RxRec
    BY <1>1, <1>2
  <1> QED
    BY <1>1, <1>2, <1>4, <1>5, <1>a

(* The same of the second loop. *)
LEMMA LineSegmentsKeep ==
    ASSUME NEW r \in RxRec, NEW sn \in UmSN, NEW segs \in Seq(Seq(SduByte)),
           NEW lo \in Nat, NEW x \in Nat, lo <= x,
           Handed(r.out, lo, x), EndSdus(r.sdu, segs, x)
    PROVE  LET q == LineSegments(r, sn, segs)
           IN /\ q \in RxRec /\ (segs = << >> => q = r) /\ (segs # << >> => q.sdu = << >>)
              /\ Handed(q.out, lo, x + Len(segs))
  <1>a. PICK n : n = Len(segs)
    OBVIOUS
  <1>1. n \in Nat /\ (segs = << >> <=> n = 0)
    BY <1>a, LenProperties, EmptySeq
  <1>r. PICK f : LineTakes(f, r, sn, segs)
    BY LineSegmentsSteps
  <1>2. /\ f \in [0..n -> RxRec]
        /\ f[0] = r /\ f[n] = LineSegments(r, sn, segs)
        /\ \A i \in 1..n : f[i] = LineStep(f[i - 1], segs[i], sn)
    BY <1>a, <1>r DEF LineTakes
  <1>3. \A i \in 1..n : Ends(f[i - 1], f[i], segs[i])
    <2> TAKE i \in 1..n
    <2>1. i - 1 \in 0..n
      BY <1>1
    <2>2. f[i - 1] \in RxRec /\ segs[i] \in Seq(SduByte)
      BY <1>2, <1>a, <2>1, ElementOfSeq
    <2>a. PICK acc, s : acc = f[i - 1] /\ s = f[i - 1].sdu \o segs[i]
      OBVIOUS
    <2>3. s \in Seq(SduByte)
      BY <2>2, <2>a, DropPassTypes
    <2>4. PassOn(acc, s) \in RxRec /\ PassOn(acc, s).sdu = << >> /\ PassOn(acc, s).out = Append(acc.out, s)
      BY <2>2, <2>3, <2>a, DropPassTypes
    <2>5. \A p \in RxRec : [p EXCEPT !.in = sn].sdu = p.sdu /\ [p EXCEPT !.in = sn].out = p.out
      BY DEF RxRec
    <2>6. f[i] = [PassOn(acc, s) EXCEPT !.in = sn]
      BY <1>2, <2>a DEF LineStep
    <2> QED
      BY <2>4, <2>5, <2>6, <2>a DEF Ends
  <1>4. (n > 0 => f[n].sdu = << >>) /\ Handed(f[n].out, lo, x + n)
    BY <1>1, <1>2, <1>3, <1>a, SegmentsHanded
  <1>5. f[n] \in RxRec
    BY <1>1, <1>2
  <1> QED
    BY <1>1, <1>2, <1>4, <1>5, <1>a

------------------------------------------------------------------------------
(* Reassembly of one PDU *)

\* Reassembly before the byte e, with SDUs out from the place lo on; the number n gave
\* rx_sdu its last bytes.
Good(r, e, n, lo) ==
    /\ r \in RxRec
    /\ r.sdu = << >> \/ (r.sdu = Part(e) /\ r.in = n)
    /\ Handed(r.out, lo, e[1])

------------------------------------------------------------------------------
(* The last segment of a PDU, which may begin an SDU *)

(* The last segment is added to what precedes it. *)
LEMMA LastSegmentKeeps ==
    ASSUME NEW r \in RxRec, NEW sn \in UmSN, NEW pdu, NEW b \in SduByte, NEW lo \in Nat,
           pdu.end_aligned = (b[2] = SduLen), lo <= b[1], Handed(r.out, lo, b[1]),
           Last(pdu.segments) \in Seq(SduByte),
           r.sdu \o Last(pdu.segments) = Piece(b[1], 1, b[2])
    PROVE  Good(LastSegment(r, sn, pdu), Successor(b), sn, lo)
  <1>a. PICK whole, r1, next : /\ whole = r.sdu \o Last(pdu.segments)
                               /\ r1 = [r EXCEPT !.sdu = whole, !.in = sn]
                               /\ next = Successor(b)
    OBVIOUS
  <1>1. whole \in Seq(SduByte)
    BY <1>a, DropPassTypes, EmptySeq
  <1>2. r1 \in RxRec /\ r1.sdu = whole /\ r1.in = sn /\ r1.out = r.out
    BY <1>1, <1>a DEF RxRec
  <1>3. /\ b[1] \in 1..MaxSdus /\ next[1] \in Nat /\ b[1] <= next[1]
        /\ b[2] = SduLen => next[1] = b[1] + 1
        /\ b[2] # SduLen => next[1] = b[1] /\ Part(next) = whole
    BY <1>a, NextByteType
  <1>4. b[1] \in Nat /\ b[1] <= b[1]
    BY <1>3
  <1>5. Handed(r1.out, lo, next[1])
    BY <1>2, <1>3, <1>4, HandedUpTo
  <1>6. CASE ~pdu.end_aligned
    <2>1. LastSegment(r, sn, pdu) = r1
      BY <1>6, <1>a DEF LastSegment
    <2>2. b[2] # SduLen
      BY <1>6
    <2> QED
      BY <1>2, <1>3, <1>5, <1>a, <2>1, <2>2 DEF Good
  <1>7. CASE pdu.end_aligned
    <2>1. b[2] = SduLen
      BY <1>7
    <2>2. LastSegment(r, sn, pdu) \in {Drop(r1), PassOn(r1, whole)}
      BY <1>7, <1>a DEF LastSegment
    <2>3. /\ Drop(r1) \in RxRec /\ Drop(r1).sdu = << >> /\ Drop(r1).out = r1.out
          /\ PassOn(r1, whole) \in RxRec /\ PassOn(r1, whole).sdu = << >>
          /\ PassOn(r1, whole).out = Append(r1.out, whole)
      BY <1>1, <1>2, DropPassTypes
    <2>4. whole = SduBytes(b[1])
      <3>1. Piece(b[1], 1, b[2]) = Piece(b[1], 1, SduLen)
        BY <2>1
      <3>2. Piece(b[1], 1, SduLen) = SduBytes(b[1])
        BY <1>3, PieceIsSdu
      <3> QED
        BY <1>a, <3>1, <3>2
    <2>5. Handed(Append(r1.out, whole), lo, next[1])
      <3>1. Handed(Append(r.out, SduBytes(b[1])), lo, b[1] + 1)
        BY <1>3, <1>4, HandedOneMore
      <3> QED
        BY <1>2, <1>3, <2>1, <2>4, <3>1
    <2> QED
      BY <1>5, <1>a, <2>2, <2>3, <2>5 DEF Good
  <1> QED
    BY <1>6, <1>7

(* Nothing is held of an SDU: every later place is good. *)
LEMMA GoodEmpty ==
    ASSUME NEW r \in RxRec, r.sdu = << >>, NEW lo \in Nat, NEW x \in Nat,
           NEW next, next[1] \in Nat, x <= next[1], Handed(r.out, lo, x), NEW n
    PROVE  Good(r, next, n, lo)
  BY HandedUpTo DEF Good

(* A PDU below the window is reassembled. *)
LEMMA LowerEdgeKeeps ==
    ASSUME NEW r, NEW sn \in UmSN, NEW pdu, NEW e, NEW next, Spans(pdu, e, next),
           NEW n, NEW lo \in Nat, lo <= e[1], Good(r, e, n, lo)
    PROVE  Good(LowerEdgePdu(r, sn, pdu), next, sn, lo)
  <1>1. PICK b : CarriesTo(pdu, e, b) /\ next = Successor(b)
    BY DEF Spans
  <1>2. /\ e \in SduByte /\ b \in SduByte /\ e[1] <= b[1]
        /\ pdu.start_aligned = (e[2] = 1) /\ pdu.end_aligned = (b[2] = SduLen)
    BY <1>1 DEF CarriesTo
  <1>3. /\ e[1] \in 1..MaxSdus /\ b[1] \in 1..MaxSdus /\ next[1] \in Nat /\ b[1] <= next[1]
        /\ e[1] <= next[1] /\ e[1] \in Nat /\ b[1] \in Nat /\ lo <= b[1]
    BY <1>1, <1>2, PartType, NextByteType
  <1>4. r \in RxRec /\ (r.sdu = << >> \/ r.sdu = Part(e)) /\ Handed(r.out, lo, e[1])
    BY DEF Good
  <1>5. CASE r.sdu = << >> /\ ~pdu.start_aligned
    <2>1. LowerEdgePdu(r, sn, pdu) = r
      BY <1>5 DEF LowerEdgePdu
    <2> QED
      BY <1>3, <1>4, <1>5, <2>1, GoodEmpty
  <1>6. CASE ~(r.sdu = << >> /\ ~pdu.start_aligned)
    <2>1. r.sdu = Part(e)
      BY <1>2, <1>4, <1>6, PartType
    <2>a. PICK q : q = EdgeSegments(r, sn, pdu)
      OBVIOUS
    <2>b. PICK segs : segs = Front(pdu.segments)
      OBVIOUS
    <2>2. /\ segs \in Seq(Seq(SduByte)) /\ EndSdus(r.sdu, segs, e[1]) /\ e[1] + Len(segs) = b[1]
          /\ Len(segs) = Len(pdu.segments) - 1
      BY <1>1, <2>1, <2>b, FrontEnds
    <2>3. /\ q \in RxRec /\ (segs = << >> => q = r) /\ (segs # << >> => q.sdu = << >>)
          /\ Handed(q.out, lo, e[1] + Len(segs))
      BY <1>3, <1>4, <2>2, <2>a, <2>b, EdgeSegmentsKeep
    <2>6. Handed(q.out, lo, b[1])
      BY <2>2, <2>3
    <2>4. CASE q.sdu = << >> /\ ~pdu.start_aligned
      <3>1. LowerEdgePdu(r, sn, pdu) = q
        BY <1>6, <2>4, <2>a DEF LowerEdgePdu
      <3> QED
        BY <1>3, <2>3, <2>6, <2>4, <3>1, GoodEmpty
    <2>5. CASE ~(q.sdu = << >> /\ ~pdu.start_aligned)
      <3>1. LowerEdgePdu(r, sn, pdu) = LastSegment(q, sn, pdu)
        BY <1>6, <2>5, <2>a DEF LowerEdgePdu
      <3>2. Last(pdu.segments) \in Seq(SduByte) /\ q.sdu \o Last(pdu.segments) = Piece(b[1], 1, b[2])
        BY <1>1, <2>1, <2>2, <2>3, WholeLast
      <3> QED
        BY <1>1, <1>2, <1>3, <2>3, <2>6, <3>1, <3>2, LastSegmentKeeps
    <2> QED
      BY <2>4, <2>5
  <1> QED
    BY <1>5, <1>6

(* A PDU in sequence is reassembled. *)
LEMMA InSequenceKeeps ==
    ASSUME NEW r \in RxRec, NEW sn \in UmSN, NEW pdu, NEW e, NEW next, Spans(pdu, e, next),
           NEW lo \in Nat, lo <= e[1], Handed(r.out, lo, e[1]),
           r.sdu = << >> \/ r.sdu = Part(e) \/ ~PduBelongsToRxSdu(r.in, sn)
    PROVE  Good(InSequencePdu(r, sn, pdu), next, sn, lo)
  <1>1. PICK b : CarriesTo(pdu, e, b) /\ next = Successor(b)
    BY DEF Spans
  <1>2. /\ e \in SduByte /\ b \in SduByte /\ e[1] <= b[1]
        /\ pdu.start_aligned = (e[2] = 1) /\ pdu.end_aligned = (b[2] = SduLen)
    BY <1>1 DEF CarriesTo
  <1>3. /\ e[1] \in 1..MaxSdus /\ b[1] \in 1..MaxSdus /\ next[1] \in Nat /\ b[1] <= next[1]
        /\ e[1] <= next[1] /\ e[1] \in Nat /\ b[1] \in Nat /\ lo <= b[1] /\ e[1] <= e[1] + 1
        /\ lo <= e[1] + 1 /\ e[1] + 1 \in Nat
    BY <1>1, <1>2, PartType, NextByteType
  <1>a. PICK r1 : r1 = IF PduBelongsToRxSdu(r.in, sn) THEN r ELSE Drop(r)
    OBVIOUS
  <1>b. PICK segs : segs = pdu.segments
    OBVIOUS
  <1>4. /\ r1 \in RxRec /\ (r1.sdu = << >> \/ r1.sdu = Part(e)) /\ Handed(r1.out, lo, e[1])
    <2>1. Drop(r) \in RxRec /\ Drop(r).sdu = << >> /\ Drop(r).out = r.out
      BY DropPassTypes, EmptySeq
    <2> QED
      BY <1>a, <2>1
  <1>5. /\ segs \in Seq(Seq(SduByte)) /\ Len(segs) \in Nat /\ segs # << >>
        /\ Last(segs) \in Seq(SduByte)
        /\ Len(segs) > 1 => Last(segs) = Piece(b[1], 1, b[2])
    <2>a. PICK m : m = b[1] - e[1] + 1
      OBVIOUS
    <2>1. /\ m \in Nat \ {0} /\ segs \in Seq(Seq(SduByte)) /\ Len(segs) = m
          /\ Last(segs) \in Seq(SduByte) /\ (m # 1 => Last(segs) = Piece(b[1], 1, b[2]))
      BY <1>1, <1>b, <2>a, CarriedSegments
    <2> QED
      BY <2>1, EmptySeq
  <1>6. CASE r1.sdu = << >> /\ ~pdu.start_aligned /\ ~(Len(segs) > 1)
    <2>1. InSequencePdu(r, sn, pdu) = r1
      BY <1>6, <1>a, <1>b DEF InSequencePdu
    <2> QED
      BY <1>3, <1>4, <1>6, <2>1, GoodEmpty
  <1>7. CASE r1.sdu = << >> /\ ~pdu.start_aligned /\ Len(segs) > 1
    <2>a. PICK mid : mid = Front(Tail(segs))
      OBVIOUS
    <2>b. PICK r2 : r2 = Drop(r1)
      OBVIOUS
    <2>c. PICK q : q = LineSegments(r2, sn, mid)
      OBVIOUS
    <2>1. InSequencePdu(r, sn, pdu) = LastSegment(q, sn, pdu)
      BY <1>7, <1>a, <1>b, <2>a, <2>b, <2>c DEF InSequencePdu
    <2>2. /\ mid \in Seq(Seq(SduByte)) /\ EndSdus(<< >>, mid, e[1] + 1)
          /\ (e[1] + 1) + Len(mid) = b[1]
      BY <1>1, <1>7, <1>b, <2>a, MiddleEnds
    <2>3. r2 \in RxRec /\ r2.sdu = << >> /\ r2.out = r1.out
      BY <1>4, <2>b, DropPassTypes, EmptySeq
    <2>4. Handed(r2.out, lo, e[1] + 1)
      BY <1>3, <1>4, <2>3, HandedUpTo
    <2>5. EndSdus(r2.sdu, mid, e[1] + 1)
      BY <2>2, <2>3
    <2>6. /\ q \in RxRec /\ (mid = << >> => q = r2) /\ (mid # << >> => q.sdu = << >>)
          /\ Handed(q.out, lo, (e[1] + 1) + Len(mid))
      BY <1>3, <2>2, <2>3, <2>4, <2>5, <2>c, LineSegmentsKeep
    <2>7. q.sdu = << >> /\ Handed(q.out, lo, b[1])
      BY <2>2, <2>3, <2>6
    <2>8. q.sdu \o Last(segs) = Piece(b[1], 1, b[2])
      <3>1. Last(segs) = Piece(b[1], 1, b[2])
        BY <1>5, <1>7
      <3> QED
        BY <1>5, <2>7, <3>1, ConcatEmptySeq
    <2> QED
      BY <1>1, <1>2, <1>3, <1>5, <1>b, <2>1, <2>6, <2>7, <2>8, LastSegmentKeeps
  <1>8. CASE ~(r1.sdu = << >> /\ ~pdu.start_aligned)
    <2>1. r1.sdu = Part(e)
      BY <1>2, <1>4, <1>8, PartType
    <2>a. PICK mid : mid = Front(segs)
      OBVIOUS
    <2>c. PICK q : q = LineSegments(r1, sn, mid)
      OBVIOUS
    <2>2. InSequencePdu(r, sn, pdu) = LastSegment(q, sn, pdu)
      BY <1>8, <1>a, <1>b, <2>a, <2>c DEF InSequencePdu
    <2>3. /\ mid \in Seq(Seq(SduByte)) /\ EndSdus(r1.sdu, mid, e[1]) /\ e[1] + Len(mid) = b[1]
          /\ Len(mid) = Len(pdu.segments) - 1
      BY <1>1, <1>b, <2>1, <2>a, FrontEnds
    <2>4. /\ q \in RxRec /\ (mid = << >> => q = r1) /\ (mid # << >> => q.sdu = << >>)
          /\ Handed(q.out, lo, e[1] + Len(mid))
      BY <1>3, <1>4, <2>3, <2>c, LineSegmentsKeep
    <2>5. Last(pdu.segments) \in Seq(SduByte) /\ q.sdu \o Last(pdu.segments) = Piece(b[1], 1, b[2])
      BY <1>1, <1>b, <2>1, <2>3, <2>4, <2>a, WholeLast
    <2>6. Handed(q.out, lo, b[1])
      BY <2>3, <2>4
    <2> QED
      BY <1>1, <1>2, <1>3, <2>2, <2>4, <2>5, <2>6, LastSegmentKeeps
  <1> QED
    BY <1>6, <1>7, <1>8

------------------------------------------------------------------------------
(* Reassembly of the PDUs of the window *)

(* The last segment of a PDU. *)
LEMMA LastSegmentType ==
    ASSUME NEW r \in RxRec, NEW sn \in UmSN, NEW pdu \in RxPdu
    PROVE  LastSegment(r, sn, pdu) \in RxRec
  <1>a. PICK segs : segs = pdu.segments
    OBVIOUS
  <1>1. segs \in Seq(Seq(SduByte)) /\ segs # << >>
    BY <1>a DEF RxPdu
  <1>2. Len(segs) \in 1..Len(segs)
    BY <1>1, LenProperties, EmptySeq
  <1>3. Last(segs) \in Seq(SduByte)
    BY <1>1, <1>2, ElementOfSeq DEF Last
  <1>b. PICK whole : whole = r.sdu \o Last(segs)
    OBVIOUS
  <1>4. whole \in Seq(SduByte)
    BY <1>3, <1>b, DropPassTypes
  <1>c. PICK r1 : r1 = [r EXCEPT !.sdu = whole, !.in = sn]
    OBVIOUS
  <1>5. r1 \in RxRec
    BY <1>4, <1>c DEF RxRec
  <1>6. Drop(r1) \in RxRec /\ PassOn(r1, whole) \in RxRec
    BY <1>4, <1>5, DropPassTypes
  <1> QED
    BY <1>5, <1>6, <1>a, <1>b, <1>c DEF LastSegment

LEMMA EdgeSegmentsType ==
    ASSUME NEW r \in RxRec, NEW sn \in UmSN, NEW pdu \in RxPdu
    PROVE  EdgeSegments(r, sn, pdu) \in RxRec
  <1>a. PICK segs : segs = Front(pdu.segments)
    OBVIOUS
  <1>1. segs \in Seq(Seq(SduByte))
    BY <1>a, FrontType DEF RxPdu
  <1>b. PICK n : n = Len(segs)
    OBVIOUS
  <1>2. n \in Nat
    BY <1>1, <1>b, LenProperties
  <1>r. PICK f : EdgeTakes(f, r, sn, pdu, segs)
    BY <1>1, <1>a, EdgeSegmentsSteps
  <1>3. f \in [0..n -> RxRec] /\ f[n] = EdgeSegments(r, sn, pdu)
    BY <1>b, <1>r DEF EdgeTakes
  <1> QED
    BY <1>2, <1>3

LEMMA LineSegmentsType ==
    ASSUME NEW r \in RxRec, NEW sn \in UmSN, NEW segs \in Seq(Seq(SduByte))
    PROVE  LineSegments(r, sn, segs) \in RxRec
  <1>b. PICK n : n = Len(segs)
    OBVIOUS
  <1>2. n \in Nat
    BY <1>b, LenProperties
  <1>r. PICK f : LineTakes(f, r, sn, segs)
    BY LineSegmentsSteps
  <1>3. f \in [0..n -> RxRec] /\ f[0] = r /\ f[n] = LineSegments(r, sn, segs)
    BY <1>b, <1>r DEF LineTakes
  <1> QED
    BY <1>2, <1>3

LEMMA LowerEdgeType ==
    ASSUME NEW r \in RxRec, NEW sn \in UmSN, NEW pdu \in RxPdu
    PROVE  LowerEdgePdu(r, sn, pdu) \in RxRec
  <1>a. PICK q : q = EdgeSegments(r, sn, pdu)
    OBVIOUS
  <1>1. q \in RxRec
    BY <1>a, EdgeSegmentsType
  <1>2. LastSegment(q, sn, pdu) \in RxRec
    BY <1>1, LastSegmentType
  <1> QED
    BY <1>1, <1>2, <1>a DEF LowerEdgePdu

LEMMA InSequenceType ==
    ASSUME NEW r \in RxRec, NEW sn \in UmSN, NEW pdu \in RxPdu
    PROVE  InSequencePdu(r, sn, pdu) \in RxRec
  <1>a. PICK segs : segs = pdu.segments
    OBVIOUS
  <1>b. PICK r1 : r1 = IF PduBelongsToRxSdu(r.in, sn) THEN r ELSE Drop(r)
    OBVIOUS
  <1>1. segs \in Seq(Seq(SduByte)) /\ segs # << >>
    BY <1>a DEF RxPdu
  <1>2. r1 \in RxRec /\ Drop(r1) \in RxRec
    BY <1>b, DropPassTypes, EmptySeq
  <1>3. CASE r1.sdu = << >> /\ ~pdu.start_aligned /\ ~(Len(segs) > 1)
    <2>1. InSequencePdu(r, sn, pdu) = r1
      BY <1>3, <1>a, <1>b DEF InSequencePdu
    <2> QED
      BY <1>2, <2>1
  <1>4. CASE r1.sdu = << >> /\ ~pdu.start_aligned /\ Len(segs) > 1
    <2>a. PICK mid : mid = Front(Tail(segs))
      OBVIOUS
    <2>b. PICK q : q = LineSegments(Drop(r1), sn, mid)
      OBVIOUS
    <2>1. InSequencePdu(r, sn, pdu) = LastSegment(q, sn, pdu)
      BY <1>4, <1>a, <1>b, <2>a, <2>b DEF InSequencePdu
    <2>c. PICK t, n : t = Tail(segs) /\ n = Len(segs)
      OBVIOUS
    <2>2. t \in Seq(Seq(SduByte)) /\ Len(t) = n - 1 /\ n \in Nat
      BY <1>1, <2>c, HeadTailProperties, LenProperties
    <2>3. n > 1
      BY <1>4, <2>c
    <2>4. t # << >>
      BY <2>2, <2>3, EmptySeq
    <2>6. mid \in Seq(Seq(SduByte))
      BY <2>2, <2>4, <2>a, <2>c, FrontType
    <2>5. q \in RxRec
      BY <1>2, <2>6, <2>b, LineSegmentsType
    <2> QED
      BY <2>1, <2>5, LastSegmentType
  <1>5. CASE ~(r1.sdu = << >> /\ ~pdu.start_aligned)
    <2>a. PICK mid : mid = Front(segs)
      OBVIOUS
    <2>b. PICK q : q = LineSegments(r1, sn, mid)
      OBVIOUS
    <2>1. InSequencePdu(r, sn, pdu) = LastSegment(q, sn, pdu)
      BY <1>5, <1>a, <1>b, <2>a, <2>b DEF InSequencePdu
    <2>2. mid \in Seq(Seq(SduByte))
      BY <1>1, <2>a, FrontType
    <2>3. q \in RxRec
      BY <1>2, <2>2, <2>b, LineSegmentsType
    <2> QED
      BY <2>1, <2>3, LastSegmentType
  <1> QED
    BY <1>3, <1>4, <1>5

------------------------------------------------------------------------------
(* One number passed by the first loop, and by the second *)

EdgePass(acc, s, win) ==
    IF s \in DOMAIN win THEN LowerEdgePdu(acc, s, win[s]) ELSE [acc EXCEPT !.sdu = << >>]
LinePass(acc, s, win) == IF s \in DOMAIN win THEN InSequencePdu(acc, s, win[s]) ELSE acc

\* win holds PDUs.
PdusIn(win) == \A s \in DOMAIN win : win[s] \in RxPdu

LEMMA PassTypes ==
    ASSUME NEW win, PdusIn(win), NEW acc \in RxRec, NEW s \in UmSN
    PROVE  EdgePass(acc, s, win) \in RxRec /\ LinePass(acc, s, win) \in RxRec
  <1>1. [acc EXCEPT !.sdu = << >>] \in RxRec
    BY EmptySeq DEF RxRec
  <1> QED
    BY <1>1, LowerEdgeType, InSequenceType DEF PdusIn, EdgePass, LinePass

LEMMA FromType ==
    ASSUME NEW x \in UmSN, NEW n \in Nat
    PROVE  /\ From(x, n) \in [1..n -> UmSN] /\ DOMAIN From(x, n) = 1..n
           /\ \A i \in 1..n : From(x, n)[i] = (x + i - 1) % UM_MOD
  <1>1. \A i \in 1..n : (x + i - 1) % UM_MOD \in UmSN
    BY UmSnAssumption DEF UmSN
  <1> QED
    BY <1>1 DEF From

(* The first loop passes the numbers one at a time. *)
LEMMA PassEdgeSteps ==
    ASSUME NEW win, PdusIn(win), NEW r \in RxRec,
           NEW x \in UmSN, NEW n \in Nat, NEW nums, nums = From(x, n)
    PROVE  \E f \in [0..n -> RxRec] :
              /\ f[0] = r /\ f[n] = PassEdge(win, r, x, n)
              /\ \A i \in 1..n : f[i] = EdgePass(f[i - 1], nums[i], win)
  <1> DEFINE Take(acc, b) == EdgePass(acc, b, win)
             step == [p \in RxRec \X UmSN |-> Take(p[1], p[2])]
             Eq(g) == g = [s \in SUBSET (DOMAIN nums) |->
                             IF s = {} THEN r
                             ELSE Take(g[s \ {Max(s)}], nums[Max(s)])]
             it == CHOOSE g : Eq(g)
  <1>0. n \in Nat /\ nums \in [1..n -> UmSN] /\ DOMAIN nums = 1..n
    BY FromType
  <1>1. PassEdge(win, r, x, n) = it[1..n]
    BY <1>0 DEF PassEdge, FoldLeft, MapThenFoldSet, EdgePass
  <1>2. \A acc \in RxRec, b \in UmSN : Take(acc, b) \in RxRec
    BY PassTypes
  <1> HIDE DEF Take
  <1>3. step \in [RxRec \X UmSN -> RxRec] /\ r \in RxRec
    BY <1>2
  <1>4. ASSUME NEW g \in [SUBSET (1..n) -> RxRec], Folds(g, step, r, n, nums)
        PROVE  FoldsIn(it, RxRec, step, r, n, nums)
    <2>1. ASSUME NEW s \in SUBSET (1..n), s # {}, NEW acc \in RxRec
          PROVE  step[<<acc, nums[Max(s)]>>] = Take(acc, nums[Max(s)])
      BY <1>0, <2>1, LastOfSet
    <2>2. \A s \in SUBSET (1..n) : s # {} => g[s \ {Max(s)}] \in RxRec
      BY <1>0, <1>4, LastOfSet
    <2>3. Eq(g)
      <3>1. g = [s \in SUBSET (1..n) |-> g[s]]
        OBVIOUS
      <3>2. \A s \in SUBSET (1..n) :
               g[s] = IF s = {} THEN r ELSE step[<<g[s \ {Max(s)}], nums[Max(s)]>>]
        BY <1>4 DEF Folds
      <3> HIDE DEF step
      <3>3. \A s \in SUBSET (1..n) :
               g[s] = IF s = {} THEN r ELSE Take(g[s \ {Max(s)}], nums[Max(s)])
        BY <2>1, <2>2, <3>2
      <3> QED
        BY <1>0, <3>1, <3>3
    <2>4. Eq(it)
      <3> HIDE DEF Eq
      <3> QED
        BY <2>3
    <2> HIDE DEF it, step
    <2> QED
      BY <1>0, <2>1, <2>4 DEF FoldsIn
  <1> HIDE DEF it, step
  <1>5. PICK f \in [0..n -> RxRec] : Steps(f, it, step, r, n, nums)
    BY <1>0, <1>3, <1>4, FoldRuns
  <1> USE DEF step
  <1>6. \A i \in 1..n : f[i] = Take(f[i - 1], nums[i])
    <2> TAKE i \in 1..n
    <2>1. i - 1 \in 0..n /\ nums[i] \in UmSN
      BY <1>0
    <2>2. f[i - 1] \in RxRec
      BY <2>1
    <2> QED
      BY <2>1, <2>2, <1>5 DEF Steps
  <1> HIDE DEF step
  <1> QED
    BY <1>1, <1>5, <1>6 DEF Steps, Take

(* So does the second. *)
LEMMA PassLineSteps ==
    ASSUME NEW win, PdusIn(win), NEW r \in RxRec,
           NEW x \in UmSN, NEW n \in Nat, NEW nums, nums = From(x, n)
    PROVE  \E f \in [0..n -> RxRec] :
              /\ f[0] = r /\ f[n] = PassLine(win, r, x, n)
              /\ \A i \in 1..n : f[i] = LinePass(f[i - 1], nums[i], win)
  <1> DEFINE Take(acc, b) == LinePass(acc, b, win)
             step == [p \in RxRec \X UmSN |-> Take(p[1], p[2])]
             Eq(g) == g = [s \in SUBSET (DOMAIN nums) |->
                             IF s = {} THEN r
                             ELSE Take(g[s \ {Max(s)}], nums[Max(s)])]
             it == CHOOSE g : Eq(g)
  <1>0. n \in Nat /\ nums \in [1..n -> UmSN] /\ DOMAIN nums = 1..n
    BY FromType
  <1>1. PassLine(win, r, x, n) = it[1..n]
    BY <1>0 DEF PassLine, FoldLeft, MapThenFoldSet, LinePass
  <1>2. \A acc \in RxRec, b \in UmSN : Take(acc, b) \in RxRec
    BY PassTypes
  <1> HIDE DEF Take
  <1>3. step \in [RxRec \X UmSN -> RxRec] /\ r \in RxRec
    BY <1>2
  <1>4. ASSUME NEW g \in [SUBSET (1..n) -> RxRec], Folds(g, step, r, n, nums)
        PROVE  FoldsIn(it, RxRec, step, r, n, nums)
    <2>1. ASSUME NEW s \in SUBSET (1..n), s # {}, NEW acc \in RxRec
          PROVE  step[<<acc, nums[Max(s)]>>] = Take(acc, nums[Max(s)])
      BY <1>0, <2>1, LastOfSet
    <2>2. \A s \in SUBSET (1..n) : s # {} => g[s \ {Max(s)}] \in RxRec
      BY <1>0, <1>4, LastOfSet
    <2>3. Eq(g)
      <3>1. g = [s \in SUBSET (1..n) |-> g[s]]
        OBVIOUS
      <3>2. \A s \in SUBSET (1..n) :
               g[s] = IF s = {} THEN r ELSE step[<<g[s \ {Max(s)}], nums[Max(s)]>>]
        BY <1>4 DEF Folds
      <3> HIDE DEF step
      <3>3. \A s \in SUBSET (1..n) :
               g[s] = IF s = {} THEN r ELSE Take(g[s \ {Max(s)}], nums[Max(s)])
        BY <2>1, <2>2, <3>2
      <3> QED
        BY <1>0, <3>1, <3>3
    <2>4. Eq(it)
      <3> HIDE DEF Eq
      <3> QED
        BY <2>3
    <2> HIDE DEF it, step
    <2> QED
      BY <1>0, <2>1, <2>4 DEF FoldsIn
  <1> HIDE DEF it, step
  <1>5. PICK f \in [0..n -> RxRec] : Steps(f, it, step, r, n, nums)
    BY <1>0, <1>3, <1>4, FoldRuns
  <1> USE DEF step
  <1>6. \A i \in 1..n : f[i] = Take(f[i - 1], nums[i])
    <2> TAKE i \in 1..n
    <2>1. i - 1 \in 0..n /\ nums[i] \in UmSN
      BY <1>0
    <2>2. f[i - 1] \in RxRec
      BY <2>1
    <2> QED
      BY <2>1, <2>2, <1>5 DEF Steps
  <1> HIDE DEF step
  <1> QED
    BY <1>1, <1>5, <1>6 DEF Steps, Take

------------------------------------------------------------------------------
(* A PDU has a place in the stream of all PDUs sent, from 0 on; its number is
   the place modulo UM_MOD. *)

LEMMA Modulus ==
    /\ UM_MOD \in Nat \ {0} /\ UM_MOD > 1 /\ UM_WINDOW \in Nat \ {0}
    /\ UM_MOD = UM_WINDOW + UM_WINDOW
  BY UmSnAssumption

LEMMA NumberType ==
    ASSUME NEW c \in Nat
    PROVE  c % UM_MOD \in UmSN /\ (c - 1) % UM_MOD \in UmSN
  BY UmSnAssumption DEF UmSN

LEMMA NumberAhead ==
    ASSUME NEW c \in Nat, NEW d \in 0..UM_MOD
    PROVE  ((c % UM_MOD) + d) % UM_MOD = (c + d) % UM_MOD
  BY Modulus, RemainderOfSum

LEMMA NumberFrom ==
    ASSUME NEW c \in Nat, NEW i \in 1..UM_MOD
    PROVE  /\ ((c % UM_MOD) + i - 1) % UM_MOD = (c + i - 1) % UM_MOD
           /\ c + i - 1 \in Nat
  <1>a. PICK d : d = i - 1
    OBVIOUS
  <1>1. d \in 0..UM_MOD
    BY <1>a, UmSnAssumption
  <1>2. c % UM_MOD \in Nat
    BY UmSnAssumption
  <1>3. (c % UM_MOD) + i - 1 = (c % UM_MOD) + d /\ c + i - 1 = c + d
    BY <1>2, <1>a
  <1> QED
    BY <1>1, <1>3, NumberAhead

(* Places less than UM_MOD apart have different numbers. *)
LEMMA NumbersDiffer ==
    ASSUME NEW c \in Nat, NEW d \in Nat, c < d, d < c + UM_MOD
    PROVE  c % UM_MOD # d % UM_MOD
  BY Modulus, RemaindersDiffer

LEMMA NumberNext ==
    ASSUME NEW c \in Nat
    PROVE  /\ Next1(c % UM_MOD) = (c + 1) % UM_MOD
           /\ Next1((c - 1) % UM_MOD) = c % UM_MOD
  <1>1. UM_MOD \in Nat \ {0} /\ UM_MOD > 1
    BY UmSnAssumption
  <1>2. Next1(c % UM_MOD) = (c + 1) % UM_MOD
    BY <1>1, NumberAhead DEF Next1
  <1>3. CASE c = 0
    <2>1. (0 - 1) % UM_MOD = UM_MOD - 1
      BY <1>1
    <2>2. ((UM_MOD - 1) + 1) % UM_MOD = 0 /\ 0 % UM_MOD = 0
      BY <1>1
    <2> QED
      BY <1>2, <1>3, <2>1, <2>2 DEF Next1
  <1>4. CASE c # 0
    <2>a. PICK d : d = c - 1
      OBVIOUS
    <2>1. d \in Nat /\ d + 1 = c
      BY <1>4, <2>a
    <2>2. ((d % UM_MOD) + 1) % UM_MOD = (d + 1) % UM_MOD
      BY <1>1, <2>1, NumberAhead
    <2> QED
      BY <1>2, <2>1, <2>2, <2>a DEF Next1
  <1> QED
    BY <1>2, <1>3, <1>4

(* A PDU does not belong to what was reassembled up to an earlier place. *)
LEMMA DoesNotBelong ==
    ASSUME NEW c \in Nat, NEW d \in Nat, c < d, d + 1 < c + UM_MOD
    PROVE  ~PduBelongsToRxSdu((c - 1) % UM_MOD, d % UM_MOD)
  <1>1. c % UM_MOD # d % UM_MOD
    <2>1. d < c + UM_MOD
      BY Modulus
    <2> QED
      BY <2>1, NumbersDiffer
  <1>2. Next1((c - 1) % UM_MOD) # d % UM_MOD
    BY <1>1, NumberNext
  <1>3. (c - 1) % UM_MOD # d % UM_MOD
    <2>1. Next1(d % UM_MOD) = (d + 1) % UM_MOD /\ Next1((c - 1) % UM_MOD) = c % UM_MOD
      BY NumberNext
    <2>2. d + 1 \in Nat /\ c < d + 1
      OBVIOUS
    <2>3. c % UM_MOD # (d + 1) % UM_MOD
      BY <2>2, NumbersDiffer
    <2> QED
      BY <2>1, <2>3
  <1> QED
    BY <1>2, <1>3 DEF PduBelongsToRxSdu

------------------------------------------------------------------------------
(* What the window holds, by place *)

\* What win holds under the numbers of the places from x on, n of them, is their PDUs.
HoldsPdus(win, F, x, n) ==
    \A i \in 1..n :
        (x + i - 1) % UM_MOD \in DOMAIN win =>
            Spans(win[(x + i - 1) % UM_MOD], F[x + i - 1], F[x + i])

\* Reassembly has come to place R, with SDUs out from lo on.
GoodAt(r, F, R, lo) == \E in : in = (R - 1) % UM_MOD /\ Good(r, F[R], in, lo)

\* The first loop over n numbers from place x on.
EdgeRun(f, win, r, x, n) ==
    /\ f \in [0..n -> RxRec]
    /\ f[0] = r /\ f[n] = PassEdge(win, r, x % UM_MOD, n)
    /\ \A i \in 1..n : f[i] = EdgePass(f[i - 1], (x + i - 1) % UM_MOD, win)

LEMMA EdgeRuns ==
    ASSUME NEW win, PdusIn(win), NEW r \in RxRec,
           NEW x \in Nat, NEW n \in Nat, n <= UM_MOD
    PROVE  \E f : EdgeRun(f, win, r, x, n)
  <1>1. UM_MOD \in Nat \ {0} /\ n \in Nat
    BY Modulus
  <1>a. PICK y : y = x % UM_MOD
    OBVIOUS
  <1>b. PICK nums : nums = From(y, n)
    OBVIOUS
  <1>2. y \in UmSN
    BY <1>a, NumberType
  <1>3. PICK f \in [0..n -> RxRec] :
              /\ f[0] = r /\ f[n] = PassEdge(win, r, y, n)
              /\ \A i \in 1..n : f[i] = EdgePass(f[i - 1], nums[i], win)
    BY <1>2, <1>b, PassEdgeSteps, SMTT(60)
  <1>4. \A i \in 1..n : nums[i] = (x + i - 1) % UM_MOD
    <2> TAKE i \in 1..n
    <2>1. i \in 1..UM_MOD
      BY <1>1
    <2>2. nums[i] = (y + i - 1) % UM_MOD
      BY <1>1, <1>2, <1>b, FromType
    <2> QED
      BY <1>a, <2>1, <2>2, NumberFrom
  <1>5. \A i \in 1..n : f[i] = EdgePass(f[i - 1], (x + i - 1) % UM_MOD, win)
    BY <1>3, <1>4
  <1>6. EdgeRun(f, win, r, x, n)
    BY <1>3, <1>5, <1>a DEF EdgeRun
  <1> QED
    BY <1>6

\* The second loop over n numbers from place x on.
LineRun(f, win, r, x, n) ==
    /\ f \in [0..n -> RxRec]
    /\ f[0] = r /\ f[n] = PassLine(win, r, x % UM_MOD, n)
    /\ \A i \in 1..n : f[i] = LinePass(f[i - 1], (x + i - 1) % UM_MOD, win)

LEMMA LineRuns ==
    ASSUME NEW win, PdusIn(win), NEW r \in RxRec,
           NEW x \in Nat, NEW n \in Nat, n <= UM_MOD
    PROVE  \E f : LineRun(f, win, r, x, n)
  <1>1. UM_MOD \in Nat \ {0} /\ n \in Nat
    BY Modulus
  <1>a. PICK y : y = x % UM_MOD
    OBVIOUS
  <1>b. PICK nums : nums = From(y, n)
    OBVIOUS
  <1>2. y \in UmSN
    BY <1>a, NumberType
  <1>3. PICK f \in [0..n -> RxRec] :
              /\ f[0] = r /\ f[n] = PassLine(win, r, y, n)
              /\ \A i \in 1..n : f[i] = LinePass(f[i - 1], nums[i], win)
    BY <1>2, <1>b, PassLineSteps, SMTT(60)
  <1>4. \A i \in 1..n : nums[i] = (x + i - 1) % UM_MOD
    <2> TAKE i \in 1..n
    <2>1. i \in 1..UM_MOD
      BY <1>1
    <2>2. nums[i] = (y + i - 1) % UM_MOD
      BY <1>1, <1>2, <1>b, FromType
    <2> QED
      BY <1>a, <2>1, <2>2, NumberFrom
  <1>5. \A i \in 1..n : f[i] = LinePass(f[i - 1], (x + i - 1) % UM_MOD, win)
    BY <1>3, <1>4
  <1>6. LineRun(f, win, r, x, n)
    BY <1>3, <1>5, <1>a DEF LineRun
  <1> QED
    BY <1>6

(* The first loop keeps a state good, number by number. *)
LEMMA EdgeRunGood ==
    ASSUME NEW win, NEW F, NEW S \in Nat, InOrderUpTo(F, S),
           NEW x \in Nat, NEW n \in 0..UM_MOD, x + n <= S, HoldsPdus(win, F, x, n),
           NEW lo \in Nat, lo <= F[x][1], NEW r, NEW in, in = (x - 1) % UM_MOD, Good(r, F[x], in, lo),
           NEW f, EdgeRun(f, win, r, x, n)
    PROVE  /\ \A i \in 1..n : Good(f[i], F[x + i], (x + i - 1) % UM_MOD, lo)
           /\ \E out : out = (x + n - 1) % UM_MOD /\ Good(f[n], F[x + n], out, lo)
  <1>1. UM_MOD \in Nat \ {0} /\ n \in Nat /\ x % UM_MOD \in UmSN /\ r \in RxRec
    BY Modulus, NumberType DEF Good
  <1>2. /\ f \in [0..n -> RxRec]
        /\ f[0] = r /\ f[n] = PassEdge(win, r, x % UM_MOD, n)
        /\ \A i \in 1..n : f[i] = EdgePass(f[i - 1], (x + i - 1) % UM_MOD, win)
    BY DEF EdgeRun
  <1>3. \A i \in 1..n : x + i - 1 \in 0..S /\ x + i \in 0..S
    BY <1>1
  <1> DEFINE Ok(i) == Good(f[i], F[x + i], (x + i - 1) % UM_MOD, lo)
             T == {i \in 1..n : Ok(i)}
  <1>4. ASSUME NEW i \in 1..n, NEW g, NEW any, g = f[i - 1], Good(g, F[x + i - 1], any, lo)
        PROVE  i \in T
    <2>a. PICK c, s : c = x + i - 1 /\ s = (x + i - 1) % UM_MOD
      OBVIOUS
    <2>1. /\ c \in Nat /\ c \in 0..S /\ c + 1 \in 0..S /\ c + 1 = x + i /\ c + 1 \in c..S
          /\ c \in x..S /\ x \in 0..S
      BY <1>3, <2>a
    <2>2. F[c][1] \in Nat /\ F[c + 1][1] \in Nat /\ F[c][1] <= F[c + 1][1] /\ lo <= F[c][1]
      <3>1. F[x][1] \in Nat /\ F[c][1] \in Nat /\ F[c + 1][1] \in Nat
        BY <2>1 DEF InOrderUpTo
      <3>2. F[c][1] <= F[c + 1][1] /\ F[x][1] <= F[c][1]
        BY <2>1 DEF InOrderUpTo
      <3> QED
        BY <3>1, <3>2
    <2>3. s \in UmSN
      BY <2>1, <2>a, NumberType
    <2>4. f[i] = EdgePass(g, s, win)
      BY <1>2, <1>4, <2>a
    <2>5. Good(g, F[c], any, lo)
      BY <1>4, <2>a
    <2>6. CASE s \in DOMAIN win
      <3>1. Spans(win[s], F[c], F[c + 1])
        BY <2>1, <2>6, <2>a DEF HoldsPdus
      <3>2. Good(LowerEdgePdu(g, s, win[s]), F[c + 1], s, lo)
        BY <2>2, <2>3, <2>5, <3>1, LowerEdgeKeeps
      <3>3. Good(f[i], F[x + i], s, lo)
        BY <2>1, <2>4, <2>6, <3>2 DEF EdgePass
      <3> QED
        BY <2>a, <3>3
    <2>7. CASE s \notin DOMAIN win
      <3>a. PICK h : h = [g EXCEPT !.sdu = << >>]
        OBVIOUS
      <3>1. h \in RxRec /\ h.sdu = << >> /\ h.out = g.out /\ Handed(g.out, lo, F[c][1])
        BY <2>5, <3>a, EmptySeq DEF Good, RxRec
      <3>2. Good(h, F[c + 1], s, lo)
        BY <2>2, <3>1, GoodEmpty
      <3>3. Good(f[i], F[x + i], s, lo)
        BY <2>1, <2>4, <2>7, <3>2, <3>a DEF EdgePass
      <3> QED
        BY <2>a, <3>3
    <2> QED
      BY <2>6, <2>7
  <1>5. n > 0 => 1 \in T
    <2> SUFFICES ASSUME n > 0 PROVE 1 \in T
      OBVIOUS
    <2>1. 1 \in 1..n /\ 1 - 1 = 0 /\ x + 1 - 1 = x
      BY <1>1
    <2>2. Good(r, F[x + 1 - 1], in, lo) /\ r = f[1 - 1]
      BY <1>2, <2>1
    <2> HIDE DEF T
    <2> QED
      BY <1>4, <2>1, <2>2
  <1>6. ASSUME NEW i \in 1..(n - 1), i \in T PROVE i + 1 \in T
    <2>1. i + 1 \in 1..n /\ (i + 1) - 1 = i /\ x + (i + 1) - 1 = x + i
      BY <1>1
    <2>a. PICK any : any = (x + i - 1) % UM_MOD
      OBVIOUS
    <2>2. Good(f[i], F[x + i], any, lo)
      BY <1>6, <2>a
    <2>3. Good(f[i], F[x + (i + 1) - 1], any, lo) /\ f[i] = f[(i + 1) - 1]
      BY <2>1, <2>2
    <2> HIDE DEF T
    <2> QED
      BY <1>4, <2>1, <2>3
  <1>7. \A i \in 1..n : Ok(i)
    <2> HIDE DEF T
    <2>1. \A i \in 1..n : i \in T
      BY <1>1, <1>5, <1>6, UpTo
    <2> QED
      BY <2>1 DEF T
  <1>8. CASE n = 0
    <2>1. x + n = x /\ x + n - 1 = x - 1
      BY <1>8
    <2> QED
      BY <1>2, <1>8, <2>1
  <1>9. CASE n # 0
    <2>1. n \in 1..n
      BY <1>1, <1>9
    <2> QED
      BY <1>2, <1>7, <2>1
  <1> QED
    BY <1>7, <1>8, <1>9

(* The first loop keeps a state good. *)
LEMMA PassEdgeKeeps ==
    ASSUME NEW win, PdusIn(win),
           NEW F, NEW S \in Nat, InOrderUpTo(F, S),
           NEW x \in Nat, NEW n \in 0..UM_MOD, x + n <= S, HoldsPdus(win, F, x, n),
           NEW lo \in Nat, lo <= F[x][1], NEW r, NEW in, in = (x - 1) % UM_MOD, Good(r, F[x], in, lo)
    PROVE  \E out : out = (x + n - 1) % UM_MOD
                    /\ Good(PassEdge(win, r, x % UM_MOD, n), F[x + n], out, lo)
  <1>1. n \in Nat /\ n <= UM_MOD /\ r \in RxRec
    BY Modulus DEF Good
  <1>2. PICK f : EdgeRun(f, win, r, x, n)
    BY <1>1, EdgeRuns
  <1>3. \E out : out = (x + n - 1) % UM_MOD /\ Good(f[n], F[x + n], out, lo)
    BY <1>2, EdgeRunGood
  <1>4. f[n] = PassEdge(win, r, x % UM_MOD, n)
    BY <1>2 DEF EdgeRun
  <1> QED
    BY <1>3, <1>4

\* The same of the second loop, which may have passed missing numbers since place c.
GoodSince(r, F, x, i, lo) ==
    /\ r \in RxRec
    /\ r.sdu = << >> \/ \E c \in x..(x + i) : r.sdu = Part(F[c]) /\ r.in = (c - 1) % UM_MOD
    /\ Handed(r.out, lo, F[x + i][1])

(* What is reassembled before a place that is missing no PDU after it adds to. *)
LEMMA SinceBelongs ==
    ASSUME NEW F, NEW x \in Nat, NEW j \in 0..(UM_MOD - 2), NEW lo, NEW g, GoodSince(g, F, x, j, lo)
    PROVE  g.sdu = << >> \/ g.sdu = Part(F[x + j]) \/ ~PduBelongsToRxSdu(g.in, (x + j) % UM_MOD)
  <1> SUFFICES ASSUME g.sdu # << >>, g.sdu # Part(F[x + j])
               PROVE  ~PduBelongsToRxSdu(g.in, (x + j) % UM_MOD)
    OBVIOUS
  <1>1. UM_MOD \in Nat \ {0}
    BY Modulus
  <1>c. PICK c : c = x + j
    OBVIOUS
  <1>2. PICK d \in x..c : g.sdu = Part(F[d]) /\ g.in = (d - 1) % UM_MOD
    BY <1>c DEF GoodSince
  <1>3. d # c
    BY <1>c, <1>2
  <1>4. c \in Nat /\ d \in Nat /\ d < c /\ c + 1 < d + UM_MOD
    BY <1>1, <1>3, <1>c
  <1>5. ~PduBelongsToRxSdu((d - 1) % UM_MOD, c % UM_MOD)
    BY <1>4, DoesNotBelong
  <1> QED
    BY <1>2, <1>5, <1>c

(* The second loop keeps a state good since the last PDU received, number by number. *)
LEMMA LineRunGood ==
    ASSUME NEW win, NEW F, NEW S \in Nat, InOrderUpTo(F, S),
           NEW x \in Nat, NEW n \in 0..(UM_MOD - 1), x + n <= S, HoldsPdus(win, F, x, n),
           NEW lo \in Nat, lo <= F[x][1], NEW r, NEW in, in = (x - 1) % UM_MOD, Good(r, F[x], in, lo),
           NEW f, LineRun(f, win, r, x, n)
    PROVE  /\ GoodSince(f[0], F, x, 0, lo)
           /\ \A i \in 1..n : /\ GoodSince(f[i], F, x, i, lo)
                              /\ (x + i - 1) % UM_MOD \in DOMAIN win =>
                                    Good(f[i], F[x + i], (x + i - 1) % UM_MOD, lo)
  <1>1. UM_MOD \in Nat \ {0} /\ n \in Nat /\ x % UM_MOD \in UmSN /\ r \in RxRec
    BY Modulus, NumberType DEF Good
  <1>2. /\ f \in [0..n -> RxRec]
        /\ f[0] = r /\ f[n] = PassLine(win, r, x % UM_MOD, n)
        /\ \A i \in 1..n : f[i] = LinePass(f[i - 1], (x + i - 1) % UM_MOD, win)
    BY DEF LineRun
  <1>3. \A i \in 1..n : x + i - 1 \in 0..S /\ x + i \in 0..S
    BY <1>1
  <1> DEFINE Ok(i) == /\ GoodSince(f[i], F, x, i, lo)
                      /\ (x + i - 1) % UM_MOD \in DOMAIN win =>
                            Good(f[i], F[x + i], (x + i - 1) % UM_MOD, lo)
             T == {i \in 1..n : Ok(i)}
  <1>4. ASSUME NEW i \in 1..n, NEW g, g = f[i - 1], GoodSince(g, F, x, i - 1, lo)
        PROVE  i \in T
    <2>a. PICK c, s : c = x + i - 1 /\ s = (x + i - 1) % UM_MOD
      OBVIOUS
    <2>1. /\ c \in Nat /\ c \in 0..S /\ c + 1 \in 0..S /\ c + 1 = x + i /\ c + 1 \in c..S
          /\ c \in x..S /\ x \in 0..S /\ x + (i - 1) = c
      BY <1>1, <1>3, <2>a
    <2>2. F[c][1] \in Nat /\ F[c + 1][1] \in Nat /\ F[c][1] <= F[c + 1][1] /\ lo <= F[c][1]
      <3>1. F[x][1] \in Nat /\ F[c][1] \in Nat /\ F[c + 1][1] \in Nat
        BY <2>1 DEF InOrderUpTo
      <3>2. F[c][1] <= F[c + 1][1] /\ F[x][1] <= F[c][1]
        BY <2>1 DEF InOrderUpTo
      <3> QED
        BY <3>1, <3>2
    <2>3. s \in UmSN
      BY <2>1, <2>a, NumberType
    <2>4. f[i] = LinePass(g, s, win)
      BY <1>2, <1>4, <2>a
    <2>5. /\ g \in RxRec /\ Handed(g.out, lo, F[c][1])
          /\ g.sdu = << >> \/ \E d \in x..c : g.sdu = Part(F[d]) /\ g.in = (d - 1) % UM_MOD
      BY <1>4, <2>1 DEF GoodSince
    <2>6. CASE s \in DOMAIN win
      <3>1. Spans(win[s], F[c], F[c + 1])
        BY <2>1, <2>6, <2>a DEF HoldsPdus
      <3>2. g.sdu = << >> \/ g.sdu = Part(F[c]) \/ ~PduBelongsToRxSdu(g.in, s)
        <4>1. i - 1 \in 0..(UM_MOD - 2) /\ x + (i - 1) = c
          BY <1>1, <2>1
        <4>2. g.sdu = << >> \/ g.sdu = Part(F[x + (i - 1)])
              \/ ~PduBelongsToRxSdu(g.in, (x + (i - 1)) % UM_MOD)
          BY <1>4, <4>1, SinceBelongs
        <4>3. (x + (i - 1)) % UM_MOD = s
          BY <2>1, <2>a
        <4> QED
          BY <4>1, <4>2, <4>3
      <3>3. Good(InSequencePdu(g, s, win[s]), F[c + 1], s, lo)
        BY <2>2, <2>3, <2>5, <3>1, <3>2, InSequenceKeeps
      <3>4. Good(f[i], F[x + i], s, lo)
        BY <2>1, <2>4, <2>6, <3>3 DEF LinePass
      <3>5. x + i \in x..(x + i) /\ s = ((x + i) - 1) % UM_MOD
        BY <2>1, <2>a
      <3>6. GoodSince(f[i], F, x, i, lo)
        BY <3>4, <3>5 DEF GoodSince, Good
      <3> QED
        BY <2>a, <3>4, <3>6
    <2>7. CASE s \notin DOMAIN win
      <3>1. f[i] = g
        BY <2>4, <2>7 DEF LinePass
      <3>2. Handed(g.out, lo, F[x + i][1])
        BY <2>1, <2>2, <2>5, HandedUpTo
      <3>3. x..c \subseteq x..(x + i)
        BY <2>1
      <3>4. GoodSince(f[i], F, x, i, lo)
        BY <2>5, <3>1, <3>2, <3>3 DEF GoodSince
      <3> QED
        BY <2>7, <2>a, <3>4
    <2> QED
      BY <2>6, <2>7
  <1>0. x + 0 = x /\ x \in x..x
    OBVIOUS
  <1>10. GoodSince(r, F, x, 0, lo)
    BY <1>0 DEF Good, GoodSince
  <1>5. n > 0 => 1 \in T
    <2> SUFFICES ASSUME n > 0 PROVE 1 \in T
      OBVIOUS
    <2>1. 1 \in 1..n /\ 1 - 1 = 0
      BY <1>1
    <2>2. GoodSince(r, F, x, 1 - 1, lo) /\ r = f[1 - 1]
      BY <1>2, <1>10, <2>1
    <2> HIDE DEF T
    <2> QED
      BY <1>4, <2>1, <2>2
  <1>6. ASSUME NEW i \in 1..(n - 1), i \in T PROVE i + 1 \in T
    <2>1. i + 1 \in 1..n /\ (i + 1) - 1 = i
      BY <1>1
    <2>2. GoodSince(f[i], F, x, i, lo)
      BY <1>6
    <2>3. GoodSince(f[i], F, x, (i + 1) - 1, lo) /\ f[i] = f[(i + 1) - 1]
      BY <2>1, <2>2
    <2> HIDE DEF T
    <2> QED
      BY <1>4, <2>1, <2>3
  <1>7. \A i \in 1..n : Ok(i)
    <2> HIDE DEF T
    <2>1. \A i \in 1..n : i \in T
      BY <1>1, <1>5, <1>6, UpTo
    <2> QED
      BY <2>1 DEF T
  <1> QED
    BY <1>2, <1>7, <1>10

(* The second loop keeps a state good, if it ends with a PDU received. *)
LEMMA PassLineKeeps ==
    ASSUME NEW win, PdusIn(win),
           NEW F, NEW S \in Nat, InOrderUpTo(F, S),
           NEW x \in Nat, NEW n \in 0..(UM_MOD - 1), x + n <= S, HoldsPdus(win, F, x, n),
           n # 0 => (x + n - 1) % UM_MOD \in DOMAIN win,
           NEW lo \in Nat, lo <= F[x][1], NEW r, NEW in, in = (x - 1) % UM_MOD, Good(r, F[x], in, lo)
    PROVE  \E out : out = (x + n - 1) % UM_MOD
                    /\ Good(PassLine(win, r, x % UM_MOD, n), F[x + n], out, lo)
  <1>1. n \in Nat /\ n <= UM_MOD /\ r \in RxRec
    BY Modulus DEF Good
  <1>2. PICK f : LineRun(f, win, r, x, n)
    BY <1>1, LineRuns
  <1>3. f[n] = PassLine(win, r, x % UM_MOD, n) /\ f[0] = r
    BY <1>2 DEF LineRun
  <1>4. CASE n = 0
    <2>1. x + n = x /\ x + n - 1 = x - 1
      BY <1>4
    <2> QED
      BY <1>3, <1>4, <2>1
  <1>5. CASE n # 0
    <2>1. n \in 1..n
      BY <1>1, <1>5
    <2>2. Good(f[n], F[x + n], (x + n - 1) % UM_MOD, lo)
      BY <1>2, <1>5, <2>1, LineRunGood
    <2> QED
      BY <1>3, <2>2
  <1> QED
    BY <1>4, <1>5

------------------------------------------------------------------------------
(* RX_MOD_BASE by place *)

\* The numbers of the places K.
Numbers(K) == {d % UM_MOD : d \in K}

(* RX_MOD_BASE of a number, from its place and that of VR(UH). *)
LEMMA PlaceInWindow ==
    ASSUME NEW H \in Nat, NEW c \in Nat
    PROVE  /\ H <= c + UM_WINDOW /\ c < H + UM_WINDOW
                 => RxModBase(c % UM_MOD, H % UM_MOD) = c + UM_WINDOW - H
           /\ c < H + UM_WINDOW /\ H <= c + UM_WINDOW + UM_WINDOW /\ c + UM_WINDOW < H
                 => RxModBase(c % UM_MOD, H % UM_MOD) = (c + UM_WINDOW - H) + UM_MOD
  <1>a. PICK M, W : M = UM_MOD /\ W = UM_WINDOW
    OBVIOUS
  <1>b. PICK x, y : x = c % M /\ y = H % M
    OBVIOUS
  <1>1. M \in Nat \ {0} /\ W \in Nat \ {0} /\ M = W + W
    BY <1>a, Modulus
  <1>2. x \in UmSN /\ y \in UmSN
    BY <1>a, <1>b, NumberType
  <1>3. RxModBase(y, y) = W /\ RxModBase(x, y) \in 0..(M - 1)
    BY <1>2, <1>a, EdgeOfWindow, RxModBaseIsDistance
  <1>p. PICK p : p = RxModBase(x, y)
    OBVIOUS
  <1>4. ASSUME c >= H, c < H + W
        PROVE  p = c + W - H
    <2>a. PICK d : d = c - H
      OBVIOUS
    <2>1. d \in Nat /\ d < W /\ H + d = c /\ d <= M
      BY <1>1, <1>4, <2>a
    <2>2. d \in 0..UM_MOD
      BY <1>1, <1>a, <2>1
    <2>3. (y + d) % UM_MOD = (H + d) % UM_MOD
      BY <2>2, <1>a, <1>b, NumberAhead
    <2>4. (y + d) % UM_MOD = x
      BY <1>a, <1>b, <2>1, <2>3
    <2>5. p = IF W + d < M THEN W + d ELSE W + d - M
      BY <1>2, <1>3, <1>a, <1>p, <2>2, <2>4, Advance
    <2> QED
      BY <1>1, <2>1, <2>5
  <1>5. ASSUME c < H, H <= c + M
        PROVE  p = IF H <= c + W THEN c + W - H ELSE (c + W - H) + M
    <2>a. PICK d : d = H - c
      OBVIOUS
    <2>1. d \in Nat /\ d > 0 /\ c + d = H /\ d <= M
      BY <1>1, <1>5, <2>a
    <2>2. d \in 0..UM_MOD
      BY <1>1, <1>a, <2>1
    <2>3. (x + d) % UM_MOD = (c + d) % UM_MOD
      BY <2>2, <1>a, <1>b, NumberAhead
    <2>4. (x + d) % UM_MOD = y
      BY <1>a, <1>b, <2>1, <2>3
    <2>5. W = IF p + d < M THEN p + d ELSE p + d - M
      BY <1>2, <1>3, <1>a, <1>p, <2>2, <2>4, Advance
    <2>6. p \in 0..(M - 1)
      BY <1>3, <1>p
    <2> QED
      BY <1>1, <2>1, <2>5, <2>6
  <1> QED
    BY <1>1, <1>4, <1>5, <1>a, <1>b, <1>p

(* How far a number is ahead of another. *)
LEMMA PlaceAhead ==
    ASSUME NEW R \in Nat, NEW d \in Nat, R <= d, d < R + UM_MOD
    PROVE  ((d % UM_MOD) - (R % UM_MOD)) % UM_MOD = d - R
  BY Modulus, DifferenceOfRemainders

(* Places below one another by less than UM_MOD are the same if their numbers are. *)
LEMMA NumberIsPlace ==
    ASSUME NEW R \in Nat, NEW c \in Nat, NEW d \in Nat,
           R <= c, c < R + UM_MOD, R <= d, d < R + UM_MOD, c % UM_MOD = d % UM_MOD
    PROVE  c = d
  <1>1. c - R = d - R
    BY PlaceAhead
  <1> QED
    BY <1>1

LEMMA InNumbers ==
    ASSUME NEW R \in Nat, NEW K \in SUBSET Nat, \A d \in K : R <= d /\ d < R + UM_MOD,
           NEW c \in Nat, R <= c, c < R + UM_MOD
    PROVE  c % UM_MOD \in Numbers(K) <=> c \in K
  <1>1. ASSUME c % UM_MOD \in Numbers(K) PROVE c \in K
    <2>1. PICK d \in K : d % UM_MOD = c % UM_MOD
      BY <1>1 DEF Numbers
    <2>2. d \in Nat /\ R <= d /\ d < R + UM_MOD
      OBVIOUS
    <2>3. c = d
      BY <2>1, <2>2, NumberIsPlace
    <2> QED
      BY <2>3
  <1> QED
    BY <1>1 DEF Numbers

LEMMA LeftAfterPlaces ==
    ASSUME NEW R \in Nat, NEW K \in SUBSET Nat, \A d \in K : R <= d /\ d < R + UM_MOD,
           NEW n \in Nat
    PROVE  LeftAfter(Numbers(K), R % UM_MOD, n) = Numbers({d \in K : R + n <= d})
  <1>1. ASSUME NEW d \in K
        PROVE  ((d % UM_MOD) - (R % UM_MOD)) % UM_MOD >= n <=> R + n <= d
    <2>a. PICK e : e = ((d % UM_MOD) - (R % UM_MOD)) % UM_MOD
      OBVIOUS
    <2>1. e = d - R
      BY <2>a, PlaceAhead
    <2>2. e >= n <=> R + n <= d
      BY <2>1
    <2> QED
      BY <2>2, <2>a
  <1>2. \A s : s \in LeftAfter(Numbers(K), R % UM_MOD, n)
                  <=> \E d \in K : s = d % UM_MOD /\ R + n <= d
    BY <1>1 DEF LeftAfter, Numbers
  <1>3. \A s : s \in Numbers({d \in K : R + n <= d})
                  <=> \E d \in K : s = d % UM_MOD /\ R + n <= d
    BY DEF Numbers
  <1> QED
    BY <1>2, <1>3

------------------------------------------------------------------------------
(* The two loops by place *)

\* How far the first loop moves VR(UR) from place R, below VR(UH) at place H.
CaughtUp(R, H) == IF R + UM_WINDOW < H THEN H - (R + UM_WINDOW) ELSE 0

(* The first loop stops at the lower edge of the window, if it is not in it. *)
LEMMA FirstLoopPlaces ==
    ASSUME NEW R \in Nat, NEW H \in Nat, R < H, H <= R + UM_MOD,
           NEW K \in SUBSET Nat, \A d \in K : R <= d /\ d < H, H - 1 \in K,
           NEW k, k = CaughtUp(R, H)
    PROVE  /\ k \in 0..UM_WINDOW /\ R + k < H /\ H <= (R + k) + UM_WINDOW
           /\ CatchUp(R % UM_MOD, H % UM_MOD, Numbers(K)) = k
           /\ LeftAfter(Numbers(K), R % UM_MOD, k) = Numbers({d \in K : R + k <= d})
  <1>a. PICK M, W : M = UM_MOD /\ W = UM_WINDOW
    OBVIOUS
  <1>1. M \in Nat \ {0} /\ W \in Nat \ {0} /\ M = W + W
    BY <1>a, Modulus
  <1>2. k \in 0..W /\ R + k < H /\ H <= (R + k) + W /\ (k # 0 => R + k + W = H)
    BY <1>1, <1>a DEF CaughtUp
  <1>b. PICK ur, uh : ur = R % UM_MOD /\ uh = H % UM_MOD
    OBVIOUS
  <1>3. ur \in UmSN /\ uh \in UmSN
    BY <1>b, NumberType
  <1>4. \A d \in K : R <= d /\ d < R + UM_MOD
    <2> TAKE d \in K
    <2>1. d \in Nat /\ R <= d /\ d < H
      OBVIOUS
    <2> QED
      BY <1>1, <1>a, <2>1
  <1>5. \A i \in 0..k : LeftAfter(Numbers(K), ur, i) = Numbers({d \in K : R + i <= d})
    BY <1>2, <1>4, <1>b, LeftAfterPlaces
  <1>6. \A i \in 0..k : (ur + i) % UM_MOD = (R + i) % UM_MOD /\ R + i \in Nat /\ (R + i) % UM_MOD \in UmSN
    <2> TAKE i \in 0..k
    <2>1. i \in 0..UM_MOD /\ R + i \in Nat
      BY <1>1, <1>2, <1>a
    <2> QED
      BY <1>b, <2>1, NumberAhead, NumberType
  <1>7. ASSUME NEW i \in 0..k
        PROVE  InsideReorderingWindow((ur + i) % UM_MOD, uh, LeftAfter(Numbers(K), ur, i)) <=> i = k
    <2>a. PICK D, c : D = LeftAfter(Numbers(K), ur, i) /\ c = R + i
      OBVIOUS
    <2>1. c \in Nat /\ c < H /\ H <= c + W + W /\ (H <= c + W <=> i = k)
      BY <1>1, <1>2, <2>a
    <2>2. H - 1 \in {d \in K : R + i <= d}
      BY <1>2, <2>1, <2>a
    <2>3. D # {}
      <3>a. PICK left : left = {d \in K : R + i <= d}
        OBVIOUS
      <3>1. D = Numbers(left)
        BY <1>5, <2>a, <3>a
      <3>2. left # {}
        BY <2>2, <3>a
      <3> QED
        BY <3>1, <3>2 DEF Numbers
    <2>4. c < H + UM_WINDOW /\ H <= c + UM_WINDOW + UM_WINDOW
      BY <1>1, <1>a, <2>1
    <2>5. /\ H <= c + UM_WINDOW => RxModBase(c % UM_MOD, uh) = c + UM_WINDOW - H
          /\ c + UM_WINDOW < H => RxModBase(c % UM_MOD, uh) = (c + UM_WINDOW - H) + UM_MOD
      BY <2>1, <2>4, <1>b, PlaceInWindow
    <2>6. RxModBase(c % UM_MOD, uh) < UM_WINDOW <=> i = k
      BY <1>1, <1>a, <2>1, <2>5
    <2>7. (ur + i) % UM_MOD = c % UM_MOD /\ c % UM_MOD \in UmSN
      BY <1>6, <2>a
    <2>8. InsideReorderingWindow(c % UM_MOD, uh, D) <=> D = {} \/ RxModBase(c % UM_MOD, uh) < UM_WINDOW
      BY <1>3, <2>7, InsideIsBelowWindow
    <2> QED
      BY <2>3, <2>6, <2>7, <2>8, <2>a
  <1>8. CatchUp(ur, uh, Numbers(K)) = k
    <2>1. k \in 0..k /\ k \in 0..UM_MOD /\ \A i \in 0..(k - 1) : i \in 0..k /\ i # k
      BY <1>1, <1>2, <1>a
    <2>2. /\ InsideReorderingWindow((ur + k) % UM_MOD, uh, LeftAfter(Numbers(K), ur, k))
          /\ \A i \in 0..(k - 1) :
               ~InsideReorderingWindow((ur + i) % UM_MOD, uh, LeftAfter(Numbers(K), ur, i))
      BY <1>7, <2>1
    <2> QED
      BY <1>3, <2>1, <2>2, CatchUpIs
  <1>9. k \in 0..k
    BY <1>2
  <1> QED
    BY <1>2, <1>5, <1>8, <1>9, <1>a, <1>b

(* The second loop stops at the first number missing. *)
LEMMA SecondLoopPlaces ==
    ASSUME NEW X \in Nat, NEW H \in Nat, X <= H, H <= X + UM_WINDOW,
           NEW K \in SUBSET Nat, \A d \in K : d < H /\ H <= d + UM_WINDOW,
           K # {} => H - 1 \in K, K = {} => X = H,
           NEW n, n = InSequence(X % UM_MOD, Numbers(K))
    PROVE  /\ n \in 0..UM_WINDOW /\ X + n <= H /\ X + n \notin K
           /\ \A i \in 1..n : X + i - 1 \in K
  <1>a. PICK M, W : M = UM_MOD /\ W = UM_WINDOW
    OBVIOUS
  <1>1. M \in Nat \ {0} /\ W \in Nat \ {0} /\ M = W + W
    BY <1>a, Modulus
  <1>b. PICK x, uh, D, y : x = X % UM_MOD /\ uh = H % UM_MOD /\ D = Numbers(K) /\ y = (x + n) % UM_MOD
    OBVIOUS
  <1>2. x \in UmSN /\ uh \in UmSN
    BY <1>b, NumberType
  <1>3. ASSUME NEW c \in Nat, c < H + W, H <= c + W
        PROVE  c % UM_MOD \in UmSN /\ RxModBase(c % UM_MOD, uh) = c + W - H
    BY <1>3, <1>a, <1>b, NumberType, PlaceInWindow
  <1>4. RxModBase(x, uh) = X + W - H
    <2>1. X < H + W /\ H <= X + W
      BY <1>1, <1>a
    <2> QED
      BY <1>3, <1>b, <2>1
  <1>5. \A d \in K : d % UM_MOD \in UmSN /\ RxModBase(d % UM_MOD, uh) = d + W - H
    <2> TAKE d \in K
    <2>1. d \in Nat /\ d < H + W /\ H <= d + W
      <3>1. d \in Nat /\ d < H /\ H <= d + UM_WINDOW
        OBVIOUS
      <3> QED
        BY <1>1, <1>a, <3>1
    <2> QED
      BY <1>3, <2>1
  <1>6. D \in SUBSET UmSN /\ (D = {} <=> K = {})
    BY <1>5, <1>b DEF Numbers
  <1>7. SecondLoop(x, uh, D, n, y)
    <2>1. RxModBase(x, uh) <= UM_WINDOW
      BY <1>1, <1>4, <1>a
    <2>2. \A s \in D : RxModBase(s, uh) < UM_WINDOW
      <3> SUFFICES ASSUME NEW d \in K PROVE RxModBase(d % UM_MOD, uh) < UM_WINDOW
        BY <1>b DEF Numbers
      <3>1. d \in Nat /\ d < H /\ RxModBase(d % UM_MOD, uh) = d + W - H
        BY <1>5
      <3> QED
        BY <1>1, <1>a, <3>1
    <2>3. D # {} => \E s \in D : RxModBase(s, uh) = UM_WINDOW - 1
      <3> SUFFICES ASSUME D # {} PROVE \E s \in D : RxModBase(s, uh) = UM_WINDOW - 1
        OBVIOUS
      <3>a. PICK c : c = H - 1
        OBVIOUS
      <3>1. c \in K /\ c \in Nat
        BY <1>6, <3>a
      <3>2. RxModBase(c % UM_MOD, uh) = c + W - H /\ c % UM_MOD \in D
        BY <1>5, <1>b, <3>1 DEF Numbers
      <3>3. c + W - H = UM_WINDOW - 1
        BY <1>1, <1>a, <3>a
      <3> QED
        BY <3>2, <3>3
    <2>4. D = {} => x = uh
      BY <1>6, <1>b
    <2> QED
      BY <1>2, <1>6, <1>b, <2>1, <2>2, <2>3, <2>4 DEF SecondLoop
  <1>8. /\ n \in 0..UM_WINDOW /\ y \in UmSN
        /\ RxModBase(y, uh) = RxModBase(x, uh) + n
        /\ RxModBase(y, uh) <= UM_WINDOW
        /\ \A z \in UmSN : RxModBase(x, uh) <= RxModBase(z, uh)
                           /\ RxModBase(z, uh) < RxModBase(y, uh) => z \in D
        /\ IsWindow(y, uh, {s \in D : RxModBase(s, uh) >= RxModBase(y, uh)})
    <2>1. SecondLoopStops(x, uh, D, n, y)
      BY <1>7, InSequenceStops
    <2> QED
      BY <2>1 DEF SecondLoopStops
  <1>9. n \in 0..W /\ X + n <= H /\ RxModBase(y, uh) = (X + n) + W - H
    BY <1>1, <1>4, <1>8, <1>a
  <1>10. y = (X + n) % UM_MOD
    <2>1. n \in 0..UM_MOD
      BY <1>1, <1>9, <1>a
    <2> QED
      BY <1>b, <2>1, NumberAhead
  <1>11. X + n \notin K
    <2> SUFFICES ASSUME X + n \in K PROVE FALSE
      OBVIOUS
    <2>1. y \in D
      BY <1>10, <1>b DEF Numbers
    <2>2. RxModBase(y, uh) \in Int
      BY <1>1, <1>9
    <2>3. y \in {s \in D : RxModBase(s, uh) >= RxModBase(y, uh)}
      BY <2>1, <2>2
    <2>4. RxModBase(y, uh) < RxModBase(y, uh)
      BY <1>8, <2>3 DEF IsWindow
    <2> QED
      BY <2>2, <2>4
  <1>12. ASSUME NEW i \in 1..n PROVE X + i - 1 \in K
    <2>a. PICK c : c = X + i - 1
      OBVIOUS
    <2>1. c \in Nat /\ X <= c /\ c < X + n /\ c < H + W /\ H <= c + W /\ c < H
      BY <1>1, <1>9, <1>a, <2>a
    <2>2. c % UM_MOD \in UmSN /\ RxModBase(c % UM_MOD, uh) = c + W - H
      BY <1>3, <2>1
    <2>3. c % UM_MOD \in D
      BY <1>1, <1>4, <1>8, <1>9, <2>1, <2>2
    <2>4. PICK d \in K : c % UM_MOD = d % UM_MOD
      BY <1>b, <2>3 DEF Numbers
    <2>5. d \in Nat /\ d < H /\ H <= d + W
      BY <1>a
    <2>6. RxModBase(d % UM_MOD, uh) = d + W - H
      BY <1>5
    <2>7. c = d
      BY <1>1, <2>1, <2>2, <2>4, <2>5, <2>6
    <2> QED
      BY <2>7, <2>a
  <1> QED
    BY <1>9, <1>11, <1>12, <1>a

------------------------------------------------------------------------------
(* handle_data_pdu by place: the numbers *)

\* PDUs at places K are held above VR(UR) at place R and below VR(UH) at place H.
WindowAt(H, R, K) ==
    /\ H \in Nat /\ R \in Nat /\ R <= H /\ H <= R + UM_WINDOW
    /\ K \in SUBSET Nat /\ \A d \in K : R < d /\ d < H
    /\ R < H => H - 1 \in K

\* VR(UH) after a PDU at place c.
HighAfter(H, c) == IF c < H THEN H ELSE c + 1

\* What handle_data_pdu makes of the numbers, with a PDU at place c.
LoopsGo(H, R, K, c, n1, ur1, n2, ur2, W2) ==
    LET W  == Numbers(K \cup {c})
        W1 == LeftAfter(W, R % UM_MOD, n1)
    IN /\ n1 = CatchUp(R % UM_MOD, HighAfter(H, c) % UM_MOD, W)
       /\ ur1 = ((R % UM_MOD) + n1) % UM_MOD
       /\ n2 = InSequence(ur1, W1)
       /\ ur2 = (ur1 + n2) % UM_MOD
       /\ W2 = LeftAfter(W1, ur1, n2)

\* ... and of the places.
LoopsGone(H, R, K, c, n1, ur1, n2, ur2, W2, R1, R2) ==
    /\ n1 \in 0..UM_WINDOW /\ n2 \in 0..UM_WINDOW
    /\ R1 \in Nat /\ R1 = R + n1 /\ R2 \in Nat /\ R2 = R1 + n2
    /\ ur1 = R1 % UM_MOD /\ ur2 = R2 % UM_MOD
    /\ \A i \in 1..n2 : R1 + i - 1 \in K \cup {c}
    /\ R2 \notin K \cup {c}
    /\ W2 = Numbers({d \in K \cup {c} : R2 < d})
    /\ \A d \in R..(R1 - 1) : d + UM_WINDOW < HighAfter(H, c)
    /\ R1 < HighAfter(H, c) /\ R2 <= HighAfter(H, c) /\ HighAfter(H, c) <= R1 + UM_WINDOW
    /\ WindowAt(HighAfter(H, c), R2, {d \in K \cup {c} : R2 < d})

LEMMA LoopsPlaces ==
    ASSUME NEW H, NEW R, NEW K, WindowAt(H, R, K), NEW c \in Nat, R <= c, c \notin K, c < H + UM_WINDOW,
           NEW n1, NEW ur1, NEW n2, NEW ur2, NEW W2, LoopsGo(H, R, K, c, n1, ur1, n2, ur2, W2)
    PROVE  \E R1, R2 : LoopsGone(H, R, K, c, n1, ur1, n2, ur2, W2, R1, R2)
  <1>a. PICK M, W : M = UM_MOD /\ W = UM_WINDOW
    OBVIOUS
  <1>1. M \in Nat \ {0} /\ W \in Nat \ {0} /\ M = W + W
    BY <1>a, Modulus
  <1>b. PICK H2, K1 : H2 = HighAfter(H, c) /\ K1 = K \cup {c}
    OBVIOUS
  <1>2. /\ H \in Nat /\ R \in Nat /\ R <= H /\ H <= R + W /\ K \in SUBSET Nat
        /\ \A d \in K : R < d /\ d < H
        /\ R < H => H - 1 \in K
    BY <1>a DEF WindowAt
  <1>3. /\ H2 \in Nat /\ R < H2 /\ H2 <= R + M /\ c < H2 /\ H <= H2
        /\ H2 = H \/ H2 = c + 1
    BY <1>1, <1>2, <1>a, <1>b DEF HighAfter
  <1>4. K1 \in SUBSET Nat /\ (\A d \in K1 : R <= d /\ d < H2)
    <2>1. ASSUME NEW d \in K1 PROVE R <= d /\ d < H2
      <3>1. CASE d = c
        BY <1>3, <3>1
      <3>2. CASE d \in K
        <4>1. d \in Nat /\ R < d /\ d < H
          BY <1>2, <3>2
        <4> QED
          BY <1>2, <1>3, <4>1
      <3> QED
        BY <1>b, <3>1, <3>2
    <2> QED
      BY <1>2, <1>b, <2>1
  <1>5. H2 - 1 \in K1
    <2>1. CASE H2 = c + 1
      <3>1. H2 - 1 = c
        BY <2>1
      <3> QED
        BY <1>b, <3>1
    <2>2. CASE H2 = H
      BY <1>2, <1>3, <1>b, <2>2
    <2> QED
      BY <1>3, <2>1, <2>2
  <1>c. PICK ur, uh, Wn, W1 : /\ ur = R % UM_MOD /\ uh = H2 % UM_MOD /\ Wn = Numbers(K1)
                              /\ W1 = LeftAfter(Wn, ur, n1)
    OBVIOUS
  <1>6. /\ n1 = CatchUp(ur, uh, Wn) /\ ur1 = (ur + n1) % UM_MOD
        /\ n2 = InSequence(ur1, W1) /\ ur2 = (ur1 + n2) % UM_MOD /\ W2 = LeftAfter(W1, ur1, n2)
    BY <1>b, <1>c DEF LoopsGo
  <1>7. /\ n1 \in 0..W /\ R + n1 < H2 /\ H2 <= (R + n1) + W
        /\ W1 = Numbers({d \in K1 : R + n1 <= d}) /\ n1 = CaughtUp(R, H2)
    <2>k. PICK k : k = CaughtUp(R, H2)
      OBVIOUS
    <2>0. H2 <= R + UM_MOD
      BY <1>3, <1>a
    <2>1. /\ k \in 0..UM_WINDOW /\ R + k < H2 /\ H2 <= (R + k) + UM_WINDOW
          /\ CatchUp(R % UM_MOD, H2 % UM_MOD, Numbers(K1)) = k
          /\ LeftAfter(Numbers(K1), R % UM_MOD, k) = Numbers({d \in K1 : R + k <= d})
      BY <1>2, <1>3, <1>4, <1>5, <2>k, <2>0, FirstLoopPlaces
    <2>2. n1 = k
      BY <1>6, <1>c, <2>1
    <2> QED
      BY <1>a, <1>c, <2>1, <2>2, <2>k
  <1>d. PICK R1, K2 : R1 = R + n1 /\ K2 = {d \in K1 : R1 <= d}
    OBVIOUS
  <1>8. R1 \in Nat /\ R1 < H2 /\ H2 <= R1 + W /\ W1 = Numbers(K2) /\ K2 \in SUBSET Nat
    <2>1. R1 \in Nat /\ R1 < H2 /\ H2 <= R1 + W
      BY <1>2, <1>7, <1>d
    <2>2. {d \in K1 : R + n1 <= d} = K2
      BY <1>d
    <2>3. K2 \in SUBSET Nat
      BY <1>4, <1>d
    <2> QED
      BY <1>7, <2>1, <2>2, <2>3
  <1>9. ur1 = R1 % UM_MOD
    <2>1. n1 \in 0..UM_MOD
      BY <1>1, <1>7, <1>a
    <2> QED
      BY <1>2, <1>6, <1>c, <1>d, <2>1, NumberAhead
  <1>10. /\ n2 \in 0..W /\ R1 + n2 <= H2 /\ R1 + n2 \notin K2
         /\ \A i \in 1..n2 : R1 + i - 1 \in K2
    <2>1. \A d \in K2 : d < H2 /\ H2 <= d + UM_WINDOW
      <3> TAKE d \in K2
      <3>1. d \in Nat /\ R1 <= d /\ d < H2
        BY <1>4, <1>8, <1>d
      <3>2. R1 \in Nat /\ H2 \in Nat /\ W \in Nat /\ H2 <= R1 + W
        BY <1>1, <1>3, <1>8
      <3> QED
        BY <1>a, <3>1, <3>2
    <2>2. H2 - 1 \in K2
      <3>1. R1 <= H2 - 1
        BY <1>3, <1>8
      <3> QED
        BY <1>5, <1>d, <3>1
    <2>3. n2 = InSequence(R1 % UM_MOD, Numbers(K2))
      BY <1>6, <1>8, <1>9
    <2>4. R1 <= H2 /\ H2 <= R1 + UM_WINDOW
      BY <1>3, <1>8, <1>a
    <2>5. K2 # {} => H2 - 1 \in K2
      BY <2>2
    <2>6. K2 = {} => R1 = H2
      BY <2>2
    <2>7. /\ n2 \in 0..UM_WINDOW /\ R1 + n2 <= H2 /\ R1 + n2 \notin K2
          /\ \A i \in 1..n2 : R1 + i - 1 \in K2
      BY <1>3, <1>8, <2>1, <2>3, <2>4, <2>5, <2>6, SecondLoopPlaces
    <2> QED
      BY <1>a, <2>7
  <1>e. PICK R2 : R2 = R1 + n2
    OBVIOUS
  <1>11. R2 \in Nat /\ R2 <= H2 /\ R2 \notin K2 /\ R1 <= R2 /\ H2 <= R2 + W /\ R <= R2
    BY <1>1, <1>2, <1>3, <1>7, <1>8, <1>10, <1>d, <1>e
  <1>12. ur2 = R2 % UM_MOD
    <2>1. n2 \in 0..UM_MOD
      BY <1>1, <1>10, <1>a
    <2> QED
      BY <1>6, <1>8, <1>9, <1>e, <2>1, NumberAhead
  <1>f. PICK K3 : K3 = {d \in K1 : R2 < d}
    OBVIOUS
  <1>13. {d \in K2 : R2 <= d} = K3
    <2>1. ASSUME NEW d \in K1 PROVE (R1 <= d /\ R2 <= d) <=> R2 < d
      <3>1. d \in Nat /\ (R1 <= d => d # R2)
        BY <1>4, <1>11, <1>d
      <3> QED
        BY <1>8, <1>11, <3>1
    <2> QED
      BY <1>d, <1>f, <2>1
  <1>14. W2 = Numbers(K3)
    <2>1. \A d \in K2 : R1 <= d /\ d < R1 + UM_MOD
      <3> TAKE d \in K2
      <3>1. d \in Nat /\ R1 <= d /\ d < H2
        BY <1>4, <1>8, <1>d
      <3> QED
        BY <1>1, <1>3, <1>8, <1>a, <3>1
    <2>2. n2 \in Nat
      BY <1>10
    <2>3. LeftAfter(Numbers(K2), R1 % UM_MOD, n2) = Numbers({d \in K2 : R1 + n2 <= d})
      BY <1>8, <2>1, <2>2, LeftAfterPlaces
    <2> QED
      BY <1>6, <1>8, <1>9, <1>13, <1>e, <2>3
  <1>15. WindowAt(H2, R2, K3)
    <2>1. K3 \in SUBSET Nat /\ (\A d \in K3 : R2 < d /\ d < H2)
      BY <1>4, <1>f
    <2>2. R2 < H2 => H2 - 1 \in K3
      <3> SUFFICES ASSUME R2 < H2 PROVE H2 - 1 \in K3
        OBVIOUS
      <3>a. PICK h : h = H2 - 1
        OBVIOUS
      <3>1. h \in Nat /\ h \in K1 /\ R2 <= h
        BY <1>3, <1>5, <1>11, <3>a
      <3>2. R1 <= h
        BY <1>8, <1>11, <3>1
      <3>3. h # R2
        BY <1>11, <1>d, <3>1, <3>2
      <3>4. R2 < h
        BY <1>11, <3>1, <3>3
      <3> QED
        BY <1>f, <3>1, <3>4, <3>a
    <2> QED
      BY <1>3, <1>11, <1>a, <2>1, <2>2 DEF WindowAt
  <1>16. \A i \in 1..n2 : R1 + i - 1 \in K1
    BY <1>10, <1>d
  <1>18. R2 \notin K1
    BY <1>8, <1>11, <1>d
  <1>17. LoopsGone(H, R, K, c, n1, ur1, n2, ur2, W2, R1, R2)
    <2>1. /\ n1 \in 0..UM_WINDOW /\ n2 \in 0..UM_WINDOW /\ H2 <= R1 + UM_WINDOW
      BY <1>7, <1>8, <1>10, <1>a
    <2>2. W2 = Numbers({d \in K1 : R2 < d}) /\ WindowAt(H2, R2, {d \in K1 : R2 < d})
      BY <1>14, <1>15, <1>f
    <2>3. \A d \in R..(R1 - 1) : d + UM_WINDOW < H2
      <3> TAKE d \in R..(R1 - 1)
      <3>1. n1 = IF R + UM_WINDOW < H2 THEN H2 - (R + UM_WINDOW) ELSE 0
        BY <1>7 DEF CaughtUp
      <3> QED
        BY <1>1, <1>2, <1>3, <1>7, <1>8, <1>a, <1>d, <3>1
    <2> QED
      BY <1>8, <1>9, <1>11, <1>12, <1>16, <1>18, <1>b, <1>d, <1>e, <2>1, <2>2, <2>3 DEF LoopsGone
  <1> QED
    BY <1>17

------------------------------------------------------------------------------
(* ... and the SDUs *)

\* The PDUs in win have the places K, and carry what was sent at them.
HeldPdus(win, F, K) ==
    /\ DOMAIN win = Numbers(K)
    /\ \A d \in K : win[d % UM_MOD] \in RxPdu /\ Spans(win[d % UM_MOD], F[d], F[d + 1])

LEMMA HeldArePdus ==
    ASSUME NEW win, NEW F, NEW K, HeldPdus(win, F, K)
    PROVE  PdusIn(win)
  BY DEF HeldPdus, PdusIn, Numbers

LEMMA HoldsFrom ==
    ASSUME NEW win, NEW F, NEW K \in SUBSET Nat, HeldPdus(win, F, K),
           NEW R \in Nat, \A d \in K : R <= d /\ d < R + UM_MOD,
           NEW x \in Nat, NEW n \in Nat, R <= x, x + n <= R + UM_MOD
    PROVE  HoldsPdus(win, F, x, n)
  <1>1. ASSUME NEW i \in 1..n, (x + i - 1) % UM_MOD \in DOMAIN win
        PROVE  Spans(win[(x + i - 1) % UM_MOD], F[x + i - 1], F[x + i])
    <2>a. PICK c : c = x + i - 1
      OBVIOUS
    <2>1. c \in Nat /\ R <= c /\ c < R + UM_MOD /\ c + 1 = x + i
      BY <2>a, Modulus
    <2>2. c % UM_MOD \in Numbers(K)
      BY <1>1, <2>a DEF HeldPdus
    <2>3. c \in K
      BY <2>1, <2>2, InNumbers
    <2>4. Spans(win[c % UM_MOD], F[c], F[c + 1])
      BY <2>3 DEF HeldPdus
    <2> QED
      BY <2>1, <2>4, <2>a
  <1> QED
    BY <1>1 DEF HoldsPdus

(* Both loops keep a state good. *)
LEMMA TakeReassembles ==
    ASSUME NEW H, NEW R, NEW K, WindowAt(H, R, K), NEW c \in Nat, R <= c, c < H + UM_WINDOW,
           NEW n1, NEW ur1, NEW n2, NEW ur2, NEW W2, NEW R1, NEW R2,
           LoopsGone(H, R, K, c, n1, ur1, n2, ur2, W2, R1, R2),
           NEW F, NEW S \in Nat, InOrderUpTo(F, S), HighAfter(H, c) <= S,
           NEW win, HeldPdus(win, F, K \cup {c}),
           NEW lo \in Nat, lo <= F[R][1], NEW r, GoodAt(r, F, R, lo)
    PROVE  GoodAt(PassLine(win, PassEdge(win, r, R % UM_MOD, n1), ur1, n2), F, R2, lo)
  <1>a. PICK M, W : M = UM_MOD /\ W = UM_WINDOW
    OBVIOUS
  <1>1. M \in Nat \ {0} /\ W \in Nat \ {0} /\ M = W + W
    BY <1>a, Modulus
  <1>b. PICK H2, K1 : H2 = HighAfter(H, c) /\ K1 = K \cup {c}
    OBVIOUS
  <1>2. /\ H \in Nat /\ R \in Nat /\ R <= H /\ H <= R + W /\ K \in SUBSET Nat
        /\ \A d \in K : R < d /\ d < H
    BY <1>a DEF WindowAt
  <1>3. /\ n1 \in 0..W /\ n2 \in 0..W /\ R1 \in Nat /\ R1 = R + n1 /\ R2 \in Nat /\ R2 = R1 + n2
        /\ ur1 = R1 % UM_MOD /\ \A i \in 1..n2 : R1 + i - 1 \in K1
        /\ R1 < H2 /\ R2 <= H2 /\ H2 <= R1 + W
    BY <1>a, <1>b DEF LoopsGone
  <1>4. H2 \in Nat /\ H2 <= S /\ H2 <= R + M
    <2>1. H2 \in Nat /\ H2 <= R + M
      BY <1>1, <1>2, <1>a, <1>b DEF HighAfter
    <2> QED
      BY <1>b, <2>1
  <1>5. K1 \in SUBSET Nat /\ \A d \in K1 : R <= d /\ d < R + UM_MOD
    <2>1. c < R + UM_MOD
      BY <1>1, <1>2, <1>a
    <2>2. \A d \in K : R <= d /\ d < R + UM_MOD
      <3> TAKE d \in K
      <3>1. d \in Nat /\ R < d /\ d < H
        BY <1>2
      <3> QED
        BY <1>1, <1>2, <1>a, <3>1
    <2> QED
      BY <1>2, <1>b, <2>1, <2>2
  <1>6. PdusIn(win) /\ HeldPdus(win, F, K1)
    BY <1>b, HeldArePdus
  <1>7. HoldsPdus(win, F, R, n1) /\ HoldsPdus(win, F, R1, n2)
    <2>1. n1 \in Nat /\ n2 \in Nat /\ R <= R /\ R + n1 <= R + UM_MOD /\ R <= R1 /\ R1 + n2 <= R + UM_MOD
      BY <1>1, <1>2, <1>3, <1>4, <1>a
    <2> QED
      BY <1>2, <1>3, <1>5, <1>6, <2>1, HoldsFrom
  <1>8. PICK in : in = (R - 1) % UM_MOD /\ Good(r, F[R], in, lo)
    BY DEF GoodAt
  <1>c. PICK r1 : r1 = PassEdge(win, r, R % UM_MOD, n1)
    OBVIOUS
  <1>9. GoodAt(r1, F, R1, lo)
    <2>1. n1 \in 0..UM_MOD /\ R + n1 <= S
      BY <1>1, <1>2, <1>3, <1>4, <1>a
    <2>2. \E out : out = (R + n1 - 1) % UM_MOD /\ Good(PassEdge(win, r, R % UM_MOD, n1), F[R + n1], out, lo)
      BY <1>2, <1>6, <1>7, <1>8, <2>1, PassEdgeKeeps
    <2>e. R + n1 - 1 = (R + n1) - 1
      BY <1>2, <1>3
    <2>3. GoodAt(PassEdge(win, r, R % UM_MOD, n1), F, R + n1, lo)
      BY <2>2, <2>e, Zenon DEF GoodAt
    <2>4. R + n1 = R1
      BY <1>3
    <2> QED
      BY <1>c, <2>3, <2>4
  <1>10. PICK in1 : in1 = (R1 - 1) % UM_MOD /\ Good(r1, F[R1], in1, lo)
    BY <1>9 DEF GoodAt
  <1>11. lo <= F[R1][1]
    <2>1. R \in 0..S /\ R1 \in R..S /\ R1 \in 0..S
      BY <1>2, <1>3, <1>4
    <2>2. F[R][1] \in Nat /\ F[R1][1] \in Nat /\ F[R][1] <= F[R1][1]
      BY <2>1 DEF InOrderUpTo
    <2> QED
      BY <2>2
  <1>12. n2 # 0 => (R1 + n2 - 1) % UM_MOD \in DOMAIN win
    <2> SUFFICES ASSUME n2 # 0 PROVE (R1 + n2 - 1) % UM_MOD \in DOMAIN win
      OBVIOUS
    <2>1. n2 \in 1..n2
      BY <1>3
    <2>2. R1 + n2 - 1 \in K1
      BY <1>3, <2>1
    <2> QED
      BY <1>6, <2>2 DEF HeldPdus, Numbers
  <1>13. \E out : out = (R1 + n2 - 1) % UM_MOD
                  /\ Good(PassLine(win, r1, R1 % UM_MOD, n2), F[R1 + n2], out, lo)
    <2>1. n2 \in 0..(UM_MOD - 1) /\ R1 + n2 <= S
      BY <1>1, <1>2, <1>3, <1>4, <1>a
    <2> QED
      BY <1>3, <1>6, <1>7, <1>10, <1>11, <1>12, <2>1, PassLineKeeps
  <1> QED
    BY <1>3, <1>13, <1>c DEF GoodAt

------------------------------------------------------------------------------
(* A PDU that is taken *)

\* VR(UH) as handle_data_pdu moves it.
High(sn, uh, D) == IF InsideReorderingWindow(sn, uh, D) THEN uh ELSE Next1(sn)

(* VR(UH) after a PDU at place c. *)
LEMMA HighMoves ==
    ASSUME NEW H \in Nat, NEW c \in Nat, H <= c + UM_WINDOW, c < H + UM_WINDOW, NEW D, D # {},
           NEW x, x = c % UM_MOD, NEW y, y = H % UM_MOD,
           NEW uh, uh = High(x, y, D)
    PROVE  uh = HighAfter(H, c) % UM_MOD
  <1>h. uh = IF InsideReorderingWindow(x, y, D) THEN y ELSE Next1(x)
    BY DEF High
  <1>a. PICK W : W = UM_WINDOW
    OBVIOUS
  <1>b. PICK p : p = RxModBase(x, y)
    OBVIOUS
  <1>1. x \in UmSN /\ y \in UmSN
    BY NumberType
  <1>2. p = c + UM_WINDOW - H
    BY <1>b, PlaceInWindow
  <1>3. InsideReorderingWindow(x, y, D) <=> p < UM_WINDOW
    BY <1>1, <1>b, InsideIsBelowWindow
  <1>4. p < UM_WINDOW <=> c < H
    <2>1. W \in Nat /\ p = c + W - H
      BY <1>2, <1>a, Modulus
    <2>2. p < W <=> c < H
      BY <2>1
    <2> QED
      BY <2>2, <1>a
  <1>5. Next1(x) = (c + 1) % UM_MOD
    BY NumberNext
  <1>6. CASE c < H
    <2>1. HighAfter(H, c) = H
      BY <1>6 DEF HighAfter
    <2> QED
      BY <1>3, <1>4, <1>6, <1>b, <1>h, <2>1
  <1>7. CASE ~(c < H)
    <2>1. HighAfter(H, c) = c + 1
      BY <1>7 DEF HighAfter
    <2> QED
      BY <1>3, <1>4, <1>5, <1>7, <1>b, <1>h, <2>1
  <1> QED
    BY <1>6, <1>7

(* The PDUs discarded are those below VR(UR) and those that are held. *)
LEMMA DiscardedPlaces ==
    ASSUME NEW H, NEW R, NEW K, WindowAt(H, R, K), vr_uh = H % UM_MOD, vr_ur = R % UM_MOD,
           DOMAIN rx_window = Numbers(K),
           NEW c \in Nat, H <= c + UM_WINDOW, c < H + UM_WINDOW
    PROVE  /\ Discarded(c % UM_MOD) => c < H
           /\ ~Discarded(c % UM_MOD) => R <= c /\ c \notin K
  <1>a. PICK M, W : M = UM_MOD /\ W = UM_WINDOW
    OBVIOUS
  <1>1. M \in Nat \ {0} /\ W \in Nat \ {0} /\ M = W + W
    BY <1>a, Modulus
  <1>2. /\ H \in Nat /\ R \in Nat /\ R <= H /\ H <= R + W /\ K \in SUBSET Nat
        /\ \A d \in K : R < d /\ d < H
    BY <1>a DEF WindowAt
  <1>b. PICK sn, uh, ur : sn = c % UM_MOD /\ uh = H % UM_MOD /\ ur = R % UM_MOD
    OBVIOUS
  <1>c. PICK p, q : p = RxModBase(sn, uh) /\ q = RxModBase(ur, uh)
    OBVIOUS
  <1>3. uh \in UmSN /\ RxModBase(uh - UM_WINDOW, uh) = 0
    BY <1>2, <1>b, NumberType, EdgeOfWindow
  <1>4. p = c + W - H
    BY <1>2, <1>a, <1>b, <1>c, PlaceInWindow
  <1>5. q = R + W - H
    <2>1. H <= R + UM_WINDOW /\ R < H + UM_WINDOW
      BY <1>1, <1>2, <1>a
    <2> QED
      BY <1>2, <1>a, <1>b, <1>c, <2>1, PlaceInWindow
  <1>6. p >= 0 /\ (p < q <=> c < R)
    BY <1>1, <1>2, <1>4, <1>5, <1>a
  <1>7. Discarded(sn) <=> (c < R \/ sn \in DOMAIN rx_window)
    BY <1>3, <1>6, <1>b, <1>c DEF Discarded
  <1>8. R <= c => (sn \in DOMAIN rx_window <=> c \in K)
    <2> SUFFICES ASSUME R <= c PROVE sn \in Numbers(K) <=> c \in K
      OBVIOUS
    <2>1. c < R + UM_MOD
      BY <1>1, <1>2, <1>a
    <2>2. \A d \in K : R <= d /\ d < R + UM_MOD
      <3> TAKE d \in K
      <3>1. d \in Nat /\ R < d /\ d < H
        BY <1>2
      <3> QED
        BY <1>1, <1>2, <1>a, <3>1
    <2> QED
      BY <1>2, <1>b, <2>1, <2>2, InNumbers
  <1>9. c \in K => c < H
    BY <1>2
  <1>10. c < R \/ R <= c
    BY <1>2
  <1>11. c < R => c < H
    BY <1>2
  <1> QED
    BY <1>7, <1>8, <1>9, <1>10, <1>11, <1>b

\* What VR(UX) is, while the reordering timer runs: a place up to VR(UH), with a PDU
\* held below it.
WaitsFor(ux, H, R, K) == \E X \in R..H : ux = X % UM_MOD /\ (R < X => X - 1 \in K)

(* The timer runs on. *)
LEMMA WaitsAgain ==
    ASSUME NEW H \in Nat, NEW R \in Nat, R <= H, H <= R + UM_WINDOW, NEW K, NEW ux, WaitsFor(ux, H, R, K),
           NEW H2, NEW R2, NEW K1, K \subseteq K1, R2 \notin K1, WindowAt(H2, R2, {d \in K1 : R2 < d}),
           H <= H2, H2 <= H + UM_WINDOW, R <= R2,
           RxModBase(R2 % UM_MOD, H2 % UM_MOD) < RxModBase(ux, H2 % UM_MOD),
           RxModBase(ux, H2 % UM_MOD) <= UM_WINDOW
    PROVE  WaitsFor(ux, H2, R2, {d \in K1 : R2 < d})
  <1>a. PICK M, W : M = UM_MOD /\ W = UM_WINDOW
    OBVIOUS
  <1>1. M \in Nat \ {0} /\ W \in Nat \ {0} /\ M = W + W
    BY <1>a, Modulus
  <1>b. PICK K2 : K2 = {d \in K1 : R2 < d}
    OBVIOUS
  <1>2. PICK X \in R..H : ux = X % UM_MOD /\ (R < X => X - 1 \in K)
    BY DEF WaitsFor
  <1>3. /\ H2 \in Nat /\ R2 \in Nat /\ R2 <= H2 /\ H2 <= R2 + W
        /\ K2 \in SUBSET Nat /\ (R2 < H2 => H2 - 1 \in K2)
    BY <1>a, <1>b DEF WindowAt
  <1>c. PICK p, q : p = RxModBase(ux, H2 % UM_MOD) /\ q = RxModBase(R2 % UM_MOD, H2 % UM_MOD)
    OBVIOUS
  <1>4. q = R2 + W - H2
    <2>1. H2 <= R2 + UM_WINDOW /\ R2 < H2 + UM_WINDOW
      BY <1>1, <1>3, <1>a
    <2> QED
      BY <1>3, <1>a, <1>c, <2>1, PlaceInWindow
  <1>5. q < p /\ p <= W
    BY <1>a, <1>c
  <1>6. X \in Nat /\ R <= X /\ X <= H /\ X < H2 + W /\ H2 <= X + W + W
    BY <1>1, <1>3, <1>a
  <1>7. CASE H2 <= X + W
    <2>1. p = X + W - H2
      BY <1>2, <1>3, <1>6, <1>7, <1>a, <1>c, PlaceInWindow
    <2>2. R2 < X /\ X \in R2..H2
      BY <1>1, <1>3, <1>4, <1>5, <1>6, <2>1
    <2>3. R < X
      BY <1>3, <1>6, <2>2
    <2>4. X - 1 \in K1
      BY <1>2, <2>3
    <2>5. X - 1 # R2
      BY <2>4
    <2>6. R2 < X - 1
      BY <1>3, <1>6, <2>2, <2>5
    <2>7. X - 1 \in K2
      BY <1>b, <2>4, <2>6
    <2> QED
      BY <1>2, <1>b, <2>2, <2>7 DEF WaitsFor
  <1>8. CASE ~(H2 <= X + W)
    <2>1. X + W < H2
      BY <1>1, <1>3, <1>6, <1>8
    <2>2. p = (X + W - H2) + UM_MOD
      BY <1>2, <1>3, <1>6, <1>a, <1>c, <2>1, PlaceInWindow
    <2>3. p = (X + W - H2) + M
      BY <1>a, <2>2
    <2>4. H2 = X + M
      BY <1>1, <1>3, <1>5, <1>6, <2>3
    <2>5. ux = H2 % UM_MOD
      <3>1. UM_MOD \in 0..UM_MOD
        BY Modulus
      <3>2. ((X % UM_MOD) + UM_MOD) % UM_MOD = (X + UM_MOD) % UM_MOD
        BY <1>6, <3>1, NumberAhead
      <3>3. X % UM_MOD \in UmSN
        BY <1>6, NumberType
      <3>4. ((X % UM_MOD) + UM_MOD) % UM_MOD = X % UM_MOD
        BY <3>3, UmSnAssumption DEF UmSN
      <3>5. H2 = X + UM_MOD
        BY <1>a, <2>4
      <3> QED
        BY <1>2, <3>2, <3>4, <3>5
    <2>6. H2 \in R2..H2
      BY <1>3
    <2> QED
      BY <1>3, <1>b, <2>5, <2>6 DEF WaitsFor
  <1> QED
    BY <1>7, <1>8

------------------------------------------------------------------------------
(* What reception leaves *)

(* The window with a PDU more. *)
LEMMA HeldWithPdu ==
    ASSUME NEW H, NEW R, NEW K, WindowAt(H, R, K), NEW F, NEW win, HeldPdus(win, F, K),
           NEW c \in Nat, R <= c, c \notin K, c < H + UM_WINDOW,
           NEW pdu \in RxPdu, Spans(pdu, F[c], F[c + 1]), pdu.sn = c % UM_MOD
    PROVE  HeldPdus(WithPdu(win, pdu), F, K \cup {c})
  <1>b. PICK sn, win2 : sn = c % UM_MOD /\ win2 = WithPdu(win, pdu)
    OBVIOUS
  <1>c. win2 = [s \in DOMAIN win \cup {sn} |-> IF s = sn THEN pdu ELSE win[s]]
    BY <1>b DEF WithPdu
  <1>a. PICK M, W : M = UM_MOD /\ W = UM_WINDOW
    OBVIOUS
  <1>1. M \in Nat \ {0} /\ W \in Nat \ {0} /\ M = W + W
    BY <1>a, Modulus
  <1>2. /\ H \in Nat /\ R \in Nat /\ R <= H /\ H <= R + W /\ K \in SUBSET Nat
        /\ \A d \in K : R < d /\ d < H
    BY <1>a DEF WindowAt
  <1>3. DOMAIN win2 = Numbers(K \cup {c})
    <2>1. DOMAIN win = Numbers(K)
      BY DEF HeldPdus
    <2>2. Numbers(K \cup {c}) = Numbers(K) \cup {sn}
      BY <1>b DEF Numbers
    <2> QED
      BY <1>c, <2>1, <2>2
  <1>4. ASSUME NEW d \in K
        PROVE  win2[d % UM_MOD] \in RxPdu /\ Spans(win2[d % UM_MOD], F[d], F[d + 1])
    <2>a. PICK s : s = d % UM_MOD
      OBVIOUS
    <2>1. s \in DOMAIN win /\ win[s] \in RxPdu /\ Spans(win[s], F[d], F[d + 1])
      BY <2>a DEF HeldPdus, Numbers
    <2>2. d \in Nat /\ R < d /\ d < H /\ c # d
      BY <1>2
    <2>3. R <= d /\ d < R + UM_MOD /\ c < R + UM_MOD
      BY <1>1, <1>2, <1>a, <2>2
    <2>4. s # sn
      BY <1>2, <1>b, <2>2, <2>3, <2>a, NumberIsPlace
    <2>5. win2[s] = win[s]
      BY <1>c, <2>1, <2>4
    <2> QED
      BY <2>1, <2>5, <2>a
  <1>5. win2[c % UM_MOD] = pdu
    BY <1>b, <1>c
  <1>6. HeldPdus(win2, F, K \cup {c})
    BY <1>3, <1>4, <1>5 DEF HeldPdus
  <1> QED
    BY <1>6, <1>b

(* The window with PDUs less. *)
LEMMA HeldLess ==
    ASSUME NEW F, NEW win, NEW K, NEW L, L \subseteq K, HeldPdus(win, F, K),
           NEW win2, DOMAIN win2 = Numbers(L), \A s \in Numbers(L) : win2[s] = win[s]
    PROVE  HeldPdus(win2, F, L)
  <1>1. ASSUME NEW d \in L
        PROVE  win2[d % UM_MOD] \in RxPdu /\ Spans(win2[d % UM_MOD], F[d], F[d + 1])
    <2>a. PICK s : s = d % UM_MOD
      OBVIOUS
    <2>1. s \in Numbers(L) /\ d \in K
      BY <2>a DEF Numbers
    <2>2. win2[s] = win[s] /\ win[s] \in RxPdu /\ Spans(win[s], F[d], F[d + 1])
      BY <2>1, <2>a DEF HeldPdus
    <2> QED
      BY <2>2, <2>a
  <1> QED
    BY <1>1 DEF HeldPdus

\* The receiver, with PDUs of the places K held below VR(UH) at place H, and all SDUs
\* delivered that end below VR(UR) at place R and could be.
RxAt(H, R, K, F) ==
    /\ UmRxInv
    /\ WindowAt(H, R, K) /\ vr_uh = H % UM_MOD /\ vr_ur = R % UM_MOD
    /\ HeldPdus(rx_window, F, K)
    /\ reordering_running => WaitsFor(vr_ux, H, R, K)
    /\ GoodAt(Members, F, R, F[R][1])

\* What a good state leaves behind.
LEMMA MembersAgain ==
    ASSUME NEW r, NEW F, NEW R, NEW lo, GoodAt(r, F, R, lo), F[R][1] \in Nat,
           NEW m, m = [sdu |-> r.sdu, in |-> r.in, lost |-> r.lost, out |-> << >>]
    PROVE  GoodAt(m, F, R, F[R][1]) /\ Handed(r.out, lo, F[R][1])
  <1>1. PICK in : in = (R - 1) % UM_MOD /\ Good(r, F[R], in, lo)
    BY DEF GoodAt
  <1>2. /\ r \in RxRec /\ (r.sdu = << >> \/ (r.sdu = Part(F[R]) /\ r.in = in))
        /\ Handed(r.out, lo, F[R][1])
    BY <1>1 DEF Good
  <1>3. m \in RxRec /\ m.sdu = r.sdu /\ m.in = r.in /\ m.out = << >>
    BY <1>2, EmptySeq DEF RxRec
  <1>4. Handed(<< >>, F[R][1], F[R][1])
    BY HandedNone
  <1>5. Good(m, F[R], in, F[R][1])
    BY <1>2, <1>3, <1>4 DEF Good
  <1> QED
    BY <1>1, <1>2, <1>5 DEF GoodAt

(* A PDU of place c comes: it is discarded, or the receiver takes it. *)
LEMMA TakesPdu ==
    ASSUME NEW H, NEW R, NEW K, NEW F, RxAt(H, R, K, F), NEW S \in Nat, InOrderUpTo(F, S),
           NEW c \in Nat, H <= c + UM_WINDOW, c < H + UM_WINDOW, HighAfter(H, c) <= S,
           NEW pdu \in RxPdu, pdu.sn = c % UM_MOD, Spans(pdu, F[c], F[c + 1]),
           HandleDataPdu(pdu), ~Discarded(pdu.sn)
    PROVE  \E R2, K2, out : /\ RxAt(HighAfter(H, c), R2, K2, F)' /\ R <= R2
                            /\ Handed(out, F[R][1], F[R2][1])
                            /\ PdcpWritePdus(rx_st, out)
  <1>a. PICK M, W : M = UM_MOD /\ W = UM_WINDOW
    OBVIOUS
  <1>1. M \in Nat \ {0} /\ W \in Nat \ {0} /\ M = W + W
    BY <1>a, Modulus
  <1>2. /\ UmRxInv /\ WindowAt(H, R, K) /\ vr_uh = H % UM_MOD /\ vr_ur = R % UM_MOD
        /\ HeldPdus(rx_window, F, K) /\ DOMAIN rx_window = Numbers(K)
        /\ reordering_running => WaitsFor(vr_ux, H, R, K)
        /\ GoodAt(Members, F, R, F[R][1])
    BY DEF RxAt, HeldPdus
  <1>sn. PICK sn : sn = pdu.sn
    OBVIOUS
  <1>W. PICK D : D = DOMAIN rx_window \cup {sn}
    OBVIOUS
  <1>win. PICK win : win = WithPdu(rx_window, pdu)
    OBVIOUS
  <1>uh. PICK uh : uh = High(sn, vr_uh, D)
    OBVIOUS
  <1>n1. PICK n1 : n1 = CatchUp(vr_ur, uh, D)
    OBVIOUS
  <1>x. PICK x : x = (vr_ur + n1) % UM_MOD
    OBVIOUS
  <1>W1. PICK D1 : D1 = LeftAfter(D, vr_ur, n1)
    OBVIOUS
  <1>n2. PICK n2 : n2 = InSequence(x, D1)
    OBVIOUS
  <1>y. PICK y : y = (x + n2) % UM_MOD
    OBVIOUS
  <1>W2. PICK D2 : D2 = LeftAfter(D1, x, n2)
    OBVIOUS
  <1>r. PICK r : r = PassLine(win, PassEdge(win, Members, vr_ur, n1), x, n2)
    OBVIOUS
  <1> DEFINE still == StillReordering(y, uh, D2)
             start == ~still /\ RxModBase(uh, uh) > RxModBase(y, uh)
  <1>3. /\ vr_uh' = uh /\ vr_ur' = y
        /\ DOMAIN rx_window' = D2 /\ \A s \in D2 : rx_window'[s] = win[s]
        /\ Reassembled(r, rx_st)
        /\ reordering_running' = (still \/ start)
        /\ vr_ux' = IF start THEN uh ELSE vr_ux
    <2>1. /\ vr_uh' = uh /\ vr_ur' = y
          /\ reordering_running' = (still \/ start)
          /\ vr_ux' = IF start THEN uh ELSE vr_ux
      BY <1>sn, <1>W, <1>uh, <1>n1, <1>x, <1>W1, <1>n2, <1>y, <1>W2 DEF HandleDataPdu, High
    <2> HIDE DEF still, start
    <2>2. DOMAIN rx_window' = D2 /\ \A s \in D2 : rx_window'[s] = win[s]
      BY <1>sn, <1>W, <1>win, <1>uh, <1>n1, <1>x, <1>W1, <1>n2, <1>y, <1>W2 DEF HandleDataPdu, High
    <2>3. Reassembled(r, rx_st)
      BY <1>sn, <1>W, <1>win, <1>uh, <1>n1, <1>x, <1>W1, <1>n2, <1>r DEF HandleDataPdu, High
    <2> QED
      BY <2>1, <2>2, <2>3
  <1> HIDE DEF still, start
  <1>4. UmRxInv'
    <2>1. pdu.sn \in UmSN
      BY NumberType
    <2> QED
      BY <1>2, <2>1, HandleDataPduKeepsWindow
  <1>5. R <= c /\ c \notin K
    BY <1>2, DiscardedPlaces
  <1>6. H \in Nat /\ R \in Nat /\ R <= H /\ H <= R + UM_WINDOW /\ K \in SUBSET Nat
    BY <1>2 DEF WindowAt
  <1>7. D = Numbers(K \cup {c}) /\ D # {}
    BY <1>2, <1>sn, <1>W DEF Numbers
  <1>h. PICK H2 : H2 = HighAfter(H, c)
    OBVIOUS
  <1>8. uh = H2 % UM_MOD
    <2>1. sn = c % UM_MOD /\ vr_uh = H % UM_MOD /\ uh = High(sn, vr_uh, D) /\ D # {} /\ H \in Nat
      BY <1>2, <1>6, <1>7, <1>sn, <1>uh
    <2>2. uh = HighAfter(H, c) % UM_MOD
      BY <2>1, HighMoves, Zenon
    <2> QED
      BY <2>2, <1>h
  <1>9. LoopsGo(H, R, K, c, n1, x, n2, y, D2)
    BY <1>2, <1>7, <1>8, <1>h, <1>n1, <1>x, <1>W1, <1>n2, <1>y, <1>W2 DEF LoopsGo
  <1>10. PICK R1, R2 : LoopsGone(H, R, K, c, n1, x, n2, y, D2, R1, R2)
    BY <1>2, <1>5, <1>9, LoopsPlaces
  <1>k. PICK K2 : K2 = {d \in K \cup {c} : R2 < d}
    OBVIOUS
  <1>11. /\ n1 \in Nat /\ n2 \in Nat /\ R1 = R + n1 /\ R2 = R1 + n2 /\ R2 \in Nat /\ y = R2 % UM_MOD
         /\ R2 \notin K \cup {c} /\ D2 = Numbers(K2) /\ R2 <= H2 /\ WindowAt(H2, R2, K2)
    BY <1>h, <1>k, <1>10 DEF LoopsGone
  <1>12. H2 \in Nat /\ H <= H2 /\ H2 <= H + UM_WINDOW
    <2>1. H2 \in Nat /\ H <= H2 /\ H2 <= H + W
      BY <1>1, <1>6, <1>a, <1>h DEF HighAfter
    <2> QED
      BY <1>a, <2>1
  <1>13. R <= R2
    BY <1>6, <1>11
  <1>14. HeldPdus(win, F, K \cup {c})
    BY <1>2, <1>5, <1>sn, <1>win, HeldWithPdu
  <1>15. HeldPdus(rx_window, F, K2)'
    <2>1. HeldPdus(rx_window', F, K2)
      BY <1>3, <1>11, <1>14, <1>k, HeldLess
    <2> QED
      BY <2>1 DEF HeldPdus
  <1>16. F[R][1] \in Nat /\ F[R2][1] \in Nat
    <2>1. R \in 0..S /\ R2 \in 0..S
      BY <1>6, <1>11, <1>12, <1>h
    <2> QED
      BY <2>1 DEF InOrderUpTo
  <1>17. GoodAt(r, F, R2, F[R][1])
    BY <1>2, <1>5, <1>10, <1>14, <1>16, <1>r, TakeReassembles
  <1>18. GoodAt(Members', F, R2, F[R2][1]) /\ Handed(r.out, F[R][1], F[R2][1])
    <2>1. Members' = [sdu |-> r.sdu, in |-> r.in, lost |-> r.lost, out |-> << >>]
      BY <1>3 DEF Members, Reassembled
    <2> QED
      BY <1>16, <1>17, <2>1, MembersAgain
  <1>19. reordering_running' => WaitsFor(vr_ux', H2, R2, K2)
    <2> SUFFICES ASSUME reordering_running' PROVE WaitsFor(vr_ux', H2, R2, K2)
      OBVIOUS
    <2>1. R2 <= H2 /\ (R2 < H2 => H2 - 1 \in K2)
      BY <1>11 DEF WindowAt
    <2>2. CASE start
      <3>1. vr_ux' = H2 % UM_MOD
        BY <1>3, <1>8, <2>2
      <3>2. H2 \in R2..H2
        BY <1>11, <1>12
      <3> QED
        BY <2>1, <3>1, <3>2 DEF WaitsFor
    <2>3. CASE ~start
      <3>1. still /\ vr_ux' = vr_ux
        BY <1>3, <2>3
      <3>2. reordering_running /\ RxModBase(vr_ux, uh) > RxModBase(y, uh)
        BY <3>1 DEF still, StillReordering
      <3>3. CASE K2 = {}
        <4>1. DOMAIN rx_window' = {}
          BY <1>3, <1>11, <3>3 DEF Numbers
        <4>2. vr_ux' = vr_ur'
          BY <1>4, <4>1 DEF UmRxInv, HeldIsWaitedFor
        <4>3. R2 \in R2..H2 /\ ~(R2 < R2) /\ vr_ux' = R2 % UM_MOD
          BY <1>3, <1>11, <1>12, <4>2
        <4> QED
          BY <4>3 DEF WaitsFor
      <3>4. CASE K2 # {}
        <4>1. DOMAIN rx_window' # {}
          BY <1>3, <1>11, <3>4 DEF Numbers
        <4>2. RxModBase(vr_ux', vr_uh') <= UM_WINDOW
          BY <1>4, <4>1 DEF UmRxInv, HeldIsWaitedFor
        <4>p. PICK p, q : p = RxModBase(vr_ux, uh) /\ q = RxModBase(y, uh)
          OBVIOUS
        <4>3. p \in Nat /\ q \in Nat /\ p > q /\ p <= UM_WINDOW
          <5>1. vr_ux \in UmSN /\ y \in UmSN /\ uh \in UmSN
            BY <1>2, <1>8, <1>11, <1>12, NumberType DEF UmRxInv, UmRxTypeOK
          <5>2. p \in 0..(UM_MOD - 1) /\ q \in 0..(UM_MOD - 1)
            BY <4>p, <5>1, RxModBaseIsDistance
          <5> QED
            BY <1>3, <3>1, <3>2, <4>2, <4>p, <5>2
        <4>4. q < p
          BY <4>3
        <4>5. /\ RxModBase(R2 % UM_MOD, H2 % UM_MOD) < RxModBase(vr_ux, H2 % UM_MOD)
              /\ RxModBase(vr_ux, H2 % UM_MOD) <= UM_WINDOW
          BY <1>8, <1>11, <4>3, <4>4, <4>p
        <4>c. PICK K1 : K1 = K \cup {c}
          OBVIOUS
        <4>6. WaitsFor(vr_ux, H2, R2, {d \in K1 : R2 < d})
          BY <1>2, <1>6, <1>11, <1>12, <1>13, <1>k, <3>2, <4>5, <4>c, WaitsAgain
        <4> QED
          BY <1>k, <3>1, <4>6, <4>c
      <3> QED
        BY <3>3, <3>4
    <2> QED
      BY <2>2, <2>3
  <1>20. vr_uh' = H2 % UM_MOD /\ vr_ur' = R2 % UM_MOD
    BY <1>3, <1>8, <1>11
  <1>21. RxAt(H2, R2, K2, F)'
    BY <1>4, <1>11, <1>15, <1>18, <1>19, <1>20 DEF RxAt
  <1>22. PdcpWritePdus(rx_st, r.out)
    BY <1>3 DEF Reassembled
  <1> QED
    BY <1>13, <1>18, <1>21, <1>22, <1>h

------------------------------------------------------------------------------
(* An expiry of the reordering timer *)

\* What an expiry of the reordering timer comes to: VR(UR) at place R2.
ExpiryGoes(H, R, K, F, R2) ==
    /\ R2 \in Nat /\ R <= R2 /\ R2 <= H /\ WindowAt(H, R2, {d \in K : R2 < d})
    /\ UrAtExpiry = R2 % UM_MOD
    /\ LeftAfter(DOMAIN rx_window, vr_ur, ExpiryMoves) = Numbers({d \in K : R2 < d})
    /\ GoodAt(AtExpiry, F, R2, F[R][1])

(* How far VR(UR) moves: up to VR(UX) and on to the first place missing. *)
LEMMA ExpiryMovesTo ==
    ASSUME NEW H, NEW R, NEW K, NEW F, RxAt(H, R, K, F), reordering_running
    PROVE  /\ ExpiryMoves \in 0..UM_WINDOW /\ R + ExpiryMoves <= H /\ R + ExpiryMoves \notin K
           /\ ExpiryMoves # 0 => R + ExpiryMoves - 1 \in K
           /\ K # {} => ExpiryMoves # 0
  <1>a. PICK M, W : M = UM_MOD /\ W = UM_WINDOW
    OBVIOUS
  <1>1. M \in Nat \ {0} /\ W \in Nat \ {0} /\ M = W + W
    BY <1>a, Modulus
  <1>2. /\ UmRxInv /\ WindowAt(H, R, K) /\ vr_uh = H % UM_MOD /\ vr_ur = R % UM_MOD
        /\ DOMAIN rx_window = Numbers(K) /\ WaitsFor(vr_ux, H, R, K)
    BY DEF RxAt, HeldPdus
  <1>3. /\ H \in Nat /\ R \in Nat /\ R <= H /\ H <= R + W /\ K \in SUBSET Nat
        /\ (\A d \in K : R < d /\ d < H) /\ (R < H => H - 1 \in K)
    BY <1>2, <1>a DEF WindowAt
  <1>4. PICK X \in R..H : vr_ux = X % UM_MOD /\ (R < X => X - 1 \in K)
    BY <1>2 DEF WaitsFor
  <1>5. X \in Nat /\ R <= X /\ X <= H
    BY <1>3
  <1>c. PICK p, q : p = RxModBase(vr_ux, vr_uh) /\ q = RxModBase(vr_ur, vr_uh)
    OBVIOUS
  <1>6. p = X + W - H /\ q = R + W - H
    <2>1. H <= R + UM_WINDOW /\ R < H + UM_WINDOW /\ H <= X + UM_WINDOW /\ X < H + UM_WINDOW
      BY <1>1, <1>3, <1>5, <1>a
    <2>2. p = X + UM_WINDOW - H
      <3>1. p = RxModBase(X % UM_MOD, H % UM_MOD)
        BY <1>2, <1>4, <1>c
      <3> QED
        BY <1>3, <1>5, <2>1, <3>1, PlaceInWindow
    <2>3. q = R + UM_WINDOW - H
      <3>1. q = RxModBase(R % UM_MOD, H % UM_MOD)
        BY <1>2, <1>c
      <3> QED
        BY <1>3, <2>1, <3>1, PlaceInWindow
    <2> QED
      BY <2>2, <2>3, <1>a
  <1>7. q < p <=> R < X
    BY <1>1, <1>3, <1>5, <1>6
  <1>e. PICK e : e = ExpiryMoves
    OBVIOUS
  <1>8. CASE R = X
    <2>1. e = 0
      BY <1>3, <1>7, <1>8, <1>c, <1>e DEF ExpiryMoves
    <2>2. R \notin K
      BY <1>3
    <2>3. e \in 0..UM_WINDOW /\ R + e <= H /\ R + e = R
      BY <1>1, <1>3, <1>a, <2>1
    <2>4. K = {}
      <3> SUFFICES ASSUME K # {} PROVE FALSE
        OBVIOUS
      <3>1. DOMAIN rx_window # {}
        BY <1>2 DEF Numbers
      <3>2. q < p
        BY <1>2, <1>c, <3>1 DEF UmRxInv, HeldIsWaitedFor
      <3> QED
        BY <1>3, <1>7, <1>8, <3>2
    <2> QED
      BY <1>e, <2>1, <2>2, <2>3, <2>4
  <1>9. CASE R # X
    <2>1. R < X
      BY <1>3, <1>5, <1>9
    <2>n. PICK n, m : n = InSequence(vr_ux, DOMAIN rx_window) /\ m = (vr_ux - vr_ur) % UM_MOD
      OBVIOUS
    <2>2. m = X - R
      <3>1. X < R + UM_MOD
        BY <1>1, <1>3, <1>5, <1>a
      <3> QED
        BY <1>2, <1>3, <1>4, <1>5, <2>n, <3>1, PlaceAhead
    <2>3. e = m + n
      BY <1>7, <1>c, <1>e, <2>1, <2>n DEF ExpiryMoves
    <2>4. /\ n \in 0..UM_WINDOW /\ X + n <= H /\ X + n \notin K
          /\ \A i \in 1..n : X + i - 1 \in K
      <3>1. H <= X + UM_WINDOW
        BY <1>1, <1>3, <1>5, <1>a
      <3>2. \A d \in K : d < H /\ H <= d + UM_WINDOW
        <4> TAKE d \in K
        <4>1. d \in Nat /\ R < d /\ d < H
          BY <1>3
        <4> QED
          BY <1>1, <1>3, <1>a, <4>1
      <3>3. R < H /\ H - 1 \in K
        BY <1>3, <1>5, <2>1
      <3>4. (K # {} => H - 1 \in K) /\ (K = {} => X = H)
        BY <3>3
      <3>5. n = InSequence(X % UM_MOD, Numbers(K))
        BY <1>2, <1>4, <2>n
      <3> QED
        BY <1>3, <1>5, <3>1, <3>2, <3>4, <3>5, SecondLoopPlaces
    <2>5. n \in Nat /\ R + e = X + n /\ e <= W /\ e > 0 /\ e \in Nat
      BY <1>1, <1>3, <1>5, <1>a, <2>1, <2>2, <2>3, <2>4
    <2>6. R + e - 1 \in K
      <3>1. CASE n = 0
        <4>1. R + e - 1 = X - 1
          BY <1>3, <1>5, <2>5, <3>1
        <4> QED
          BY <1>4, <2>1, <4>1
      <3>2. CASE n # 0
        <4>1. R + e - 1 = X + n - 1 /\ n \in 1..n
          BY <1>3, <1>5, <2>5, <3>2
        <4> QED
          BY <2>4, <4>1
      <3> QED
        BY <3>1, <3>2
    <2>7. e \in 0..UM_WINDOW
      BY <1>a, <2>5
    <2> QED
      BY <1>e, <2>4, <2>5, <2>6, <2>7
  <1> QED
    BY <1>8, <1>9

LEMMA ExpiryTo ==
    ASSUME NEW H, NEW R, NEW K, NEW F, RxAt(H, R, K, F), reordering_running,
           NEW S \in Nat, InOrderUpTo(F, S), H <= S
    PROVE  \E R2 : ExpiryGoes(H, R, K, F, R2)
  <1>a. PICK M, W : M = UM_MOD /\ W = UM_WINDOW
    OBVIOUS
  <1>1. M \in Nat \ {0} /\ W \in Nat \ {0} /\ M = W + W
    BY <1>a, Modulus
  <1>2. /\ UmRxInv /\ WindowAt(H, R, K) /\ vr_uh = H % UM_MOD /\ vr_ur = R % UM_MOD
        /\ HeldPdus(rx_window, F, K) /\ DOMAIN rx_window = Numbers(K)
        /\ GoodAt(Members, F, R, F[R][1])
    BY DEF RxAt, HeldPdus
  <1>3. /\ H \in Nat /\ R \in Nat /\ R <= H /\ H <= R + W /\ K \in SUBSET Nat
        /\ (\A d \in K : R < d /\ d < H) /\ (R < H => H - 1 \in K)
    BY <1>2, <1>a DEF WindowAt
  <1>e. PICK e : e = ExpiryMoves
    OBVIOUS
  <1>4. /\ e \in 0..W /\ R + e <= H /\ R + e \notin K /\ (e # 0 => R + e - 1 \in K)
    BY <1>a, <1>e, ExpiryMovesTo
  <1>b. PICK R2, K2 : R2 = R + e /\ K2 = {d \in K : R2 < d}
    OBVIOUS
  <1>5. R2 \in Nat /\ R <= R2 /\ R2 <= H /\ R2 \notin K /\ e \in Nat /\ H <= R2 + W
    BY <1>1, <1>3, <1>4, <1>b
  <1>6. WindowAt(H, R2, K2)
    <2>1. K2 \in SUBSET Nat /\ (\A d \in K2 : R2 < d /\ d < H)
      BY <1>3, <1>b
    <2>2. R2 < H => H - 1 \in K2
      <3> SUFFICES ASSUME R2 < H PROVE H - 1 \in K2
        OBVIOUS
      <3>1. H - 1 \in K
        BY <1>3, <1>5
      <3>2. H - 1 # R2
        BY <1>5, <3>1
      <3>3. R2 < H - 1
        BY <1>3, <1>5, <3>2
      <3> QED
        BY <1>b, <3>1, <3>3
    <2> QED
      BY <1>3, <1>5, <1>a, <2>1, <2>2 DEF WindowAt
  <1>7. UrAtExpiry = R2 % UM_MOD
    <2>1. e \in 0..UM_MOD
      BY <1>1, <1>4, <1>a
    <2>2. ((R % UM_MOD) + e) % UM_MOD = (R + e) % UM_MOD
      BY <1>3, <2>1, NumberAhead
    <2>3. UrAtExpiry = ((R % UM_MOD) + e) % UM_MOD
      BY <1>2, <1>e DEF UrAtExpiry
    <2> QED
      BY <2>2, <2>3, <1>b
  <1>8. \A d \in K : R <= d /\ d < R + UM_MOD
    <2> TAKE d \in K
    <2>1. d \in Nat /\ R < d /\ d < H
      BY <1>3
    <2> QED
      BY <1>1, <1>3, <1>a, <2>1
  <1>9. LeftAfter(DOMAIN rx_window, vr_ur, ExpiryMoves) = Numbers(K2)
    <2>1. LeftAfter(Numbers(K), R % UM_MOD, e) = Numbers({d \in K : R + e <= d})
      BY <1>3, <1>5, <1>8, LeftAfterPlaces
    <2>2. {d \in K : R + e <= d} = K2
      <3>1. \A d \in K : R + e <= d <=> R2 < d
        <4> TAKE d \in K
        <4>1. d \in Nat /\ d # R2
          BY <1>3, <1>5
        <4> QED
          BY <1>5, <1>b, <4>1
      <3> QED
        BY <1>b, <3>1
    <2> QED
      BY <1>2, <1>e, <2>1, <2>2
  <1>r. PICK r : r = MembersAtExpiry
    OBVIOUS
  <1>10. GoodAt(r, F, R, F[R][1])
    <2>1. PICK in : in = (R - 1) % UM_MOD /\ Good(Members, F[R], in, F[R][1])
      BY <1>2 DEF GoodAt
    <2>m. PICK m : m = Members
      OBVIOUS
    <2>2. m \in RxRec /\ Handed(m.out, F[R][1], F[R][1])
      BY <2>1, <2>m DEF Good
    <2>3. r = [m EXCEPT !.lost = TRUE, !.sdu = << >>]
      BY <1>r, <2>m DEF MembersAtExpiry
    <2>4. r \in RxRec /\ r.sdu = << >> /\ r.out = m.out
      BY <2>2, <2>3, EmptySeq DEF RxRec
    <2>5. Good(r, F[R], in, F[R][1])
      BY <2>2, <2>4 DEF Good
    <2> QED
      BY <2>1, <2>5 DEF GoodAt
  <1>11. GoodAt(PassLine(rx_window, r, R % UM_MOD, e), F, R + e, F[R][1])
    <2>1. PICK in : in = (R - 1) % UM_MOD /\ Good(r, F[R], in, F[R][1])
      BY <1>10 DEF GoodAt
    <2>2. e \in 0..(UM_MOD - 1) /\ R + e <= S
      BY <1>1, <1>3, <1>4, <1>a
    <2>3. PdusIn(rx_window)
      BY <1>2, HeldArePdus
    <2>4. HoldsPdus(rx_window, F, R, e)
      <3>1. R <= R /\ R + e <= R + UM_MOD
        BY <1>1, <1>3, <1>4, <1>a
      <3> QED
        BY <1>2, <1>3, <1>5, <1>8, <3>1, HoldsFrom
    <2>5. e # 0 => (R + e - 1) % UM_MOD \in DOMAIN rx_window
      BY <1>2, <1>4 DEF Numbers
    <2>6. F[R][1] \in Nat /\ F[R][1] <= F[R][1]
      <3>1. R \in 0..S
        BY <1>3
      <3> QED
        BY <3>1 DEF InOrderUpTo
    <2>7. \E out : out = (R + e - 1) % UM_MOD
                   /\ Good(PassLine(rx_window, r, R % UM_MOD, e), F[R + e], out, F[R][1])
      BY <1>3, <2>1, <2>2, <2>3, <2>4, <2>5, <2>6, PassLineKeeps
    <2>e. R + e - 1 = (R + e) - 1
      BY <1>3, <1>5
    <2> QED
      BY <2>7, <2>e, Zenon DEF GoodAt
  <1>12. GoodAt(AtExpiry, F, R2, F[R][1])
    <2>1. AtExpiry = PassLine(rx_window, r, R % UM_MOD, e)
      BY <1>2, <1>e, <1>r DEF AtExpiry
    <2> QED
      BY <1>11, <1>b, <2>1
  <1> QED
    BY <1>5, <1>6, <1>7, <1>9, <1>12, <1>b DEF ExpiryGoes

(* The reordering timer expires. *)
LEMMA ExpiredKeeps ==
    ASSUME NEW H, NEW R, NEW K, NEW F, RxAt(H, R, K, F), NEW S \in Nat, InOrderUpTo(F, S), H <= S,
           ReorderingExpired
    PROVE  \E R2, K2, out : /\ RxAt(H, R2, K2, F)' /\ R <= R2
                            /\ Handed(out, F[R][1], F[R2][1])
                            /\ PdcpWritePdus(rx_st, out)
  <1>1. /\ UmRxInv /\ WindowAt(H, R, K) /\ vr_uh = H % UM_MOD /\ vr_ur = R % UM_MOD
        /\ HeldPdus(rx_window, F, K)
    BY DEF RxAt
  <1>r. PICK r, ur, D2, again : /\ r = AtExpiry /\ ur = UrAtExpiry /\ again = AgainAtExpiry
                                /\ D2 = LeftAfter(DOMAIN rx_window, vr_ur, ExpiryMoves)
    OBVIOUS
  <1>2. /\ reordering_running /\ vr_ur' = ur /\ vr_uh' = vr_uh
        /\ rx_window' = Restrict(rx_window, D2)
        /\ Reassembled(r, rx_st)
        /\ reordering_running' = again
        /\ vr_ux' = IF again THEN vr_uh ELSE vr_ux
    BY <1>r DEF ReorderingExpired
  <1>3. UmRxInv'
    BY <1>1, ReorderingExpiredKeepsWindow
  <1>4. PICK R2 : ExpiryGoes(H, R, K, F, R2)
    BY <1>2, ExpiryTo
  <1>k. PICK K2 : K2 = {d \in K : R2 < d}
    OBVIOUS
  <1>5. /\ R2 \in Nat /\ R <= R2 /\ R2 <= H /\ WindowAt(H, R2, K2)
        /\ ur = R2 % UM_MOD /\ D2 = Numbers(K2) /\ GoodAt(r, F, R2, F[R][1])
    BY <1>4, <1>k, <1>r DEF ExpiryGoes
  <1>6. HeldPdus(rx_window, F, K2)'
    <2>1. DOMAIN rx_window' = D2 /\ \A s \in D2 : rx_window'[s] = rx_window[s]
      BY <1>2 DEF Restrict
    <2>2. HeldPdus(rx_window', F, K2)
      BY <1>1, <1>5, <1>k, <2>1, HeldLess
    <2> QED
      BY <2>2 DEF HeldPdus
  <1>7. H \in Nat /\ F[R2][1] \in Nat
    <2>1. H \in Nat
      BY <1>1 DEF WindowAt
    <2>2. R2 \in 0..S
      BY <1>5, <2>1
    <2> QED
      BY <2>1, <2>2 DEF InOrderUpTo
  <1>8. GoodAt(Members', F, R2, F[R2][1]) /\ Handed(r.out, F[R][1], F[R2][1])
    <2>1. Members' = [sdu |-> r.sdu, in |-> r.in, lost |-> r.lost, out |-> << >>]
      BY <1>2 DEF Members, Reassembled
    <2> QED
      BY <1>5, <1>7, <2>1, MembersAgain
  <1>9. reordering_running' => WaitsFor(vr_ux', H, R2, K2)
    <2> SUFFICES ASSUME again PROVE WaitsFor(vr_ux', H, R2, K2)
      BY <1>2
    <2>1. vr_ux' = H % UM_MOD
      BY <1>1, <1>2
    <2>2. H \in R2..H /\ (R2 < H => H - 1 \in K2)
      BY <1>5, <1>7 DEF WindowAt
    <2> QED
      BY <2>1, <2>2 DEF WaitsFor
  <1>10. RxAt(H, R2, K2, F)'
    BY <1>1, <1>2, <1>3, <1>5, <1>6, <1>8, <1>9 DEF RxAt
  <1> QED
    BY <1>2, <1>5, <1>8, <1>10 DEF Reassembled

(* The receiver is reestablished. *)
LEMMA ReestablishStarts ==
    ASSUME NEW H, NEW R, NEW K, NEW F, RxAt(H, R, K, F), NEW S \in Nat, InOrderUpTo(F, S), H <= S,
           UmRxReestablish(PdcpReset), NEW F2, F2[0][1] \in Nat
    PROVE  \E R2, out : /\ RxAt(0, 0, {}, F2)' /\ R2 \in R..H
                        /\ Handed(out, F[R][1], F[R2][1])
                        /\ PdcpWritePdus(PdcpReset, out)
                        /\ ~reordering_running => out = << >>
  <1>1. /\ UmRxInv /\ WindowAt(H, R, K) /\ GoodAt(Members, F, R, F[R][1])
    BY DEF RxAt
  <1>r. PICK r, again, m : r = AtExpiry /\ again = AgainAtExpiry /\ m = Members
    OBVIOUS
  <1>q. PICK q : q = IF reordering_running THEN [r EXCEPT !.sdu = << >>, !.lost = FALSE]
                     ELSE [m EXCEPT !.sdu = << >>, !.lost = FALSE]
    OBVIOUS
  <1>2. /\ vr_ur' = 0 /\ vr_ux' = 0 /\ vr_uh' = 0 /\ rx_window' = << >>
        /\ Reassembled(q, PdcpReset)
    BY <1>r, <1>q DEF UmRxReestablish
  <1>3. UmRxInv'
    BY <1>1, ReestablishKeepsWindow
  <1>4. H \in Nat /\ R \in Nat /\ R <= H
    BY <1>1 DEF WindowAt
  <1>5. F[R][1] \in Nat
    <2>1. R \in 0..S
      BY <1>4
    <2> QED
      BY <2>1 DEF InOrderUpTo
  <1>6. \E R2 : R2 \in R..H /\ q \in RxRec /\ q.sdu = << >> /\ Handed(q.out, F[R][1], F[R2][1])
    <2>1. CASE reordering_running
      <3>1. PICK R2 : ExpiryGoes(H, R, K, F, R2)
        BY <2>1, ExpiryTo
      <3>2. R2 \in R..H /\ GoodAt(r, F, R2, F[R][1])
        BY <1>4, <1>r, <3>1 DEF ExpiryGoes
      <3>3. r \in RxRec /\ Handed(r.out, F[R][1], F[R2][1])
        BY <3>2 DEF GoodAt, Good
      <3>4. q = [r EXCEPT !.sdu = << >>, !.lost = FALSE]
        BY <1>q, <2>1
      <3>5. q \in RxRec /\ q.sdu = << >> /\ q.out = r.out
        BY <3>3, <3>4, EmptySeq DEF RxRec
      <3> QED
        BY <3>2, <3>3, <3>5
    <2>2. CASE ~reordering_running
      <3>1. m \in RxRec /\ Handed(m.out, F[R][1], F[R][1])
        BY <1>1, <1>r DEF GoodAt, Good
      <3>2. q = [m EXCEPT !.sdu = << >>, !.lost = FALSE]
        BY <1>q, <2>2
      <3>3. q \in RxRec /\ q.sdu = << >> /\ q.out = m.out
        BY <3>1, <3>2, EmptySeq DEF RxRec
      <3>4. R \in R..H
        BY <1>4
      <3> QED
        BY <3>1, <3>3, <3>4
    <2> QED
      BY <2>1, <2>2
  <1>7. ~reordering_running => q.out = << >>
    <2> SUFFICES ASSUME ~reordering_running PROVE q.out = << >>
      OBVIOUS
    <2>1. q = [m EXCEPT !.sdu = << >>, !.lost = FALSE]
      BY <1>q
    <2>2. m.out = << >> /\ DOMAIN m = {"sdu", "in", "lost", "out"}
      BY <1>r DEF Members
    <2> QED
      BY <2>1, <2>2
  <1>8. RxAt(0, 0, {}, F2)'
    <2>0. 0 % UM_MOD = 0
      BY Modulus
    <2>1. WindowAt(0, 0, {})
      BY Modulus DEF WindowAt
    <2>2. HeldPdus(rx_window, F2, {})'
      BY <1>2 DEF HeldPdus, Numbers
    <2>3. WaitsFor(vr_ux', 0, 0, {})
      <3>1. 0 \in 0..0 /\ ~(0 < 0) /\ vr_ux' = 0 % UM_MOD
        BY <1>2, <2>0
      <3> QED
        BY <3>1 DEF WaitsFor
    <2>4. GoodAt(Members', F2, 0, F2[0][1])
      <3>m. PICK p : p = Members'
        OBVIOUS
      <3>1. p = [sdu |-> q.sdu, in |-> q.in, lost |-> q.lost, out |-> << >>]
        BY <1>2, <3>m DEF Members, Reassembled
      <3>2. p \in RxRec /\ p.sdu = << >> /\ p.out = << >>
        BY <1>6, <3>1, EmptySeq DEF RxRec
      <3>3. Handed(p.out, F2[0][1], F2[0][1])
        BY <3>2, HandedNone
      <3>4. \A in : Good(p, F2[0], in, F2[0][1])
        BY <3>2, <3>3 DEF Good
      <3> QED
        BY <3>4, <3>m DEF GoodAt
    <2> QED
      BY <1>2, <1>3, <2>0, <2>1, <2>2, <2>3, <2>4 DEF RxAt
  <1> QED
    BY <1>2, <1>6, <1>7, <1>8 DEF Reassembled

------------------------------------------------------------------------------
(* The receiving PDCP entity *)

\* The receiving PDCP entity, what it has delivered, and the SDUs it can get.
PdcpState == [next_pdcp_rx_sn : 0..maximum_pdcp_sn, rx_hfn : Nat]
PdcpOut == [sdu : Seq(SduByte), count : Nat]
PdcpRec == [st : PdcpState, out : Seq(PdcpOut)]
WholeSdus == {SduBytes(id) : id \in 1..Len(written)}
SdusWritten == written \in Seq(Nat) /\ Len(written) <= MaxSdus
PdcpAt(st) == [st |-> st, out |-> pdcp_delivered]

(* COUNT is a number, and the state it leaves one of the entity's. *)
LEMMA HandleUmSnType ==
    ASSUME NEW st \in PdcpState, NEW sn \in 0..maximum_pdcp_sn
    PROVE  HandleUmSn(st, sn).count \in Nat /\ HandleUmSn(st, sn).st \in PdcpState
  <1>1. maximum_pdcp_sn \in Nat /\ st.rx_hfn \in Nat
    BY PdcpAssumption DEF PdcpState
  <1>a. PICK hfn : hfn = IF sn < st.next_pdcp_rx_sn THEN st.rx_hfn + 1 ELSE st.rx_hfn
    OBVIOUS
  <1>2. hfn \in Nat
    BY <1>1, <1>a
  <1>3. COUNT(hfn, sn) \in Nat
    <2>1. hfn * (maximum_pdcp_sn + 1) \in Nat
      BY <1>1, <1>2
    <2> QED
      BY <2>1 DEF COUNT
  <1>4. [next_pdcp_rx_sn |-> 0, rx_hfn |-> hfn + 1] \in PdcpState
    BY <1>1, <1>2 DEF PdcpState
  <1>5. sn + 1 <= maximum_pdcp_sn => [next_pdcp_rx_sn |-> sn + 1, rx_hfn |-> hfn] \in PdcpState
    BY <1>1, <1>2 DEF PdcpState
  <1>b. PICK h : h = HandleUmSn(st, sn)
    OBVIOUS
  <1>6. /\ h.count = COUNT(hfn, sn)
        /\ h.st = IF sn + 1 > maximum_pdcp_sn THEN [next_pdcp_rx_sn |-> 0, rx_hfn |-> hfn + 1]
                  ELSE [next_pdcp_rx_sn |-> sn + 1, rx_hfn |-> hfn]
    BY <1>a, <1>b DEF HandleUmSn
  <1>7. ~(sn + 1 > maximum_pdcp_sn) => sn + 1 <= maximum_pdcp_sn
    BY <1>1
  <1> QED
    BY <1>3, <1>4, <1>5, <1>6, <1>7, <1>b

(* An SDU received is one SDU more. *)
LEMMA HandleUmDrbPduType ==
    ASSUME SdusWritten, NEW acc \in PdcpRec, NEW pdu \in WholeSdus
    PROVE  /\ HandleUmDrbPdu(acc, pdu) \in PdcpRec
           /\ \E count \in Nat : HandleUmDrbPdu(acc, pdu).out = Append(acc.out, [sdu |-> pdu, count |-> count])
  <1>0. written \in Seq(Nat) /\ Len(written) <= MaxSdus
    BY DEF SdusWritten
  <1>1. PICK id \in 1..Len(written) : pdu = SduBytes(id)
    BY DEF WholeSdus
  <1>2. id \in 1..MaxSdus /\ written[id] \in Nat
    <2>1. Len(written) \in Nat /\ MaxSdus \in Nat
      BY <1>0, SduAssumption
    <2> QED
      BY <1>0, <2>1, ElementOfSeq
  <1>3. pdu \in Seq(SduByte) /\ pdu[1][1] = id
    <2>1. 1 \in 1..SduLen
      BY SduAssumption
    <2> QED
      BY <1>1, <1>2, <2>1, SduBytesType
  <1>a. PICK sn : sn = ReadSn(pdu)
    OBVIOUS
  <1>4. sn \in 0..maximum_pdcp_sn
    <2>1. sn = written[id] % (maximum_pdcp_sn + 1)
      BY <1>3, <1>a DEF ReadSn
    <2> QED
      BY <1>2, <2>1, PdcpAssumption
  <1>b. PICK h : h = HandleUmSn(acc.st, sn)
    OBVIOUS
  <1>5. acc.st \in PdcpState /\ acc.out \in Seq(PdcpOut)
    BY DEF PdcpRec
  <1>6. h.count \in Nat /\ h.st \in PdcpState
    BY <1>4, <1>5, <1>b, HandleUmSnType
  <1>c. PICK o : o = [sdu |-> pdu, count |-> h.count]
    OBVIOUS
  <1>7. o \in PdcpOut
    BY <1>3, <1>6, <1>c DEF PdcpOut
  <1>8. Append(acc.out, o) \in Seq(PdcpOut)
    BY <1>5, <1>7, AppendProperties
  <1>9. HandleUmDrbPdu(acc, pdu) = [st |-> h.st, out |-> Append(acc.out, o)]
    BY <1>a, <1>b, <1>c DEF HandleUmDrbPdu
  <1> QED
    BY <1>6, <1>8, <1>9, <1>c DEF PdcpRec

(* The PDCP entity gets the SDUs one at a time. *)
LEMMA ReceivedSteps ==
    ASSUME SdusWritten, NEW st, NEW base \in PdcpRec, base = PdcpAt(st), NEW pdus \in Seq(WholeSdus),
           NEW n, n = Len(pdus)
    PROVE  \E f \in [0..n -> PdcpRec] :
              /\ f[0] = base /\ f[n] = Received(st, pdus)
              /\ \A i \in 1..n : f[i] = HandleUmDrbPdu(f[i - 1], pdus[i])
  <1> DEFINE Take(acc, b) == HandleUmDrbPdu(acc, b)
             step == [x \in PdcpRec \X WholeSdus |-> Take(x[1], x[2])]
             Eq(g) == g = [s \in SUBSET (DOMAIN pdus) |->
                             IF s = {} THEN base
                             ELSE Take(g[s \ {Max(s)}], pdus[Max(s)])]
             it == CHOOSE g : Eq(g)
  <1>0. n \in Nat /\ pdus \in [1..n -> WholeSdus] /\ DOMAIN pdus = 1..n
    BY LenProperties, ElementOfSeq
  <1>1. Received(st, pdus) = it[1..n]
    BY <1>0 DEF Received, FoldLeft, MapThenFoldSet, PdcpAt
  <1>2. \A acc \in PdcpRec, b \in WholeSdus : Take(acc, b) \in PdcpRec
    BY HandleUmDrbPduType
  <1> HIDE DEF Take
  <1>3. step \in [PdcpRec \X WholeSdus -> PdcpRec] /\ base \in PdcpRec
    BY <1>2
  <1>4. ASSUME NEW g \in [SUBSET (1..n) -> PdcpRec], Folds(g, step, base, n, pdus)
        PROVE  FoldsIn(it, PdcpRec, step, base, n, pdus)
    <2>1. ASSUME NEW s \in SUBSET (1..n), s # {}, NEW acc \in PdcpRec
          PROVE  step[<<acc, pdus[Max(s)]>>] = Take(acc, pdus[Max(s)])
      BY <1>0, <2>1, LastOfSet
    <2>2. \A s \in SUBSET (1..n) : s # {} => g[s \ {Max(s)}] \in PdcpRec
      BY <1>0, <1>4, LastOfSet
    <2>3. Eq(g)
      <3>1. g = [s \in SUBSET (1..n) |-> g[s]]
        OBVIOUS
      <3>2. \A s \in SUBSET (1..n) :
               g[s] = IF s = {} THEN base ELSE step[<<g[s \ {Max(s)}], pdus[Max(s)]>>]
        BY <1>4 DEF Folds
      <3> HIDE DEF step
      <3>3. \A s \in SUBSET (1..n) :
               g[s] = IF s = {} THEN base ELSE Take(g[s \ {Max(s)}], pdus[Max(s)])
        BY <2>1, <2>2, <3>2
      <3> QED
        BY <1>0, <3>1, <3>3
    <2>4. Eq(it)
      <3> HIDE DEF Eq
      <3> QED
        BY <2>3
    <2> HIDE DEF it, step
    <2> QED
      BY <1>0, <2>1, <2>4 DEF FoldsIn
  <1> HIDE DEF it, step
  <1>5. PICK f \in [0..n -> PdcpRec] : Steps(f, it, step, base, n, pdus)
    BY <1>0, <1>3, <1>4, FoldRuns
  <1> USE DEF step
  <1>6. \A i \in 1..n : f[i] = Take(f[i - 1], pdus[i])
    <2> TAKE i \in 1..n
    <2>1. i - 1 \in 0..n /\ pdus[i] \in WholeSdus
      BY <1>0
    <2>2. f[i - 1] \in PdcpRec
      BY <2>1
    <2> QED
      BY <2>1, <2>2, <1>5 DEF Steps
  <1> HIDE DEF step
  <1> QED
    BY <1>1, <1>5, <1>6 DEF Steps, Take

------------------------------------------------------------------------------
(* What it delivers *)

\* The SDUs pdus have been delivered after old.
Grown(new, old, pdus) ==
    /\ Len(new) = Len(old) + Len(pdus)
    /\ \A i \in 1..Len(old) : new[i] = old[i]
    /\ \A j \in 1..Len(pdus) : new[Len(old) + j].sdu = pdus[j]

(* The SDUs received are delivered after those delivered before. *)
LEMMA ReceivedGrows ==
    ASSUME SdusWritten, NEW st \in PdcpState,
           NEW old, old = pdcp_delivered, old \in Seq(PdcpOut), NEW l, l = Len(old),
           NEW pdus \in Seq(WholeSdus), NEW n, n = Len(pdus), NEW acc, acc = Received(st, pdus)
    PROVE  acc \in PdcpRec /\ Grown(acc.out, old, pdus)
  <1>a. PICK base : base = [st |-> st, out |-> old]
    OBVIOUS
  <1>1. base \in PdcpRec /\ base.out = old /\ n \in Nat /\ l \in Nat
    BY <1>a, LenProperties DEF PdcpRec
  <1>2. PICK f \in [0..n -> PdcpRec] :
            /\ f[0] = base /\ f[n] = acc
            /\ \A i \in 1..n : f[i] = HandleUmDrbPdu(f[i - 1], pdus[i])
    <2>1. base = PdcpAt(st) /\ n \in Nat
      BY <1>1, <1>a DEF PdcpAt
    <2>2. \E f \in [0..n -> PdcpRec] :
            /\ f[0] = base /\ f[n] = Received(st, pdus)
            /\ \A i \in 1..n : f[i] = HandleUmDrbPdu(f[i - 1], pdus[i])
      BY <1>1, <2>1, ReceivedSteps, SMTT(60)
    <2> QED
      BY <2>2
  <1> DEFINE Ok(k) == /\ Len(f[k].out) = l + k
                      /\ \A i \in 1..l : f[k].out[i] = old[i]
                      /\ \A j \in 1..k : f[k].out[l + j].sdu = pdus[j]
             T == {k \in 1..n : Ok(k)}
  <1>3. ASSUME NEW k \in 1..n, NEW g, g = f[k - 1], g \in PdcpRec, Len(g.out) = l + (k - 1),
               \A i \in 1..l : g.out[i] = old[i],
               \A j \in 1..(k - 1) : g.out[l + j].sdu = pdus[j]
        PROVE  k \in T
    <2>1. pdus[k] \in WholeSdus
      BY ElementOfSeq
    <2>2. PICK count \in Nat : HandleUmDrbPdu(g, pdus[k]).out
                                  = Append(g.out, [sdu |-> pdus[k], count |-> count])
      BY <1>3, <2>1, HandleUmDrbPduType
    <2>b. PICK q, o, s : q = g.out /\ o = [sdu |-> pdus[k], count |-> count] /\ s = f[k].out
      OBVIOUS
    <2>3. s = Append(q, o) /\ q \in Seq(PdcpOut) /\ Len(q) = l + (k - 1)
      BY <1>2, <1>3, <2>2, <2>b DEF PdcpRec
    <2>4. Len(s) = l + k /\ s[l + k] = o /\ \A i \in 1..(l + (k - 1)) : s[i] = q[i]
      <3>1. Len(q) + 1 = l + k
        BY <1>1, <2>3
      <3> QED
        BY <2>3, <3>1
    <2>5. \A i \in 1..l : s[i] = old[i]
      <3> TAKE i \in 1..l
      <3>1. i \in 1..(l + (k - 1))
        BY <1>1
      <3> QED
        BY <1>3, <2>4, <2>b, <3>1
    <2>6. \A j \in 1..k : s[l + j].sdu = pdus[j]
      <3> TAKE j \in 1..k
      <3>1. CASE j = k
        BY <2>4, <2>b, <3>1
      <3>2. CASE j # k
        <4>1. j \in 1..(k - 1) /\ l + j \in 1..(l + (k - 1))
          BY <1>1, <3>2
        <4>2. s[l + j] = q[l + j]
          BY <2>4, <4>1
        <4> QED
          BY <1>3, <2>b, <4>1, <4>2
      <3> QED
        BY <3>1, <3>2
    <2> QED
      BY <2>4, <2>5, <2>6, <2>b
  <1>4. n > 0 => 1 \in T
    <2> SUFFICES ASSUME n > 0 PROVE 1 \in T
      OBVIOUS
    <2>1. 1 \in 1..n /\ 1 - 1 = 0 /\ l + (1 - 1) = l /\ 1..(1 - 1) = {}
      BY <1>1
    <2>2. f[1 - 1] = base /\ base.out = old /\ base \in PdcpRec
      BY <1>1, <1>2, <2>1
    <2> HIDE DEF T
    <2> QED
      BY <1>3, <2>1, <2>2
  <1>5. ASSUME NEW k \in 1..(n - 1), k \in T PROVE k + 1 \in T
    <2>1. k + 1 \in 1..n /\ (k + 1) - 1 = k /\ k \in 0..n
      BY <1>1
    <2>2. Ok(k) /\ f[k] \in PdcpRec
      BY <1>2, <1>5, <2>1
    <2>3. /\ f[k] = f[(k + 1) - 1] /\ Len(f[k].out) = l + ((k + 1) - 1)
          /\ \A i \in 1..l : f[k].out[i] = old[i]
          /\ \A j \in 1..((k + 1) - 1) : f[k].out[l + j].sdu = pdus[j]
      BY <2>1, <2>2
    <2> HIDE DEF T, Ok
    <2> QED
      BY <1>3, <2>1, <2>2, <2>3, Zenon
  <1>6. n > 0 => Ok(n)
    <2>1. \A k \in 1..n : k \in T
      <3> HIDE DEF T
      <3> QED
        BY <1>1, <1>4, <1>5, UpTo
    <2>2. n > 0 => n \in 1..n
      BY <1>1
    <2> QED
      BY <2>1, <2>2
  <1>7. n = 0 => Ok(n)
    <2> SUFFICES ASSUME n = 0 PROVE Ok(0)
      OBVIOUS
    <2>1. 1..0 = {} /\ l + 0 = l
      BY <1>1
    <2> QED
      BY <1>1, <1>2, <2>1
  <1>8. Ok(n) /\ acc \in PdcpRec
    <2> HIDE DEF Ok
    <2>1. n > 0 \/ n = 0
      BY <1>1
    <2>2. n \in 0..n
      BY <1>1
    <2> QED
      BY <1>2, <1>6, <1>7, <2>1, <2>2
  <1> QED
    BY <1>2, <1>8 DEF Grown

\* What has been delivered: whole SDUs in their order, of places below hi.
OutIs(out, hi) ==
    /\ out \in Seq(PdcpOut)
    /\ \A i \in 1..Len(out) : out[i].sdu = SduBytes(Id(out[i])) /\ Id(out[i]) \in 1..(hi - 1)
    /\ \A i \in 1..Len(out), j \in 1..Len(out) : i < j => Id(out[i]) < Id(out[j])

LEMMA OutUpTo ==
    ASSUME NEW lo \in Nat, NEW hi \in Nat, lo <= hi, NEW out, OutIs(out, lo)
    PROVE  OutIs(out, hi)
  <1>1. \A k \in 1..(lo - 1) : k \in 1..(hi - 1)
    OBVIOUS
  <1> QED
    BY <1>1 DEF OutIs

(* What reassembly puts out, delivered after what was delivered before. *)
LEMMA HandedArrives ==
    ASSUME SdusWritten, NEW st \in PdcpState,
           NEW lo \in Nat \ {0}, NEW hi \in Nat, lo <= hi, hi <= Len(written) + 1,
           NEW out, Handed(out, lo, hi), OutIs(pdcp_delivered, lo),
           PdcpWritePdus(st, out)
    PROVE  /\ rx_st' \in PdcpState /\ OutIs(pdcp_delivered', hi)
           /\ Grown(pdcp_delivered', pdcp_delivered, out)
  <1>a. PICK old, l, n, acc, new : /\ old = pdcp_delivered /\ l = Len(old) /\ n = Len(out)
                                   /\ acc = Received(st, out) /\ new = pdcp_delivered'
    OBVIOUS
  <1>1. /\ old \in Seq(PdcpOut)
        /\ \A i \in 1..l : old[i].sdu = SduBytes(Id(old[i])) /\ Id(old[i]) \in 1..(lo - 1)
        /\ \A i \in 1..l, j \in 1..l : i < j => Id(old[i]) < Id(old[j])
    BY <1>a DEF OutIs
  <1>2. /\ out \in Seq(Seq(SduByte))
        /\ \A i \in 1..n : out[i] = SduBytes(out[i][1][1]) /\ out[i][1][1] \in lo..(hi - 1)
        /\ \A i \in 1..n, j \in 1..n : i < j => out[i][1][1] < out[j][1][1]
    BY <1>a DEF Handed
  <1>3. n \in Nat /\ l \in Nat
    BY <1>1, <1>2, <1>a, LenProperties
  <1>4. out \in Seq(WholeSdus)
    <2>1. \A i \in 1..n : out[i] \in WholeSdus
      <3> TAKE i \in 1..n
      <3>1. out[i][1][1] \in 1..Len(written)
        <4>a. PICK x, m : x = out[i][1][1] /\ m = Len(written)
          OBVIOUS
        <4>1. m \in Nat /\ x \in lo..(hi - 1) /\ hi <= m + 1
          BY <1>2, <4>a, LenProperties DEF SdusWritten
        <4>2. x \in 1..m
          BY <4>1
        <4> QED
          BY <4>2, <4>a
      <3> QED
        BY <1>2, <3>1 DEF WholeSdus
    <2>2. DOMAIN out = 1..n /\ out = [i \in DOMAIN out |-> out[i]]
      BY <1>2, <1>a, LenProperties
    <2> QED
      BY <1>3, <2>1, <2>2, IsSeqOf
  <1>5. /\ acc \in PdcpRec /\ Len(acc.out) = l + n
        /\ \A i \in 1..l : acc.out[i] = old[i]
        /\ \A j \in 1..n : acc.out[l + j].sdu = out[j]
    <2>1. old = pdcp_delivered /\ l = Len(old) /\ n = Len(out) /\ acc = Received(st, out)
      BY <1>a
    <2>2. acc \in PdcpRec /\ Grown(acc.out, old, out)
      BY <1>1, <1>4, <2>1, ReceivedGrows
    <2> QED
      BY <2>1, <2>2 DEF Grown
  <1>6. rx_st' = acc.st /\ new = acc.out
    BY <1>a DEF PdcpWritePdus
  <1>7. /\ rx_st' \in PdcpState /\ new \in Seq(PdcpOut) /\ Len(new) = l + n
        /\ \A i \in 1..l : new[i] = old[i]
        /\ \A j \in 1..n : new[l + j].sdu = out[j]
    BY <1>5, <1>6 DEF PdcpRec
  <1>8. \A i \in 1..(l + n) : i \in 1..l \/ \E j \in 1..n : i = l + j
    <2> TAKE i \in 1..(l + n)
    <2>1. CASE i <= l
      BY <1>3, <2>1
    <2>2. CASE i > l
      <3>1. i - l \in 1..n /\ i = l + (i - l)
        BY <1>3, <2>2
      <3> QED
        BY <3>1
    <2> QED
      BY <1>3, <2>1, <2>2
  <1>9. \A i \in 1..l : Id(new[i]) = Id(old[i]) /\ new[i].sdu = old[i].sdu
    BY <1>7
  <1>10. \A j \in 1..n : Id(new[l + j]) = out[j][1][1] /\ new[l + j].sdu = SduBytes(Id(new[l + j]))
                         /\ Id(new[l + j]) \in lo..(hi - 1)
    <2> TAKE j \in 1..n
    <2>1. new[l + j].sdu = out[j]
      BY <1>7
    <2>2. Id(new[l + j]) = out[j][1][1]
      BY <2>1 DEF Id
    <2> QED
      BY <1>2, <2>1, <2>2
  <1>11. \A i \in 1..(l + n) : new[i].sdu = SduBytes(Id(new[i])) /\ Id(new[i]) \in 1..(hi - 1)
    <2> TAKE i \in 1..(l + n)
    <2>1. CASE i \in 1..l
      <3>1. new[i].sdu = SduBytes(Id(new[i])) /\ Id(new[i]) \in 1..(lo - 1)
        BY <1>1, <1>9, <2>1
      <3>2. Id(new[i]) \in 1..(hi - 1)
        BY <3>1
      <3> QED
        BY <3>1, <3>2
    <2>2. ASSUME NEW j \in 1..n, i = l + j
          PROVE  new[i].sdu = SduBytes(Id(new[i])) /\ Id(new[i]) \in 1..(hi - 1)
      <3>1. new[i].sdu = SduBytes(Id(new[i])) /\ Id(new[i]) \in lo..(hi - 1)
        BY <1>10, <2>2
      <3>2. Id(new[i]) \in 1..(hi - 1)
        BY <3>1
      <3> QED
        BY <3>1, <3>2
    <2> QED
      BY <1>8, <2>1, <2>2
  <1>12. \A i \in 1..(l + n), j \in 1..(l + n) : i < j => Id(new[i]) < Id(new[j])
    <2> SUFFICES ASSUME NEW i \in 1..(l + n), NEW j \in 1..(l + n), i < j
                 PROVE  Id(new[i]) < Id(new[j])
      OBVIOUS
    <2>1. CASE j \in 1..l
      <3>1. i \in 1..l
        BY <1>3, <2>1
      <3> QED
        BY <1>1, <1>9, <2>1, <3>1
    <2>2. ASSUME NEW b \in 1..n, j = l + b, i \in 1..l
          PROVE  Id(new[i]) < Id(new[j])
      <3>p. PICK x, y : x = Id(new[i]) /\ y = Id(new[j])
        OBVIOUS
      <3>1. x \in 1..(lo - 1) /\ y \in lo..(hi - 1)
        BY <1>1, <1>9, <1>10, <2>2, <3>p
      <3>2. x < y
        BY <3>1
      <3> QED
        BY <3>2, <3>p
    <2>3. ASSUME NEW b \in 1..n, j = l + b, NEW a \in 1..n, i = l + a
          PROVE  Id(new[i]) < Id(new[j])
      <3>1. a < b
        BY <1>3, <2>3
      <3> QED
        BY <1>2, <1>10, <2>3, <3>1
    <2> QED
      BY <1>8, <2>1, <2>2, <2>3
  <1>13. OutIs(new, hi)
    BY <1>7, <1>11, <1>12 DEF OutIs
  <1> QED
    BY <1>7, <1>13, <1>a DEF Grown

------------------------------------------------------------------------------
(* What the service sees *)

\* The places in written of what has been delivered.
PlacesOf(out) == [i \in 1..Len(out) |-> Place(out[i])]

LEMMA PlacesOfOut ==
    ASSUME NEW hi \in Nat, NEW out, OutIs(out, hi), NEW l, l = Len(out)
    PROVE  /\ l \in Nat /\ DOMAIN PlacesOf(out) = 1..l /\ PlacesOf(out) \in Seq(Nat) /\ Len(PlacesOf(out)) = l
           /\ \A i \in 1..l : PlacesOf(out)[i] = Id(out[i]) /\ Id(out[i]) \in 1..(hi - 1)
  <1>1. l \in Nat
    BY LenProperties DEF OutIs
  <1>2. \A i \in 1..l : Place(out[i]) = Id(out[i]) /\ Id(out[i]) \in 1..(hi - 1)
    BY DEF OutIs, Place
  <1>a. PICK p : p = PlacesOf(out)
    OBVIOUS
  <1>3. p = [i \in 1..l |-> Place(out[i])]
    BY <1>a DEF PlacesOf
  <1>4. DOMAIN p = 1..l /\ (\A i \in 1..l : p[i] = Place(out[i])) /\ p = [i \in DOMAIN p |-> p[i]]
    BY <1>3
  <1>5. \A i \in 1..l : p[i] = Id(out[i]) /\ Id(out[i]) \in 1..(hi - 1) /\ p[i] \in Nat
    <2> TAKE i \in 1..l
    <2>1. p[i] = Id(out[i]) /\ Id(out[i]) \in 1..(hi - 1)
      BY <1>2, <1>4
    <2> QED
      BY <2>1
  <1>6. p \in Seq(Nat) /\ Len(p) = l
    BY <1>1, <1>4, <1>5, IsSeqOf
  <1> QED
    BY <1>1, <1>4, <1>5, <1>6, <1>a

(* SDUs delivered one after the other are a step of the service. *)
LEMMA DeliversToService ==
    ASSUME SdusWritten, written' = written, NEW lo \in Nat \ {0}, NEW hi \in Nat, hi <= Len(written) + 1,
           NEW out, Handed(out, lo, hi), OutIs(pdcp_delivered, lo), OutIs(pdcp_delivered', hi),
           Grown(pdcp_delivered', pdcp_delivered, out)
    PROVE  Service!Deliver \/ UNCHANGED <<written, PlacesOf(pdcp_delivered)>>
  <1>a. PICK old, new, l, n, m, p, q : /\ old = pdcp_delivered /\ new = pdcp_delivered'
                                       /\ l = Len(old) /\ n = Len(out) /\ m = Len(written)
                                       /\ p = PlacesOf(old) /\ q = PlacesOf(new)
    OBVIOUS
  <1>1. m \in Nat /\ n \in Nat /\ hi <= m + 1
    BY <1>a, LenProperties DEF SdusWritten, Handed
  <1>2. /\ l \in Nat /\ DOMAIN p = 1..l /\ p \in Seq(Nat) /\ Len(p) = l
        /\ \A i \in 1..l : p[i] = Id(old[i]) /\ Id(old[i]) \in 1..(lo - 1)
    BY <1>a, PlacesOfOut
  <1>3. /\ Len(new) = l + n /\ (\A i \in 1..l : new[i] = old[i])
        /\ \A j \in 1..n : new[l + j].sdu = out[j]
    BY <1>a DEF Grown
  <1>4. /\ DOMAIN q = 1..(l + n) /\ q \in Seq(Nat) /\ Len(q) = l + n
        /\ \A i \in 1..(l + n) : q[i] = Id(new[i])
    BY <1>3, <1>a, PlacesOfOut
  <1>b. PICK more : more = [j \in 1..n |-> out[j][1][1]]
    OBVIOUS
  <1>5. \A j \in 1..n : more[j] = out[j][1][1] /\ more[j] \in lo..(hi - 1)
    BY <1>a, <1>b DEF Handed
  <1>6. \A i \in 1..n, j \in 1..n : i < j => more[i] < more[j]
    BY <1>5, <1>a DEF Handed
  <1>7. \A j \in 1..n : q[l + j] = more[j]
    <2> TAKE j \in 1..n
    <2>1. l + j \in 1..(l + n)
      BY <1>1, <1>2
    <2>2. Id(new[l + j]) = out[j][1][1]
      BY <1>3 DEF Id
    <2> QED
      BY <1>4, <1>5, <2>1, <2>2
  <1>8. \A i \in 1..l : q[i] = p[i]
    <2> TAKE i \in 1..l
    <2>1. i \in 1..(l + n)
      BY <1>1, <1>2
    <2> QED
      BY <1>2, <1>3, <1>4, <2>1
  <1>9. more \in Seq(Nat) /\ Len(more) = n /\ DOMAIN more = 1..n
    <2>1. \A j \in 1..n : more[j] \in Nat
      <3> TAKE j \in 1..n
      <3>1. more[j] \in lo..(hi - 1)
        BY <1>5
      <3> QED
        BY <3>1
    <2>2. DOMAIN more = 1..n /\ more = [j \in DOMAIN more |-> more[j]]
      BY <1>b
    <2> QED
      BY <1>1, <2>1, <2>2, IsSeqOf
  <1>10. q = p \o more
    <2>c. PICK c : c = p \o more
      OBVIOUS
    <2>1. /\ c \in Seq(Nat) /\ Len(c) = l + n
          /\ \A i \in 1..(l + n) : c[i] = IF i <= l THEN p[i] ELSE more[i - l]
      <3>1. /\ p \in Seq(Nat) /\ more \in Seq(Nat) /\ Len(p) = l /\ Len(more) = n
        BY <1>2, <1>9
      <3>2. /\ p \o more \in Seq(Nat) /\ Len(p \o more) = Len(p) + Len(more)
            /\ \A i \in 1..Len(p) + Len(more) :
                  (p \o more)[i] = IF i <= Len(p) THEN p[i] ELSE more[i - Len(p)]
        BY <3>1, ConcatProperties
      <3> QED
        BY <2>c, <3>1, <3>2
    <2>2. \A i \in 1..(l + n) : c[i] = q[i]
      <3> TAKE i \in 1..(l + n)
      <3>1. CASE i <= l
        <4>1. i \in 1..l
          BY <1>2, <3>1
        <4> QED
          BY <1>8, <2>1, <3>1, <4>1
      <3>2. CASE ~(i <= l)
        <4>1. i - l \in 1..n /\ l + (i - l) = i
          BY <1>1, <1>2, <3>2
        <4>2. q[i] = more[i - l]
          BY <1>7, <4>1
        <4> QED
          BY <2>1, <3>2, <4>2
      <3> QED
        BY <3>1, <3>2
    <2>3. c = q
      BY <1>4, <2>1, <2>2, SeqEqual
    <2> QED
      BY <2>3, <2>c
  <1>11. CASE n = 0
    <2>1. l + n = l
      BY <1>2, <1>11
    <2>2. q = p
      <3>1. \A i \in 1..l : q[i] = p[i]
        BY <1>8
      <3> QED
        BY <1>2, <1>4, <2>1, <3>1, SeqEqual
    <2> QED
      BY <1>a, <2>2 DEF PlacesOf
  <1>12. CASE n # 0
    <2>1. more \in [1..n -> Nat \ {0}]
      <3>1. \A j \in 1..n : more[j] \in Nat \ {0}
        <4> TAKE j \in 1..n
        <4>1. more[j] \in lo..(hi - 1)
          BY <1>5
        <4> QED
          BY <4>1
      <3> QED
        BY <1>b, <3>1
    <2>2. n <= more[n] /\ more[n] \in lo..(hi - 1)
      <3>1. n \in 1..n
        BY <1>1, <1>12
      <3> QED
        BY <1>1, <1>5, <1>6, <2>1, <3>1, AscendingFit
    <2>3. n \in 1..m
      <3>1. more[n] <= m
        BY <1>1, <2>2
      <3> QED
        BY <1>1, <1>12, <2>2, <3>1
    <2>4. more \in [1..n -> {k \in 1..m : \A i \in 1..l : p[i] < k}]
      <3>1. ASSUME NEW j \in 1..n
            PROVE  more[j] \in 1..m /\ \A i \in 1..l : p[i] < more[j]
        <4>1. more[j] \in lo..(hi - 1)
          BY <1>5
        <4>2. more[j] \in 1..m
          BY <1>1, <4>1
        <4>3. \A i \in 1..l : p[i] < more[j]
          <5> TAKE i \in 1..l
          <5>1. p[i] \in 1..(lo - 1)
            BY <1>2
          <5> QED
            BY <4>1, <5>1
        <4> QED
          BY <4>2, <4>3
      <3> QED
        BY <1>b, <3>1
    <2>5. Service!Later = {k \in 1..m : \A i \in 1..l : p[i] < k}
      <3>1. p = [i \in 1..Len(pdcp_delivered) |-> Place(pdcp_delivered[i])]
        BY <1>a DEF PlacesOf
      <3> QED
        BY <1>2, <1>a, <3>1 DEF Service!Later
    <2>6. Service!InOrder(more)
      BY <1>6, <1>9 DEF Service!InOrder
    <2>7. Service!Deliver
      <3>1. p = [i \in 1..Len(pdcp_delivered) |-> Place(pdcp_delivered[i])]
            /\ q = [i \in 1..Len(pdcp_delivered') |-> Place(pdcp_delivered'[i])]
        BY <1>a DEF PlacesOf
      <3>2. n \in 1..Len(written) /\ more \in [1..n -> Service!Later]
        BY <1>a, <2>3, <2>4, <2>5
      <3>3. [i \in 1..Len(pdcp_delivered) |-> Place(pdcp_delivered[i])]'
               = [i \in 1..Len(pdcp_delivered) |-> Place(pdcp_delivered[i])] \o more
        BY <1>10, <3>1 DEF Place, Id
      <3> QED
        BY <2>6, <3>2, <3>3 DEF Service!Deliver
    <2> QED
      BY <2>7
  <1> QED
    BY <1>11, <1>12

------------------------------------------------------------------------------
(* The bearer: sender, MAC and receiver *)

\* The sender, in the SDUs written after the first B: it goes on with place S, whose
\* first byte is F[S], and SDU t is the one being sent.
SendAt(F, S, B, t) ==
    /\ S \in Nat /\ InOrderUpTo(F, S)
    /\ \A c \in 0..S : B < F[c][1] /\ F[c][1] <= Len(written) + 1
    /\ F[S] = NextByte(tx_sdu, t)
    /\ IsStream(tx_sdu, tx_sdu_queue, t) /\ t + Len(tx_sdu_queue) = Len(written)
    /\ vt_us = S % UM_MOD

\* COUNT starts with the first of them.
CountAt(B) ==
    /\ SdusWritten /\ B \in 0..Len(written)
    /\ next_pdcp_tx_sn \in 0..maximum_pdcp_sn /\ tx_hfn \in Nat
    /\ COUNT(tx_hfn, next_pdcp_tx_sn) = Len(written) - B
    /\ \A i \in (B + 1)..Len(written) : written[i] = (i - B) - 1

\* A PDU of place c.
IsAt(pdu, F, c) == pdu \in RxPdu /\ pdu.sn = c % UM_MOD /\ Spans(pdu, F[c], F[c + 1])

\* The place of the i-th PDU in flight, of which N is the first.
PlaceInFlight(N, i) == IF overtaken /\ i > 1 THEN N + i ELSE N + i - 1

FlightAt(F, S, H, N) ==
    /\ H \in Nat /\ N \in Nat /\ H <= S
    /\ overtaken \in BOOLEAN /\ lost \in 0..MaxLost
    /\ pdu_list \in Seq(RxPdu)
    /\ overtaken => Len(pdu_list) >= 1 /\ H = N + 2 /\ S = N + 1 + Len(pdu_list)
    /\ ~overtaken => S = N + Len(pdu_list) /\ H <= N + 1 /\ N <= H + lost
    /\ \A i \in 1..Len(pdu_list) : IsAt(pdu_list[i], F, PlaceInFlight(N, i))

OutAt(F, R) == rx_st \in PdcpState /\ OutIs(pdcp_delivered, F[R][1])

UmAt(H, R, K, F, S, B, N, t) ==
    /\ RxAt(H, R, K, F) /\ SendAt(F, S, B, t) /\ CountAt(B) /\ FlightAt(F, S, H, N)
    /\ OutAt(F, R)
    /\ reestablished \in 0..MaxReestablish

------------------------------------------------------------------------------
(* The receiver knows nothing of the places not yet sent. *)

LEMMA RxAtAgain ==
    ASSUME NEW H, NEW R, NEW K, NEW F, RxAt(H, R, K, F), NEW S \in Nat, H <= S,
           NEW F2, \A c \in 0..S : F2[c] = F[c]
    PROVE  RxAt(H, R, K, F2)
  <1>1. /\ H \in Nat /\ R \in Nat /\ R <= H /\ K \in SUBSET Nat /\ \A d \in K : R < d /\ d < H
    BY DEF RxAt, WindowAt
  <1>2. F2[R] = F[R]
    BY <1>1
  <1>3. \A d \in K : F2[d] = F[d] /\ F2[d + 1] = F[d + 1]
    <2> TAKE d \in K
    <2>1. d \in 0..S /\ d + 1 \in 0..S
      BY <1>1
    <2> QED
      BY <2>1
  <1>4. HeldPdus(rx_window, F, K) /\ GoodAt(Members, F, R, F[R][1])
    BY DEF RxAt
  <1>5. HeldPdus(rx_window, F2, K)
    <2>1. \A d \in K : rx_window[d % UM_MOD] \in RxPdu /\ Spans(rx_window[d % UM_MOD], F2[d], F2[d + 1])
      <3> TAKE d \in K
      <3>1. rx_window[d % UM_MOD] \in RxPdu /\ Spans(rx_window[d % UM_MOD], F[d], F[d + 1])
        BY <1>4 DEF HeldPdus
      <3> QED
        BY <1>3, <3>1
    <2> QED
      BY <1>4, <2>1 DEF HeldPdus
  <1>6. GoodAt(Members, F2, R, F2[R][1])
    BY <1>2, <1>4 DEF GoodAt
  <1> QED
    BY <1>5, <1>6 DEF RxAt

LEMMA RxAtUntouched ==
    ASSUME NEW H, NEW R, NEW K, NEW F, RxAt(H, R, K, F), UNCHANGED um_rx_vars
    PROVE  RxAt(H, R, K, F)'
  <1>1. /\ vr_ur' = vr_ur /\ vr_ux' = vr_ux /\ vr_uh' = vr_uh /\ rx_window' = rx_window
        /\ reordering_running' = reordering_running /\ Members' = Members
    BY DEF um_rx_vars, Members
  <1>2. UmRxInv'
    BY WindowUntouched DEF RxAt
  <1>3. GoodAt(Members', F, R, F[R][1]) /\ HeldPdus(rx_window', F, K)
    BY <1>1 DEF RxAt
  <1> QED
    BY <1>1, <1>2, <1>3 DEF RxAt, GoodAt, HeldPdus

LEMMA OutAtUntouched ==
    ASSUME NEW F, NEW R, OutAt(F, R), UNCHANGED <<rx_st, pdcp_delivered>>
    PROVE  OutAt(F, R)'
  BY DEF OutAt, OutIs

LEMMA SendAtUntouched ==
    ASSUME NEW F, NEW S, NEW B, NEW t, SendAt(F, S, B, t), UNCHANGED <<tx_sdu_queue, tx_sdu, vt_us, written>>
    PROVE  SendAt(F, S, B, t)'
  BY DEF SendAt, IsStream, NextByte

LEMMA CountAtUntouched ==
    ASSUME NEW B, CountAt(B), UNCHANGED <<written, next_pdcp_tx_sn, tx_hfn>>
    PROVE  CountAt(B)'
  BY DEF CountAt, SdusWritten, COUNT

(* What is in flight is known by its places. *)
LEMMA FlightAtUntouched ==
    ASSUME NEW F, NEW S, NEW H, NEW N, FlightAt(F, S, H, N), UNCHANGED <<pdu_list, overtaken, lost>>
    PROVE  FlightAt(F, S, H, N)'
  BY DEF FlightAt, PlaceInFlight

------------------------------------------------------------------------------
(* The first SDU gets COUNT 0, and each the next. *)

LEMMA CountGrows ==
    ASSUME NEW B, CountAt(B), Len(written) < MaxSdus, PdcpWriteSdu
    PROVE  /\ CountAt(B)' /\ Len(written') = Len(written) + 1
           /\ \E count \in 0..MaxSdus : written' = Append(written, count)
  <1>a. PICK m, count, w : m = Len(written) /\ count = COUNT(tx_hfn, next_pdcp_tx_sn) /\ w = written
    OBVIOUS
  <1>1. /\ w \in Seq(Nat) /\ m = Len(w) /\ m \in Nat /\ B \in 0..m /\ count = m - B /\ m < MaxSdus
        /\ \A i \in (B + 1)..m : w[i] = (i - B) - 1
    BY <1>a, LenProperties DEF CountAt, SdusWritten
  <1>2. written' = Append(w, count)
    BY <1>a DEF PdcpWriteSdu
  <1>3. count \in 0..MaxSdus
    BY <1>1, SduAssumption
  <1>w. PICK w2 : w2 = written'
    OBVIOUS
  <1>4. w2 \in Seq(Nat) /\ Len(w2) = m + 1 /\ (\A i \in 1..m : w2[i] = w[i]) /\ w2[m + 1] = count
    BY <1>1, <1>2, <1>3, <1>w
  <1>5. \A i \in (B + 1)..(m + 1) : w2[i] = (i - B) - 1
    <2> TAKE i \in (B + 1)..(m + 1)
    <2>1. CASE i = m + 1
      BY <1>1, <1>4, <2>1
    <2>2. CASE i # m + 1
      <3>1. i \in (B + 1)..m /\ i \in 1..m
        BY <1>1, <2>2
      <3> QED
        BY <1>1, <1>4, <3>1
    <2> QED
      BY <2>1, <2>2
  <1>6. /\ next_pdcp_tx_sn' \in 0..maximum_pdcp_sn /\ tx_hfn' \in Nat
        /\ COUNT(tx_hfn', next_pdcp_tx_sn') = COUNT(tx_hfn, next_pdcp_tx_sn) + 1
    <2>a. PICK x, h, M : x = next_pdcp_tx_sn /\ h = tx_hfn /\ M = maximum_pdcp_sn
      OBVIOUS
    <2>1. x \in 0..M /\ h \in Nat /\ M \in Nat
      BY <2>a, PdcpAssumption DEF CountAt
    <2>2. CASE x + 1 > M
      <3>1. next_pdcp_tx_sn' = 0 /\ tx_hfn' = h + 1 /\ x = M
        BY <2>1, <2>2, <2>a DEF PdcpWriteSdu
      <3>2. (h + 1) * (M + 1) + 0 = h * (M + 1) + M + 1
        BY <2>1
      <3> QED
        BY <2>1, <2>a, <3>1, <3>2 DEF COUNT
    <2>3. CASE ~(x + 1 > M)
      <3>1. next_pdcp_tx_sn' = x + 1 /\ tx_hfn' = h
        BY <2>1, <2>3, <2>a DEF PdcpWriteSdu
      <3>2. h * (M + 1) + (x + 1) = (h * (M + 1) + x) + 1 /\ x + 1 \in 0..M
        BY <2>1, <2>3
      <3> QED
        BY <2>1, <2>a, <3>1, <3>2 DEF COUNT
    <2> QED
      BY <2>2, <2>3
  <1>7. COUNT(tx_hfn', next_pdcp_tx_sn') = (m + 1) - B /\ B \in 0..(m + 1) /\ m + 1 <= MaxSdus
    <2>p. PICK k : k = COUNT(tx_hfn', next_pdcp_tx_sn')
      OBVIOUS
    <2>1. k = count + 1
      BY <1>6, <1>a, <2>p
    <2>2. MaxSdus \in Nat
      BY SduAssumption
    <2>3. k = (m + 1) - B /\ B \in 0..(m + 1) /\ m + 1 <= MaxSdus
      BY <1>1, <2>1, <2>2
    <2> QED
      BY <2>3, <2>p
  <1>8. CountAt(B)'
    BY <1>4, <1>5, <1>6, <1>7, <1>w DEF CountAt, SdusWritten, COUNT
  <1> QED
    BY <1>2, <1>3, <1>4, <1>8, <1>a, <1>w

------------------------------------------------------------------------------
(* Steps above RLC *)

(* What a reader of written and pdcp_delivered sees of the steps of the sender. *)
LEMMA NothingDelivered ==
    ASSUME UNCHANGED pdcp_delivered
    PROVE  [i \in 1..Len(pdcp_delivered) |-> Place(pdcp_delivered[i])]'
              = [i \in 1..Len(pdcp_delivered) |-> Place(pdcp_delivered[i])]
  BY DEF Place, Id

LEMMA WriteKeeps ==
    ASSUME NEW H, NEW R, NEW K, NEW F, NEW S, NEW B, NEW N, NEW t, UmAt(H, R, K, F, S, B, N, t),
           Write
    PROVE  UmAt(H, R, K, F, S, B, N, t)' /\ Service!Accept
  <1>1. /\ RxAt(H, R, K, F) /\ SendAt(F, S, B, t) /\ CountAt(B) /\ FlightAt(F, S, H, N)
        /\ OutAt(F, R) /\ reestablished \in 0..MaxReestablish
    BY DEF UmAt
  <1>2. /\ Len(written) < MaxSdus /\ PdcpWriteSdu
        /\ tx_sdu_queue' = Append(tx_sdu_queue, Len(written) + 1)
        /\ UNCHANGED <<tx_sdu, vt_us, pdu_list>> /\ UNCHANGED um_rx_vars
        /\ UNCHANGED <<rx_st, pdcp_delivered>> /\ UNCHANGED <<overtaken, lost, reestablished, arrived>>
    BY DEF Write, TryWriteSdu, mac_vars
  <1>3. /\ CountAt(B)' /\ Len(written') = Len(written) + 1
        /\ \E count \in 0..MaxSdus : written' = Append(written, count)
    BY <1>1, <1>2, CountGrows
  <1>4. RxAt(H, R, K, F)'
    BY <1>1, <1>2, RxAtUntouched
  <1>5. OutAt(F, R)'
    BY <1>1, <1>2, OutAtUntouched
  <1>6. FlightAt(F, S, H, N)'
    BY <1>1, <1>2, FlightAtUntouched
  <1>7. SendAt(F, S, B, t)'
    <2>a. PICK m, q, sdu : m = Len(written) /\ q = tx_sdu_queue /\ sdu = tx_sdu
      OBVIOUS
    <2>1. /\ S \in Nat /\ InOrderUpTo(F, S) /\ F[S] = NextByte(sdu, t) /\ vt_us = S % UM_MOD
          /\ \A c \in 0..S : B < F[c][1] /\ F[c][1] <= m + 1
          /\ IsStream(sdu, q, t) /\ t + Len(q) = m
      BY <1>1, <2>a DEF SendAt
    <2>2. m \in Nat /\ m < MaxSdus /\ t \in Nat /\ q \in Seq(1..MaxSdus) /\ MaxSdus \in Nat
      BY <1>1, <1>2, <2>1, <2>a, LenProperties, SduAssumption DEF CountAt, SdusWritten, IsStream
    <2>l. Len(q) \in Nat /\ t + Len(q) = m
      BY <2>1, <2>2, LenProperties
    <2>3. m + 1 \in 1..MaxSdus /\ m + 1 = t + Len(q) + 1
      BY <2>2, <2>l
    <2>4. IsStream(sdu, Append(q, m + 1), t)
      BY <2>1, <2>3, StreamGrows
    <2>5. Len(Append(q, m + 1)) = Len(q) + 1
      BY <2>2
    <2>6. t + Len(Append(q, m + 1)) = m + 1
      BY <2>1, <2>2, <2>5, LenProperties
    <2>7. \A c \in 0..S : F[c][1] <= (m + 1) + 1
      <3> TAKE c \in 0..S
      <3>1. F[c][1] \in Nat /\ F[c][1] <= m + 1
        BY <2>1 DEF InOrderUpTo
      <3> QED
        BY <2>2, <3>1
    <2>8. Len(written') = m + 1 /\ tx_sdu_queue' = Append(q, m + 1) /\ tx_sdu' = sdu /\ vt_us' = vt_us
      BY <1>2, <1>3, <2>a
    <2> QED
      BY <2>1, <2>4, <2>6, <2>7, <2>8 DEF SendAt
  <1>8. UmAt(H, R, K, F, S, B, N, t)'
    BY <1>1, <1>2, <1>3, <1>4, <1>5, <1>6, <1>7 DEF UmAt
  <1>9. Service!Accept
    BY <1>2, <1>3, NothingDelivered DEF Service!Accept
  <1> QED
    BY <1>8, <1>9

(* The PDU that the MAC is given is a PDU of the next place. *)
LEMMA HeaderIsPdu ==
    ASSUME NEW d, Run(d), NEW c \in Nat, NEW sn, sn = c % UM_MOD
    PROVE  /\ Header(sn, d) \in RxPdu /\ Header(sn, d).sn = sn
           /\ Spans(Header(sn, d), d[1], NextOf(d))
  <1>a. PICK pdu : pdu = Header(sn, d)
    OBVIOUS
  <1>1. Spans(pdu, d[1], NextOf(d)) /\ pdu.sn = sn
    BY <1>a, HeaderSpans
  <1>2. PICK b : CarriesTo(pdu, d[1], b)
    BY <1>1 DEF Spans
  <1>3. /\ pdu.segments \in Seq(Seq(SduByte)) /\ Len(pdu.segments) = b[1] - d[1][1] + 1
        /\ b[1] - d[1][1] + 1 \in Nat \ {0}
    BY <1>2, CarriedSegments
  <1>4. pdu.segments # << >>
    BY <1>3
  <1>5. /\ pdu = [sn |-> sn, start_aligned |-> d[1][2] = 1,
                  end_aligned |-> d[Len(d)][2] = SduLen, segments |-> Cut(d)]
    BY <1>a DEF Header
  <1>6. pdu.segments = Cut(d) /\ sn \in UmSN
    BY <1>5, NumberType
  <1>7. Cut(d) \in Seq(Seq(SduByte)) \ {<< >>}
    BY <1>3, <1>4, <1>6
  <1>8. (d[1][2] = 1) \in BOOLEAN /\ (d[Len(d)][2] = SduLen) \in BOOLEAN
    OBVIOUS
  <1>9. pdu \in RxPdu
    BY <1>5, <1>6, <1>7, <1>8 DEF RxPdu
  <1> QED
    BY <1>1, <1>9, <1>a

(* The transmitter after a PDU has been built. *)
LEMMA SendGoesOn ==
    ASSUME NEW F, NEW S, NEW B, NEW t, SendAt(F, S, B, t), CountAt(B), written' = written,
           NEW g \in Grants, BuildDataPdu(g)
    PROVE  \E data, t2 :
              /\ Run(data) /\ data[1] = F[S]
              /\ pdu_list' = Append(pdu_list, Header(vt_us, data))
              /\ SendAt(OneMore(F, S, NextOf(data)), S + 1, B, t2)'
              /\ F[S][1] <= NextOf(data)[1] /\ NextOf(data)[1] \in Nat
  <1>a. PICK q, sdu, wait, m : q = tx_sdu_queue /\ sdu = tx_sdu /\ wait = Pending(tx_sdu, tx_sdu_queue)
                               /\ m = Len(written)
    OBVIOUS
  <1>1. /\ S \in Nat /\ InOrderUpTo(F, S) /\ F[S] = NextByte(sdu, t) /\ vt_us = S % UM_MOD
        /\ \A c \in 0..S : B < F[c][1] /\ F[c][1] <= m + 1
        /\ IsStream(sdu, q, t) /\ t + Len(q) = m
    BY <1>a DEF SendAt
  <1>2. m \in Nat /\ B \in Nat /\ t \in Nat
    BY <1>1, <1>a, LenProperties DEF CountAt, SdusWritten, IsStream
  <1>3. wait = Pending(sdu, q) /\ wait \in Seq(SduByte)
    BY <1>1, <1>a, PendingType DEF IsStream
  <1>4. PICK n, data, id :
            /\ n \in 1..Len(wait) /\ data = SubSeq(wait, 1, n) /\ id = data[n][1]
            /\ tx_sdu' = Rest(id, data[n][2])
            /\ tx_sdu_queue' = LeftOf(q, id)
            /\ vt_us' = (vt_us + 1) % UM_MOD
            /\ pdu_list' = Append(pdu_list, Header(vt_us, data))
    <2>g. g \in Nat
      BY UmBearerAssumption
    <2>1. PICK n \in 1..g :
            /\ n <= Len(wait)
            /\ LET data == SubSeq(wait, 1, n)
                   id   == data[n][1]
               IN /\ tx_sdu' = Rest(id, data[n][2])
                  /\ tx_sdu_queue' = LeftOf(q, id)
                  /\ vt_us' = (vt_us + 1) % UM_MOD
                  /\ pdu_list' = Append(pdu_list, Header(vt_us, data))
      BY <1>a DEF BuildDataPdu
    <2>2. n \in 1..Len(wait)
      BY <1>3, <2>g, <2>1, LenProperties
    <2> QED
      BY <2>1, <2>2
  <1>n. n \in 1..Len(wait) /\ id = data[n][1]
    BY <1>4
  <1>5. /\ Run(data) /\ data[1] = NextByte(sdu, t) /\ Len(data) = n /\ data[n] = wait[n]
        /\ NextOf(data) = Successor(wait[n])
        /\ wait[n][1] \in 1..MaxSdus /\ wait[n][2] \in 1..SduLen
        /\ t <= wait[n][1] /\ wait[n][1] <= t + Len(q)
    BY <1>1, <1>3, <1>4, PendingTaken
  <1>k. PICK k, e : k = data[n][2] /\ e = NextOf(data)
    OBVIOUS
  <1>6. id \in 1..MaxSdus /\ k \in 1..SduLen /\ t <= id /\ id <= t + Len(q)
    BY <1>4, <1>5, <1>k
  <1>7. /\ IsStream(Rest(id, k), LeftOf(q, id), id)
        /\ id + Len(LeftOf(q, id)) = t + Len(q)
        /\ NextByte(Rest(id, k), id) = Successor(<<id, k>>)
    BY <1>1, <1>6, StreamLeft
  <1>8. e = Successor(<<id, k>>) /\ e[1] \in Nat /\ id <= e[1] /\ e[1] <= id + 1
    <2>1. e[1] = IF k = SduLen THEN id + 1 ELSE id
      BY <1>n, <1>5, <1>k DEF Successor
    <2>2. e = Successor(<<id, k>>)
      BY <1>4, <1>5, <1>k DEF Successor
    <2> QED
      BY <1>6, <2>1, <2>2
  <1>9. data[1][1] <= id /\ data[1][1] \in Nat
    <2>1. n \in Nat /\ n > 0 /\ n = Len(data)
      BY <1>3, <1>n, <1>5, LenProperties
    <2>2. /\ \A j \in 1..n : data[j][1] \in Nat
          /\ \A j \in 1..n : data[1][1] <= data[j][1] /\ data[j][1] <= data[n][1]
      BY <1>5, <2>1, RunOrder
    <2>3. 1 \in 1..n /\ n \in 1..n
      BY <2>1
    <2> QED
      BY <1>4, <2>2, <2>3
  <1>10. F[S][1] <= e[1] /\ F[S] = data[1]
    BY <1>1, <1>5, <1>6, <1>8, <1>9
  <1>G. PICK G : G = OneMore(F, S, e)
    OBVIOUS
  <1>11. InOrderUpTo(G, S + 1) /\ (\A c \in 0..S : G[c] = F[c]) /\ G[S + 1] = e
    BY <1>1, <1>8, <1>10, <1>G, OneMorePlace
  <1>12. \A c \in 0..(S + 1) : B < G[c][1] /\ G[c][1] <= m + 1
    <2> TAKE c \in 0..(S + 1)
    <2>1. CASE c = S + 1
      <3>l. PICK l, f : l = Len(q) /\ f = F[S][1]
        OBVIOUS
      <3>1. f \in Nat /\ B < f /\ f <= e[1]
        <4>1. S \in 0..S
          BY <1>1
        <4> QED
          BY <1>1, <1>10, <3>l, <4>1 DEF InOrderUpTo
      <3>2. l \in Nat /\ t + l = m /\ id <= t + l
        BY <1>1, <1>6, <3>l, LenProperties DEF IsStream
      <3> QED
        BY <1>2, <1>6, <1>8, <1>11, <2>1, <3>1, <3>2
    <2>2. CASE c # S + 1
      <3>1. c \in 0..S
        BY <1>1, <2>2
      <3> QED
        BY <1>1, <1>11, <3>1
    <2> QED
      BY <2>1, <2>2
  <1>13. vt_us' = (S + 1) % UM_MOD
    BY <1>1, <1>4, NumberNext DEF Next1
  <1>14. /\ IsStream(tx_sdu', tx_sdu_queue', id) /\ id + Len(tx_sdu_queue') = Len(written')
         /\ G[S + 1] = NextByte(tx_sdu', id)
    BY <1>1, <1>4, <1>7, <1>8, <1>11, <1>a, <1>k
  <1>15. SendAt(G, S + 1, B, id)'
    <2>1. S + 1 \in Nat /\ Len(written') = m
      BY <1>1, <1>a
    <2> QED
      BY <1>11, <1>12, <1>13, <1>14, <2>1 DEF SendAt
  <1> QED
    BY <1>4, <1>5, <1>8, <1>10, <1>15, <1>G, <1>k

------------------------------------------------------------------------------
(* Steps of the MAC *)

(* The PDUs in flight, one after the other. *)
LEMMA FlightGrows ==
    ASSUME NEW F, NEW S, NEW H, NEW N, FlightAt(F, S, H, N), NEW G,
           \A c \in 0..S : G[c] = F[c], UNCHANGED <<overtaken, lost>>,
           NEW pdu, IsAt(pdu, G, S), pdu_list' = Append(pdu_list, pdu), S \in Nat
    PROVE  FlightAt(G, S + 1, H, N)'
  <1>a. PICK p, p2, l : p = pdu_list /\ p2 = pdu_list' /\ l = Len(pdu_list)
    OBVIOUS
  <1>1. /\ H \in Nat /\ N \in Nat /\ H <= S /\ overtaken \in BOOLEAN /\ lost \in 0..MaxLost
        /\ p \in Seq(RxPdu)
        /\ overtaken => l >= 1 /\ H = N + 2 /\ S = N + 1 + l
        /\ ~overtaken => S = N + l /\ H <= N + 1 /\ N <= H + lost
        /\ \A i \in 1..l : IsAt(p[i], F, PlaceInFlight(N, i))
    BY <1>a DEF FlightAt
  <1>2. l \in Nat /\ pdu \in RxPdu
    BY <1>1, <1>a, LenProperties DEF IsAt
  <1>3. p2 \in Seq(RxPdu) /\ Len(p2) = l + 1 /\ (\A i \in 1..l : p2[i] = p[i]) /\ p2[l + 1] = pdu
    BY <1>1, <1>2, <1>a
  <1>4. \A i \in 1..(l + 1) : IsAt(p2[i], G, PlaceInFlight(N, i))
    <2> TAKE i \in 1..(l + 1)
    <2>1. CASE i = l + 1
      <3>1. PlaceInFlight(N, i) = S
        BY <1>1, <1>2, <2>1 DEF PlaceInFlight
      <3> QED
        BY <1>3, <2>1, <3>1
    <2>2. CASE i # l + 1
      <3>1. i \in 1..l
        BY <1>2, <2>2
      <3>c. PICK c : c = PlaceInFlight(N, i)
        OBVIOUS
      <3>2. c \in 0..S /\ c + 1 \in 0..S
        BY <1>1, <1>2, <3>1, <3>c DEF PlaceInFlight
      <3>3. IsAt(p[i], F, c)
        BY <1>1, <3>1, <3>c
      <3>4. G[c] = F[c] /\ G[c + 1] = F[c + 1]
        BY <3>2
      <3> QED
        BY <1>3, <3>1, <3>3, <3>4, <3>c DEF IsAt
    <2> QED
      BY <2>1, <2>2
  <1>5. \A i \in 1..(l + 1) : PlaceInFlight(N, i)' = PlaceInFlight(N, i)
    BY DEF PlaceInFlight
  <1>6. /\ overtaken' => l + 1 >= 1 /\ H = N + 2 /\ S + 1 = N + 1 + (l + 1)
        /\ ~overtaken' => S + 1 = N + (l + 1) /\ H <= N + 1 /\ N <= H + lost'
        /\ H <= S + 1
    BY <1>1, <1>2
  <1> QED
    BY <1>1, <1>3, <1>4, <1>5, <1>6, <1>a DEF FlightAt

LEMMA ReadKeeps ==
    ASSUME NEW H, NEW R, NEW K, NEW F, NEW S, NEW B, NEW N, NEW t, UmAt(H, R, K, F, S, B, N, t),
           NEW g \in Grants, Read(g)
    PROVE  \E F2, S2, t2 : /\ UmAt(H, R, K, F2, S2, B, N, t2)' /\ F2[R] = F[R]
                           /\ OneSent(F, S, F2, S2)
  <1>1. /\ RxAt(H, R, K, F) /\ SendAt(F, S, B, t) /\ CountAt(B) /\ FlightAt(F, S, H, N)
        /\ OutAt(F, R) /\ reestablished \in 0..MaxReestablish
    BY DEF UmAt
  <1>2. /\ BuildDataPdu(g) /\ UNCHANGED um_rx_vars
        /\ UNCHANGED <<written, next_pdcp_tx_sn, tx_hfn>> /\ UNCHANGED <<rx_st, pdcp_delivered>>
        /\ UNCHANGED <<overtaken, lost>> /\ reestablished' = reestablished /\ written' = written
    BY DEF Read, pdcp_vars, mac_vars
  <1>3. PICK data, t2 :
            /\ Run(data) /\ data[1] = F[S]
            /\ pdu_list' = Append(pdu_list, Header(vt_us, data))
            /\ SendAt(OneMore(F, S, NextOf(data)), S + 1, B, t2)'
            /\ F[S][1] <= NextOf(data)[1] /\ NextOf(data)[1] \in Nat
    BY <1>1, <1>2, SendGoesOn
  <1>G. PICK G, e, pdu : G = OneMore(F, S, e) /\ e = NextOf(data) /\ pdu = Header(vt_us, data)
    OBVIOUS
  <1>4. S \in Nat /\ InOrderUpTo(F, S) /\ vt_us = S % UM_MOD
    BY <1>1 DEF SendAt
  <1>5. (\A c \in 0..S : G[c] = F[c]) /\ G[S + 1] = e
    BY <1>3, <1>4, <1>G, OneMorePlace
  <1>14. Spans(pdu, F[S], e)
    BY <1>3, <1>4, <1>G, HeaderIsPdu
  <1>6. IsAt(pdu, G, S)
    <2>1. pdu \in RxPdu /\ pdu.sn = vt_us /\ Spans(pdu, data[1], NextOf(data))
      BY <1>3, <1>4, <1>G, HeaderIsPdu
    <2>2. G[S] = data[1]
      BY <1>3, <1>4, <1>5
    <2> QED
      BY <1>4, <1>5, <1>G, <2>1, <2>2 DEF IsAt
  <1>7. FlightAt(G, S + 1, H, N)'
    BY <1>1, <1>2, <1>3, <1>4, <1>5, <1>6, <1>G, FlightGrows
  <1>8. H <= S /\ H \in Nat /\ R \in Nat /\ R <= H
    BY <1>1 DEF FlightAt, RxAt, WindowAt
  <1>9. G[R] = F[R]
    BY <1>4, <1>5, <1>8
  <1>10. RxAt(H, R, K, G)'
    <2>1. RxAt(H, R, K, G)
      BY <1>1, <1>4, <1>5, <1>8, RxAtAgain
    <2> QED
      BY <1>2, <2>1, RxAtUntouched
  <1>11. OutAt(G, R)'
    <2>1. OutAt(G, R)
      BY <1>1, <1>9 DEF OutAt
    <2> QED
      BY <1>2, <2>1, OutAtUntouched
  <1>12. CountAt(B)'
    BY <1>1, <1>2, CountAtUntouched
  <1>13. UmAt(H, R, K, G, S + 1, B, N, t2)'
    BY <1>1, <1>2, <1>3, <1>7, <1>10, <1>11, <1>12, <1>G DEF UmAt
  <1>15. OneSent(F, S, G, S + 1)
    BY <1>14, <1>G DEF OneSent
  <1> QED
    BY <1>9, <1>13, <1>15

------------------------------------------------------------------------------

\* What comes of PDUs: SDUs go to the PDCP entity, and nothing changes at the sender.
Passed(F, R, R2) ==
    \E out : Handed(out, F[R][1], F[R2][1]) /\ PdcpWritePdus(rx_st, out)

Comes(H, R, K, F, S, B, t, H2, N2) ==
    \/ /\ \E R2, K2 : UmAt(H2, R2, K2, F, S, B, N2, t)' /\ R <= R2 /\ Passed(F, R, R2)
    \/ UmAt(H2, R, K, F, S, B, N2, t)' /\ UNCHANGED <<rx_st, pdcp_delivered>>

(* SDUs handed over are delivered in their order. *)
LEMMA OutGoesOn ==
    ASSUME NEW F, NEW S, NEW B, NEW t, SendAt(F, S, B, t), CountAt(B), written' = written,
           NEW R \in 0..S, NEW R2 \in R..S, OutAt(F, R),
           NEW out, Handed(out, F[R][1], F[R2][1]), NEW st \in PdcpState, PdcpWritePdus(st, out)
    PROVE  /\ OutAt(F, R2)' /\ Grown(pdcp_delivered', pdcp_delivered, out)
           /\ Service!Deliver \/ UNCHANGED <<written, PlacesOf(pdcp_delivered)>>
  <1>a. PICK lo, hi, m : lo = F[R][1] /\ hi = F[R2][1] /\ m = Len(written)
    OBVIOUS
  <1>1. R2 \in 0..S /\ S \in Nat
    BY DEF SendAt
  <1>2. B < lo /\ lo \in Nat /\ hi \in Nat /\ lo <= hi /\ hi <= m + 1
    BY <1>1, <1>a DEF SendAt, InOrderUpTo
  <1>3. lo \in Nat \ {0} /\ SdusWritten
    BY <1>2, <1>a DEF CountAt
  <1>4. rx_st' \in PdcpState /\ OutIs(pdcp_delivered', hi) /\ Grown(pdcp_delivered', pdcp_delivered, out)
    BY <1>2, <1>3, <1>a, HandedArrives DEF OutAt
  <1>5. Service!Deliver \/ UNCHANGED <<written, PlacesOf(pdcp_delivered)>>
    BY <1>2, <1>3, <1>4, <1>a, DeliversToService DEF OutAt
  <1> QED
    BY <1>4, <1>5, <1>a DEF OutAt

(* A PDU comes; N2 and H2 are the first place in flight and the next one after all
   received. *)
LEMMA ReceiveKeeps ==
    ASSUME NEW H, NEW R, NEW K, NEW F, NEW S, NEW B, NEW N, NEW t, UmAt(H, R, K, F, S, B, N, t),
           NEW c \in Nat, H <= c + UM_WINDOW, c < H + UM_WINDOW,
           NEW H2, H2 = HighAfter(H, c), NEW pdu, IsAt(pdu, F, c), Receive(pdu),
           NEW N2, FlightAt(F, S, H2, N2)'
    PROVE  Comes(H, R, K, F, S, B, t, H2, N2)
  <1>1. /\ RxAt(H, R, K, F) /\ SendAt(F, S, B, t) /\ CountAt(B) /\ FlightAt(F, S, H, N)
        /\ OutAt(F, R) /\ reestablished \in 0..MaxReestablish
    BY DEF UmAt
  <1>2. /\ HandleDataPdu(pdu)
        /\ UNCHANGED <<tx_sdu_queue, tx_sdu, vt_us, written>>
        /\ UNCHANGED <<written, next_pdcp_tx_sn, tx_hfn>>
        /\ reestablished' = reestablished /\ written' = written
    BY DEF Receive
  <1>3. pdu \in RxPdu /\ pdu.sn = c % UM_MOD /\ Spans(pdu, F[c], F[c + 1])
    BY DEF IsAt
  <1>4. SendAt(F, S, B, t)'
    BY <1>1, <1>2, SendAtUntouched
  <1>5. CountAt(B)'
    BY <1>1, <1>2, CountAtUntouched
  <1>6. S \in Nat /\ InOrderUpTo(F, S)
    BY <1>1 DEF SendAt
  <1>7. R \in Nat /\ H \in Nat /\ R <= H /\ H <= S
    BY <1>1 DEF RxAt, WindowAt, FlightAt
  <1>8. H2 <= S
    BY DEF FlightAt
  <1>9. CASE Discarded(pdu.sn)
    <2>1. UNCHANGED um_rx_vars /\ UNCHANGED <<rx_st, pdcp_delivered>>
      BY <1>2, <1>9 DEF HandleDataPdu
    <2>2. c < H
      <3>1. /\ WindowAt(H, R, K) /\ vr_uh = H % UM_MOD /\ vr_ur = R % UM_MOD
            /\ DOMAIN rx_window = Numbers(K)
        BY <1>1 DEF RxAt, HeldPdus
      <3> QED
        BY <1>3, <1>9, <3>1, DiscardedPlaces
    <2>3. H2 = H
      BY <2>2 DEF HighAfter
    <2>4. RxAt(H, R, K, F)'
      BY <1>1, <2>1, RxAtUntouched
    <2>5. OutAt(F, R)'
      BY <1>1, <2>1, OutAtUntouched
    <2>6. UmAt(H2, R, K, F, S, B, N2, t)'
      BY <1>1, <1>2, <1>4, <1>5, <2>3, <2>4, <2>5 DEF UmAt
    <2> QED
      BY <2>1, <2>6 DEF Comes
  <1>10. CASE ~Discarded(pdu.sn)
    <2>1. PICK R2, K2, out :
              /\ RxAt(H2, R2, K2, F)' /\ R <= R2
              /\ Handed(out, F[R][1], F[R2][1]) /\ PdcpWritePdus(rx_st, out)
      BY <1>1, <1>2, <1>3, <1>6, <1>8, <1>10, TakesPdu
    <2>2. R2 \in Nat /\ R2 <= H2 /\ H2 \in Nat
      BY <2>1 DEF RxAt, WindowAt
    <2>3. R \in 0..S /\ R2 \in R..S
      BY <1>6, <1>7, <1>8, <2>1, <2>2
    <2>4. rx_st \in PdcpState
      BY <1>1 DEF OutAt
    <2>5. OutAt(F, R2)'
      BY <1>1, <1>2, <2>1, <2>3, <2>4, OutGoesOn
    <2>6. UmAt(H2, R2, K2, F, S, B, N2, t)'
      BY <1>1, <1>2, <1>4, <1>5, <2>1, <2>5 DEF UmAt
    <2> QED
      BY <2>1, <2>6 DEF Comes, Passed
  <1> QED
    BY <1>9, <1>10

------------------------------------------------------------------------------
(* Steps of the receiver *)

\* No more PDUs are lost in a row than the window has room for, with one overtaken.
FewLost == MaxLost + 1 < UM_WINDOW

(* Where the MAC is after it has given, lost or repeated a PDU. *)
LEMMA FlightMoves ==
    ASSUME FewLost, NEW F, NEW S \in Nat, NEW H, NEW N, FlightAt(F, S, H, N), pdu_list # << >>,
           NEW N2, N2 = IF overtaken THEN N + 2 ELSE N + 1
    PROVE  /\ H \in Nat /\ N \in Nat /\ Head(pdu_list) = pdu_list[1] /\ IsAt(Head(pdu_list), F, N)
           /\ H <= N + UM_WINDOW /\ N < H + UM_WINDOW
           /\ pdu_list' = Tail(pdu_list) /\ overtaken' = FALSE
                => /\ lost' = 0 => FlightAt(F, S, HighAfter(H, N), N2)'
                   /\ lost' = lost + 1 /\ lost < MaxLost
                         => FlightAt(F, S, H, N2)'
           /\ UNCHANGED <<pdu_list, overtaken>> /\ lost' = 0
                => FlightAt(F, S, HighAfter(H, N), N)'
           /\ ~overtaken /\ Len(pdu_list) > 1
                => /\ IsAt(pdu_list[2], F, N + 1)
                   /\ H <= (N + 1) + UM_WINDOW /\ N + 1 < H + UM_WINDOW
                   /\ pdu_list' = RemoveAt(pdu_list, 2) /\ overtaken' = TRUE /\ lost' = lost
                        => FlightAt(F, S, HighAfter(H, N + 1), N)'
  <1>a. PICK p, l, W, x : p = pdu_list /\ l = Len(pdu_list) /\ W = UM_WINDOW /\ x = MaxLost
    OBVIOUS
  <1>1. /\ H \in Nat /\ N \in Nat /\ H <= S /\ overtaken \in BOOLEAN /\ lost \in 0..x
        /\ p \in Seq(RxPdu)
        /\ overtaken => l >= 1 /\ H = N + 2 /\ S = N + 1 + l
        /\ ~overtaken => S = N + l /\ H <= N + 1 /\ N <= H + lost
        /\ \A i \in 1..l : IsAt(p[i], F, PlaceInFlight(N, i))
    BY <1>a DEF FlightAt
  <1>2. l \in Nat /\ l > 0 /\ p # << >> /\ x \in Nat /\ W \in Nat /\ x + 1 < W
    BY <1>1, <1>a, LenProperties, UmBearerAssumption, Modulus DEF FewLost
  <1>3. Head(p) = p[1] /\ 1 \in 1..l /\ PlaceInFlight(N, 1) = N
    BY <1>1, <1>2 DEF PlaceInFlight
  <1>4. IsAt(p[1], F, N)
    BY <1>1, <1>3
  <1>5. H <= N + W /\ N < H + W
    BY <1>1, <1>2
  <1>6. /\ overtaken => HighAfter(H, N) = H
        /\ ~overtaken => HighAfter(H, N) = N + 1 /\ HighAfter(H, N + 1) = N + 2
    BY <1>1 DEF HighAfter
  <1>7. ASSUME pdu_list' = Tail(pdu_list), overtaken' = FALSE,
               NEW H2 \in Nat, H2 <= S,
               lost' \in 0..x, H2 <= N2 + 1, N2 <= H2 + lost'
        PROVE  FlightAt(F, S, H2, N2)'
    <2>b. PICK p2 : p2 = pdu_list'
      OBVIOUS
    <2>1. p2 = Tail(p)
      BY <1>7, <1>a, <2>b
    <2>2. p2 \in Seq(RxPdu) /\ Len(p2) = l - 1 /\ \A i \in 1..(l - 1) : p2[i] = p[i + 1]
      BY <1>1, <1>2, <1>a, <2>1
    <2>3. \A i \in 1..(l - 1) : IsAt(p2[i], F, PlaceInFlight(N2, i)')
      <3> TAKE i \in 1..(l - 1)
      <3>1. i + 1 \in 1..l /\ i + 1 > 1
        BY <1>2
      <3>2. PlaceInFlight(N2, i)' = N2 + i - 1
        BY <1>7 DEF PlaceInFlight
      <3>3. PlaceInFlight(N, i + 1) = N2 + i - 1
        BY <1>1, <1>7, <3>1 DEF PlaceInFlight
      <3>4. IsAt(p[i + 1], F, PlaceInFlight(N, i + 1))
        BY <1>1, <3>1
      <3> QED
        BY <2>2, <3>2, <3>3, <3>4
    <2>4. N2 \in Nat /\ S = N2 + (l - 1)
      BY <1>1, <1>2, <1>7
    <2> QED
      BY <1>7, <1>a, <2>2, <2>3, <2>4, <2>b DEF FlightAt
  <1>8. ASSUME pdu_list' = Tail(pdu_list), overtaken' = FALSE
        PROVE  /\ lost' = 0 => FlightAt(F, S, HighAfter(H, N), N2)'
               /\ lost' = lost + 1 /\ lost < MaxLost
                     => FlightAt(F, S, H, N2)'
    <2>n. PICK H2 : H2 = HighAfter(H, N)
      OBVIOUS
    <2>1. H2 \in Nat /\ H2 <= S /\ N2 \in Nat /\ H2 <= N2 + 1 /\ N2 <= H2
      BY <1>1, <1>2, <1>6, <2>n
    <2>2. ASSUME lost' = 0 PROVE FlightAt(F, S, H2, N2)'
      <3>1. lost' \in 0..x /\ N2 <= H2 + lost'
        BY <1>2, <2>1, <2>2
      <3> QED
        BY <1>7, <1>8, <2>1, <2>n, <3>1
    <2>3. ASSUME lost' = lost + 1, lost < MaxLost PROVE FlightAt(F, S, H, N2)'
      <3>1. lost' \in 0..x /\ N2 <= H + lost' /\ H <= N2 + 1
        BY <1>1, <1>2, <1>a, <2>3, <2>n
      <3> QED
        BY <1>1, <1>7, <1>8, <2>n, <3>1
    <2> QED
      BY <2>2, <2>3, <2>n
  <1>9. ASSUME UNCHANGED <<pdu_list, overtaken>>, lost' = 0
        PROVE  FlightAt(F, S, HighAfter(H, N), N)'
    <2>h. PICK H2 : H2 = HighAfter(H, N)
      OBVIOUS
    <2>1. \A i \in 1..l : PlaceInFlight(N, i)' = PlaceInFlight(N, i)
      BY <1>9 DEF PlaceInFlight
    <2>2. /\ H2 \in Nat /\ H2 <= S /\ lost' \in 0..x
          /\ overtaken => H2 = N + 2
          /\ ~overtaken => H2 <= N + 1 /\ N <= H2 + lost'
      BY <1>1, <1>2, <1>6, <1>9, <2>h
    <2>3. FlightAt(F, S, H2, N)'
      BY <1>1, <1>9, <1>a, <2>1, <2>2 DEF FlightAt
    <2> QED
      BY <2>3, <2>h
  <1>10. ASSUME ~overtaken, l > 1
         PROVE  /\ IsAt(pdu_list[2], F, N + 1)
                /\ H <= (N + 1) + UM_WINDOW /\ N + 1 < H + UM_WINDOW
                /\ pdu_list' = RemoveAt(pdu_list, 2) /\ overtaken' = TRUE /\ lost' = lost
                     => FlightAt(F, S, HighAfter(H, N + 1), N)'
    <2>1. 2 \in 1..l /\ PlaceInFlight(N, 2) = N + 1
      BY <1>1, <1>2, <1>10 DEF PlaceInFlight
    <2>2. IsAt(p[2], F, N + 1)
      BY <1>1, <2>1
    <2>3. H <= (N + 1) + W /\ N + 1 < H + W
      BY <1>1, <1>2, <1>10
    <2>4. ASSUME pdu_list' = RemoveAt(pdu_list, 2), overtaken' = TRUE, lost' = lost
          PROVE  FlightAt(F, S, HighAfter(H, N + 1), N)'
      <3>b. PICK p2, H2 : p2 = pdu_list' /\ H2 = HighAfter(H, N + 1)
        OBVIOUS
      <3>1. p2 = RemoveAt(p, 2) /\ H2 = N + 2
        BY <1>6, <1>10, <1>a, <2>4, <3>b
      <3>2. /\ p2 \in Seq(RxPdu) /\ Len(p2) = l - 1
            /\ \A i \in 1..(l - 1) : p2[i] = IF i < 2 THEN p[i] ELSE p[i + 1]
        BY <1>1, <1>a, <2>1, <3>1, RemoveAtProperties
      <3>3. \A i \in 1..(l - 1) : IsAt(p2[i], F, PlaceInFlight(N, i)')
        <4> TAKE i \in 1..(l - 1)
        <4>1. CASE i < 2
          <5>1. i = 1 /\ p2[i] = p[1]
            BY <3>2, <4>1
          <5>2. PlaceInFlight(N, i)' = N
            BY <1>1, <5>1 DEF PlaceInFlight
          <5> QED
            BY <1>4, <5>1, <5>2
        <4>2. CASE ~(i < 2)
          <5>1. i + 1 \in 1..l /\ p2[i] = p[i + 1] /\ i > 1
            BY <1>2, <3>2, <4>2
          <5>2. PlaceInFlight(N, i)' = N + i
            BY <2>4, <5>1 DEF PlaceInFlight
          <5>3. PlaceInFlight(N, i + 1) = N + i
            BY <1>1, <1>10, <5>1 DEF PlaceInFlight
          <5>4. IsAt(p[i + 1], F, PlaceInFlight(N, i + 1))
            BY <1>1, <5>1
          <5> QED
            BY <5>1, <5>2, <5>3, <5>4
        <4> QED
          BY <4>1, <4>2
      <3>4. /\ H2 \in Nat /\ H2 <= S /\ l - 1 >= 1 /\ H2 = N + 2 /\ S = N + 1 + (l - 1)
            /\ lost' \in 0..x
        BY <1>1, <1>2, <1>10, <2>4, <3>1
      <3>5. FlightAt(F, S, H2, N)'
        BY <1>1, <1>a, <2>4, <3>2, <3>3, <3>4, <3>b DEF FlightAt
      <3> QED
        BY <3>5, <3>b
    <2> QED
      BY <1>a, <2>2, <2>3, <2>4
  <1> QED
    BY <1>1, <1>3, <1>4, <1>5, <1>8, <1>9, <1>10, <1>a

------------------------------------------------------------------------------

\* A PDU of place c is handed over, and place N2 is the first in flight then.
Gets(H, F, S, c, pdu, N2) ==
    /\ c \in Nat /\ H <= c + UM_WINDOW /\ c < H + UM_WINDOW
    /\ IsAt(pdu, F, c) /\ Receive(pdu) /\ FlightAt(F, S, HighAfter(H, c), N2)'

LEMMA SomePduIsGiven ==
    ASSUME FewLost, NEW H, NEW R, NEW K, NEW F, NEW S, NEW B, NEW N, NEW t, UmAt(H, R, K, F, S, B, N, t),
           Deliver \/ Duplicate \/ Overtake
    PROVE  \E c, pdu, N2 : Gets(H, F, S, c, pdu, N2)
  <1>1. FlightAt(F, S, H, N) /\ S \in Nat
    BY DEF UmAt, SendAt
  <1>2. pdu_list # << >>
    <2>1. Len(pdu_list) > 1 => pdu_list # << >>
      OBVIOUS
    <2> QED
      BY <2>1 DEF Deliver, Duplicate, Overtake
  <1>a. PICK H2, N2 : H2 = HighAfter(H, N) /\ N2 = IF overtaken THEN N + 2 ELSE N + 1
    OBVIOUS
  <1>3. /\ H \in Nat /\ N \in Nat /\ N + 1 \in Nat /\ IsAt(Head(pdu_list), F, N)
        /\ H <= N + UM_WINDOW /\ N < H + UM_WINDOW
    <2>1. /\ H \in Nat /\ N \in Nat /\ IsAt(Head(pdu_list), F, N)
          /\ H <= N + UM_WINDOW /\ N < H + UM_WINDOW
      BY <1>1, <1>2, <1>a, FlightMoves
    <2> QED
      BY <2>1
  <1>4. CASE Deliver
    <2>1. Receive(Head(pdu_list)) /\ pdu_list' = Tail(pdu_list) /\ overtaken' = FALSE /\ lost' = 0
      BY <1>4 DEF Deliver
    <2>2. FlightAt(F, S, H2, N2)'
      BY <1>1, <1>2, <1>a, <2>1, FlightMoves
    <2>3. Gets(H, F, S, N, Head(pdu_list), N2)
      BY <1>3, <1>a, <2>1, <2>2 DEF Gets
    <2> QED
      BY <2>3
  <1>5. CASE Duplicate
    <2>1. Receive(Head(pdu_list)) /\ UNCHANGED <<pdu_list, overtaken>> /\ lost' = 0
      BY <1>5 DEF Duplicate
    <2>2. FlightAt(F, S, H2, N)'
      BY <1>1, <1>2, <1>a, <2>1, FlightMoves
    <2>3. Gets(H, F, S, N, Head(pdu_list), N)
      BY <1>3, <1>a, <2>1, <2>2 DEF Gets
    <2> QED
      BY <2>3
  <1>6. CASE Overtake
    <2>a. PICK H3 : H3 = HighAfter(H, N + 1)
      OBVIOUS
    <2>1. /\ Len(pdu_list) > 1 /\ ~overtaken /\ Receive(pdu_list[2])
          /\ pdu_list' = RemoveAt(pdu_list, 2) /\ overtaken' = TRUE /\ lost' = lost
      BY <1>6 DEF Overtake
    <2>2. /\ IsAt(pdu_list[2], F, N + 1) /\ H <= (N + 1) + UM_WINDOW /\ N + 1 < H + UM_WINDOW
          /\ FlightAt(F, S, H3, N)'
      BY <1>1, <1>2, <2>1, <2>a, FlightMoves
    <2>3. Gets(H, F, S, N + 1, pdu_list[2], N)
      BY <1>3, <2>1, <2>2, <2>a DEF Gets
    <2> QED
      BY <2>3
  <1> QED
    BY <1>4, <1>5, <1>6

LEMMA GetsKeeps ==
    ASSUME NEW H, NEW R, NEW K, NEW F, NEW S, NEW B, NEW N, NEW t, UmAt(H, R, K, F, S, B, N, t),
           NEW c, NEW pdu, NEW N2, Gets(H, F, S, c, pdu, N2)
    PROVE  Comes(H, R, K, F, S, B, t, HighAfter(H, c), N2)
  <1>1. /\ c \in Nat /\ H <= c + UM_WINDOW /\ c < H + UM_WINDOW
        /\ IsAt(pdu, F, c) /\ Receive(pdu) /\ FlightAt(F, S, HighAfter(H, c), N2)'
    BY DEF Gets
  <1>2. PICK H2 : H2 = HighAfter(H, c)
    OBVIOUS
  <1>3. FlightAt(F, S, H2, N2)'
    BY <1>1, <1>2
  <1>4. Comes(H, R, K, F, S, B, t, H2, N2)
    BY <1>1, <1>2, <1>3, ReceiveKeeps
  <1> QED
    BY <1>2, <1>4

\* Some PDU is handed over.
Given(H, R, K, F, S, B, t) == \E H2, N2 : Comes(H, R, K, F, S, B, t, H2, N2)

LEMMA GivenKeeps ==
    ASSUME FewLost, NEW H, NEW R, NEW K, NEW F, NEW S, NEW B, NEW N, NEW t, UmAt(H, R, K, F, S, B, N, t),
           Deliver \/ Duplicate \/ Overtake
    PROVE  Given(H, R, K, F, S, B, t)
  <1>1. PICK c, pdu, N2 : Gets(H, F, S, c, pdu, N2)
    BY SomePduIsGiven
  <1>2. Comes(H, R, K, F, S, B, t, HighAfter(H, c), N2)
    BY <1>1, GetsKeeps
  <1> QED
    BY <1>2 DEF Given

LEMMA LoseKeeps ==
    ASSUME FewLost, NEW H, NEW R, NEW K, NEW F, NEW S, NEW B, NEW N, NEW t, UmAt(H, R, K, F, S, B, N, t),
           Lose
    PROVE  \E N2 : UmAt(H, R, K, F, S, B, N2, t)'
  <1>1. /\ RxAt(H, R, K, F) /\ SendAt(F, S, B, t) /\ CountAt(B) /\ FlightAt(F, S, H, N)
        /\ OutAt(F, R) /\ reestablished \in 0..MaxReestablish /\ S \in Nat
    BY DEF UmAt, SendAt
  <1>2. /\ pdu_list # << >> /\ lost < MaxLost /\ pdu_list' = Tail(pdu_list)
        /\ lost' = lost + 1 /\ overtaken' = FALSE /\ reestablished' = reestablished
        /\ UNCHANGED <<tx_sdu_queue, tx_sdu, vt_us, written>> /\ UNCHANGED um_rx_vars
        /\ UNCHANGED <<written, next_pdcp_tx_sn, tx_hfn>> /\ UNCHANGED <<rx_st, pdcp_delivered>>
    BY DEF Lose, pdcp_vars
  <1>a. PICK N2 : N2 = IF overtaken THEN N + 2 ELSE N + 1
    OBVIOUS
  <1>3. FlightAt(F, S, H, N2)'
    BY <1>1, <1>2, <1>a, FlightMoves
  <1>4. RxAt(H, R, K, F)' /\ SendAt(F, S, B, t)' /\ CountAt(B)' /\ OutAt(F, R)'
    BY <1>1, <1>2, RxAtUntouched, SendAtUntouched, CountAtUntouched, OutAtUntouched
  <1> QED
    BY <1>1, <1>2, <1>3, <1>4 DEF UmAt

LEMMA ReorderingKeeps ==
    ASSUME NEW H, NEW R, NEW K, NEW F, NEW S, NEW B, NEW N, NEW t, UmAt(H, R, K, F, S, B, N, t),
           Reordering
    PROVE  Comes(H, R, K, F, S, B, t, H, N)
  <1>1. /\ RxAt(H, R, K, F) /\ SendAt(F, S, B, t) /\ CountAt(B) /\ FlightAt(F, S, H, N)
        /\ OutAt(F, R) /\ reestablished \in 0..MaxReestablish /\ S \in Nat /\ InOrderUpTo(F, S)
    BY DEF UmAt, SendAt
  <1>2. /\ ReorderingExpired /\ UNCHANGED <<tx_sdu_queue, tx_sdu, vt_us, written>>
        /\ UNCHANGED <<written, next_pdcp_tx_sn, tx_hfn>> /\ UNCHANGED <<pdu_list, overtaken, lost>>
        /\ reestablished' = reestablished /\ written' = written
    BY DEF Reordering, um_tx_vars, mac_vars
  <1>3. H <= S /\ R \in Nat /\ H \in Nat /\ R <= H
    BY <1>1 DEF FlightAt, RxAt, WindowAt
  <1>4. PICK R2, K2, out : /\ RxAt(H, R2, K2, F)' /\ R <= R2
                           /\ Handed(out, F[R][1], F[R2][1]) /\ PdcpWritePdus(rx_st, out)
    BY <1>1, <1>2, <1>3, ExpiredKeeps
  <1>5. R2 \in Nat /\ R2 <= H
    BY <1>4 DEF RxAt, WindowAt
  <1>6. R \in 0..S /\ R2 \in R..S
    BY <1>1, <1>3, <1>4, <1>5
  <1>7. rx_st \in PdcpState
    BY <1>1 DEF OutAt
  <1>8. OutAt(F, R2)'
    BY <1>1, <1>2, <1>4, <1>6, <1>7, OutGoesOn
  <1>9. SendAt(F, S, B, t)' /\ CountAt(B)' /\ FlightAt(F, S, H, N)'
    BY <1>1, <1>2, SendAtUntouched, CountAtUntouched, FlightAtUntouched
  <1>10. UmAt(H, R2, K2, F, S, B, N, t)'
    BY <1>1, <1>2, <1>4, <1>8, <1>9 DEF UmAt
  <1> QED
    BY <1>4, <1>10 DEF Comes, Passed

------------------------------------------------------------------------------
(* Initial states and reestablishments *)

(* A transmitter that has nothing to send, and has sent nothing of what comes. *)
SendIdle(m) ==
    /\ SdusWritten /\ m = Len(written)
    /\ tx_sdu = << >> /\ tx_sdu_queue = << >> /\ vt_us = 0 /\ pdu_list = << >>
    /\ next_pdcp_tx_sn = 0 /\ tx_hfn = 0
    /\ overtaken = FALSE /\ lost = 0

LEMMA SendBegins ==
    ASSUME NEW m, NEW F, F = StreamFrom(m + 1), SendIdle(m)
    PROVE  SendAt(F, 0, m, m) /\ CountAt(m) /\ FlightAt(F, 0, 0, 0)
  <1>0. /\ SdusWritten /\ m = Len(written)
        /\ tx_sdu = << >> /\ tx_sdu_queue = << >> /\ vt_us = 0 /\ pdu_list = << >>
        /\ next_pdcp_tx_sn = 0 /\ tx_hfn = 0 /\ overtaken = FALSE /\ lost = 0
    BY DEF SendIdle
  <1>1. m \in Nat /\ m <= MaxSdus
    BY <1>0, LenProperties DEF SdusWritten
  <1>2. F[0] = <<m + 1, 1>> /\ F[0][1] = m + 1 /\ InOrderUpTo(F, 0)
    BY <1>1, StreamBegins
  <1>3. 0 % UM_MOD = 0
    BY Modulus
  <1>4. SendAt(F, 0, m, m)
    <2>1. \A c \in 0..0 : m < F[c][1] /\ F[c][1] <= m + 1
      <3> TAKE c \in 0..0
      <3>1. c = 0
        OBVIOUS
      <3> QED
        BY <1>1, <1>2, <3>1
    <2>2. IsStream(tx_sdu, tx_sdu_queue, m)
      BY <1>0, <1>1, EmptySeq DEF IsStream
    <2>3. m + Len(tx_sdu_queue) = m
      BY <1>0, <1>1, EmptySeq
    <2>4. F[0] = NextByte(tx_sdu, m)
      BY <1>0, <1>2 DEF NextByte
    <2> QED
      BY <1>0, <1>2, <1>3, <2>1, <2>2, <2>3, <2>4 DEF SendAt
  <1>5. CountAt(m)
    <2>1. COUNT(tx_hfn, next_pdcp_tx_sn) = 0 /\ m - m = 0 /\ (m + 1)..m = {} /\ m \in 0..m
      BY <1>0, <1>1, PdcpAssumption DEF COUNT
    <2>2. next_pdcp_tx_sn \in 0..maximum_pdcp_sn /\ tx_hfn \in Nat
      BY <1>0, PdcpAssumption
    <2> QED
      BY <1>0, <2>1, <2>2 DEF CountAt
  <1>6. FlightAt(F, 0, 0, 0)
    <2>1. pdu_list \in Seq(RxPdu) /\ Len(pdu_list) = 0 /\ 1..0 = {} /\ lost \in 0..MaxLost
      BY <1>0, EmptySeq, UmBearerAssumption
    <2>2. \A i \in 1..Len(pdu_list) : IsAt(pdu_list[i], F, PlaceInFlight(0, i))
      BY <2>1
    <2>3. overtaken \in BOOLEAN /\ ~overtaken
      BY <1>0, Zenon
    <2>4. 0 = 0 + Len(pdu_list) /\ 0 <= 0 + lost /\ 0 <= 0 + 1 /\ 0 <= 0
      BY <2>1
    <2> QED
      BY <2>1, <2>2, <2>3, <2>4 DEF FlightAt
  <1> QED
    BY <1>4, <1>5, <1>6

LEMMA SendBeginsNext ==
    ASSUME NEW CONSTANT m, NEW CONSTANT F, F = StreamFrom(m + 1)
    PROVE  SendIdle(m)' => SendAt(F, 0, m, m)' /\ CountAt(m)' /\ FlightAt(F, 0, 0, 0)'
  <1>1. SendIdle(m) => SendAt(F, 0, m, m) /\ CountAt(m) /\ FlightAt(F, 0, 0, 0)
    BY SendBegins
  <1> QED
    BY <1>1, PTL

LEMMA ReestablishKeeps ==
    ASSUME NEW H, NEW R, NEW K, NEW F, NEW S, NEW B, NEW N, NEW t, UmAt(H, R, K, F, S, B, N, t),
           Reestablish
    PROVE  \E F2, m, R2, out :
              /\ UmAt(0, 0, {}, F2, 0, m, 0, m)' /\ m = Len(written) /\ F2[0][1] = m + 1
              /\ R \in 0..S /\ R2 \in R..S
              /\ Handed(out, F[R][1], F[R2][1]) /\ PdcpWritePdus(PdcpReset, out)
              /\ ~reordering_running => out = << >>
  <1>1. /\ RxAt(H, R, K, F) /\ SendAt(F, S, B, t) /\ CountAt(B) /\ FlightAt(F, S, H, N)
        /\ OutAt(F, R) /\ reestablished \in 0..MaxReestablish /\ S \in Nat /\ InOrderUpTo(F, S)
    BY DEF UmAt, SendAt
  <1>2. /\ reestablished < MaxReestablish /\ reestablished' = reestablished + 1
        /\ next_pdcp_tx_sn' = 0 /\ tx_hfn' = 0 /\ UmRxReestablish(PdcpReset)
        /\ overtaken' = FALSE /\ lost' = 0 /\ written' = written
        /\ tx_sdu_queue' = << >> /\ tx_sdu' = << >> /\ vt_us' = 0 /\ pdu_list' = << >>
    BY DEF Reestablish, UmTxReestablish
  <1>a. PICK m, G : m = Len(written) /\ G = StreamFrom(m + 1)
    OBVIOUS
  <1>3. m \in Nat /\ SdusWritten /\ SdusWritten'
    BY <1>1, <1>2, <1>a, LenProperties DEF CountAt, SdusWritten
  <1>4. G[0][1] = m + 1 /\ G[0][1] \in Nat
    BY <1>3, <1>a, StreamBegins
  <1>5. SendAt(G, 0, m, m)' /\ CountAt(m)' /\ FlightAt(G, 0, 0, 0)'
    <2>1. SendIdle(m)'
      BY <1>2, <1>3, <1>a DEF SendIdle
    <2> QED
      BY <1>a, <2>1, SendBeginsNext
  <1>6. H <= S /\ R \in Nat /\ H \in Nat /\ R <= H
    BY <1>1 DEF FlightAt, RxAt, WindowAt
  <1>7. PICK R2, out : /\ RxAt(0, 0, {}, G)' /\ R2 \in R..H
                       /\ Handed(out, F[R][1], F[R2][1])
                       /\ PdcpWritePdus(PdcpReset, out)
                       /\ ~reordering_running => out = << >>
    BY <1>1, <1>2, <1>4, <1>6, ReestablishStarts
  <1>8. R \in 0..S /\ R2 \in R..S /\ R2 \in 0..S
    BY <1>1, <1>6, <1>7
  <1>9. OutAt(F, R2)'
    <2>1. PdcpReset \in PdcpState
      BY PdcpAssumption DEF PdcpReset, PdcpState
    <2> QED
      BY <1>1, <1>2, <1>7, <1>8, <2>1, OutGoesOn
  <1>10. OutAt(G, 0)'
    <2>a. PICK lo, hi : lo = F[R2][1] /\ hi = G[0][1]
      OBVIOUS
    <2>1. lo \in Nat /\ hi \in Nat /\ lo <= hi
      BY <1>1, <1>4, <1>8, <1>a, <2>a DEF SendAt, InOrderUpTo
    <2>2. rx_st' \in PdcpState /\ OutIs(pdcp_delivered', lo)
      BY <1>9, <2>a DEF OutAt
    <2>3. OutIs(pdcp_delivered', hi)
      BY <2>1, <2>2, OutUpTo
    <2> QED
      BY <2>2, <2>3, <2>a DEF OutAt
  <1>11. UmAt(0, 0, {}, G, 0, m, 0, m)'
    BY <1>1, <1>2, <1>5, <1>7, <1>10, UmBearerAssumption DEF UmAt
  <1> QED
    BY <1>4, <1>7, <1>8, <1>11, <1>a

LEMMA InitAt ==
    ASSUME Init
    PROVE  \E F : UmAt(0, 0, {}, F, 0, 0, 0, 0) /\ F[0][1] = 1
  <1>a. PICK F : F = StreamFrom(0 + 1)
    OBVIOUS
  <1>1. /\ UmRxInit /\ tx_sdu_queue = << >> /\ tx_sdu = << >> /\ vt_us = 0 /\ pdu_list = << >>
        /\ written = << >> /\ next_pdcp_tx_sn = 0 /\ tx_hfn = 0 /\ rx_st = PdcpReset
        /\ pdcp_delivered = << >> /\ overtaken = FALSE /\ lost = 0 /\ reestablished = 0
    BY DEF Init, UmTxInit, PdcpInit
  <1>2. SdusWritten /\ Len(written) = 0
    BY <1>1, EmptySeq, SduAssumption DEF SdusWritten
  <1>3. SendAt(F, 0, 0, 0) /\ CountAt(0) /\ FlightAt(F, 0, 0, 0)
    <2>1. SendIdle(0)
      BY <1>1, <1>2 DEF SendIdle
    <2> QED
      BY <1>a, <2>1, SendBegins
  <1>4. F[0][1] = 1 /\ F[0][1] \in Nat
    BY <1>a, StreamBegins
  <1>5. RxAt(0, 0, {}, F)
    <2>1. UmRxInv
      BY <1>1, InitIsWindow
    <2>2. WindowAt(0, 0, {})
      BY Modulus DEF WindowAt
    <2>3. 0 % UM_MOD = 0
      BY Modulus
    <2>4. HeldPdus(rx_window, F, {})
      <3>1. DOMAIN rx_window = {} /\ Numbers({}) = {}
        BY <1>1 DEF UmRxInit, Numbers
      <3> QED
        BY <3>1 DEF HeldPdus
    <2>5. GoodAt(Members, F, 0, F[0][1])
      <3>a. PICK in, r, lo : in = (0 - 1) % UM_MOD /\ r = Members /\ lo = F[0][1]
        OBVIOUS
      <3>1. 0 \in UmSN
        BY <2>3, NumberType
      <3>2. /\ r \in RxRec /\ r.sdu = << >> /\ r.out = << >>
        BY <1>1, <3>1, <3>a, EmptySeq DEF Members, UmRxInit, RxRec
      <3>3. Handed(<< >>, lo, lo)
        BY <1>4, <3>a, HandedNone
      <3>4. Good(r, F[0], in, lo)
        BY <3>2, <3>3, <3>a DEF Good
      <3> QED
        BY <3>4, <3>a DEF GoodAt
    <2> QED
      BY <1>1, <2>1, <2>2, <2>3, <2>4, <2>5 DEF RxAt, UmRxInit
  <1>6. OutAt(F, 0)
    <2>1. PdcpReset \in PdcpState
      BY PdcpAssumption DEF PdcpReset, PdcpState
    <2>2. OutIs(<< >>, F[0][1])
      BY EmptySeq DEF OutIs
    <2> QED
      BY <1>1, <2>1, <2>2 DEF OutAt
  <1>7. reestablished \in 0..MaxReestablish
    BY <1>1, UmBearerAssumption
  <1> QED
    BY <1>3, <1>4, <1>5, <1>6, <1>7 DEF UmAt

------------------------------------------------------------------------------
(* The bearer implements the service *)

\* Some places and streams account for the whole bearer.
UmInv == \E H, R, K, F, S, B, N, t : UmAt(H, R, K, F, S, B, N, t)

\* A step as the network layers see it.
ServiceStep ==
    Service!Next \/ UNCHANGED <<written, [i \in 1..Len(pdcp_delivered) |-> Place(pdcp_delivered[i])]>>

LEMMA ServiceSeesNothing ==
    ASSUME UNCHANGED <<written, pdcp_delivered>>
    PROVE  ServiceStep
  BY NothingDelivered DEF ServiceStep

LEMMA ServiceSeesDelivery ==
    ASSUME Service!Deliver \/ UNCHANGED <<written, PlacesOf(pdcp_delivered)>>
    PROVE  ServiceStep
  <1>1. PlacesOf(pdcp_delivered) = [i \in 1..Len(pdcp_delivered) |-> Place(pdcp_delivered[i])]
    BY DEF PlacesOf
  <1>2. PlacesOf(pdcp_delivered)' = [i \in 1..Len(pdcp_delivered) |-> Place(pdcp_delivered[i])]'
    BY DEF PlacesOf
  <1> QED
    BY <1>1, <1>2 DEF ServiceStep, Service!Next

(* What comes of PDUs is a step of the service. *)
LEMMA ComesToService ==
    ASSUME NEW H, NEW R, NEW K, NEW F, NEW S, NEW B, NEW N, NEW t, UmAt(H, R, K, F, S, B, N, t),
           written' = written, NEW H2, NEW N2, Comes(H, R, K, F, S, B, t, H2, N2)
    PROVE  UmInv' /\ ServiceStep
  <1>1. /\ SendAt(F, S, B, t) /\ CountAt(B) /\ OutAt(F, R) /\ S \in Nat
        /\ R \in Nat /\ H \in Nat /\ R <= H /\ H <= S
    BY DEF UmAt, SendAt, RxAt, WindowAt, FlightAt
  <1>2. ASSUME NEW R2, NEW K2, UmAt(H2, R2, K2, F, S, B, N2, t)', R <= R2, Passed(F, R, R2)
        PROVE  UmInv' /\ ServiceStep
    <2>1. UmInv'
      BY <1>2 DEF UmInv
    <2>2. R2 \in Nat /\ H2 \in Nat /\ R2 <= H2 /\ H2 <= S
      BY <1>2 DEF UmAt, RxAt, WindowAt, FlightAt
    <2>3. R \in 0..S /\ R2 \in R..S /\ rx_st \in PdcpState
      BY <1>1, <1>2, <2>2 DEF OutAt
    <2>4. PICK out : Handed(out, F[R][1], F[R2][1]) /\ PdcpWritePdus(rx_st, out)
      BY <1>2 DEF Passed
    <2>5. Service!Deliver \/ UNCHANGED <<written, PlacesOf(pdcp_delivered)>>
      BY <1>1, <2>3, <2>4, OutGoesOn
    <2> QED
      BY <2>1, <2>5, ServiceSeesDelivery
  <1>3. ASSUME UmAt(H2, R, K, F, S, B, N2, t)', UNCHANGED <<rx_st, pdcp_delivered>>
        PROVE  UmInv' /\ ServiceStep
    <2>1. UmInv'
      BY <1>3 DEF UmInv
    <2> QED
      BY <1>3, <2>1, ServiceSeesNothing
  <1> QED
    BY <1>2, <1>3 DEF Comes

LEMMA UmStep ==
    ASSUME FewLost, UmInv, [Next]_vars
    PROVE  UmInv' /\ ServiceStep
  <1>1. PICK H, R, K, F, S, B, N, t : UmAt(H, R, K, F, S, B, N, t)
    BY DEF UmInv
  <1>2. CASE Write
    <2>1. UmAt(H, R, K, F, S, B, N, t)' /\ Service!Accept
      BY <1>1, <1>2, WriteKeeps
    <2> QED
      BY <2>1 DEF UmInv, ServiceStep, Service!Next
  <1>3. ASSUME NEW g \in Grants, Read(g)
        PROVE  UmInv' /\ ServiceStep
    <2>1. \E F2, S2, t2 : UmAt(H, R, K, F2, S2, B, N, t2)' /\ F2[R] = F[R]
      BY <1>1, <1>3, ReadKeeps
    <2>2. UNCHANGED <<written, pdcp_delivered>>
      BY <1>3 DEF Read, pdcp_vars
    <2> QED
      BY <2>1, <2>2, ServiceSeesNothing DEF UmInv
  <1>4. CASE Deliver \/ Duplicate \/ Overtake
    <2>1. Given(H, R, K, F, S, B, t)
      BY <1>1, <1>4, GivenKeeps
    <2>2. PICK H2, N2 : Comes(H, R, K, F, S, B, t, H2, N2)
      BY <2>1 DEF Given
    <2>3. written' = written
      BY <1>4 DEF Deliver, Duplicate, Overtake, Receive
    <2> QED
      BY <1>1, <2>2, <2>3, ComesToService
  <1>5. CASE Lose
    <2>1. \E N2 : UmAt(H, R, K, F, S, B, N2, t)'
      BY <1>1, <1>5, LoseKeeps
    <2>2. UNCHANGED <<written, pdcp_delivered>>
      BY <1>5 DEF Lose, pdcp_vars
    <2> QED
      BY <2>1, <2>2, ServiceSeesNothing DEF UmInv
  <1>6. CASE Reordering
    <2>1. Comes(H, R, K, F, S, B, t, H, N)
      BY <1>1, <1>6, ReorderingKeeps
    <2>2. written' = written
      BY <1>6 DEF Reordering
    <2> QED
      BY <1>1, <2>1, <2>2, ComesToService
  <1>7. CASE Reestablish
    <2>1. PICK F2, m, R2, out :
              /\ UmAt(0, 0, {}, F2, 0, m, 0, m)' /\ m = Len(written) /\ F2[0][1] = m + 1
              /\ R \in 0..S /\ R2 \in R..S
              /\ Handed(out, F[R][1], F[R2][1]) /\ PdcpWritePdus(PdcpReset, out)
              /\ ~reordering_running => out = << >>
      BY <1>1, <1>7, ReestablishKeeps
    <2>2. written' = written
      BY <1>7 DEF Reestablish
    <2>3. PdcpReset \in PdcpState
      BY PdcpAssumption DEF PdcpReset, PdcpState
    <2>4. Service!Deliver \/ UNCHANGED <<written, PlacesOf(pdcp_delivered)>>
      BY <1>1, <2>1, <2>2, <2>3, OutGoesOn DEF UmAt
    <2>5. UmInv'
      BY <2>1 DEF UmInv
    <2> QED
      BY <2>4, <2>5, ServiceSeesDelivery
  <1>8. CASE UNCHANGED vars
    <2>1. /\ UNCHANGED um_rx_vars /\ UNCHANGED <<rx_st, pdcp_delivered>>
          /\ UNCHANGED <<tx_sdu_queue, tx_sdu, vt_us, written>>
          /\ UNCHANGED <<written, next_pdcp_tx_sn, tx_hfn>> /\ UNCHANGED <<pdu_list, overtaken, lost>>
          /\ reestablished' = reestablished /\ UNCHANGED <<written, pdcp_delivered>>
      BY <1>8 DEF vars, um_tx_vars, pdcp_vars, mac_vars
    <2>2. /\ RxAt(H, R, K, F) /\ SendAt(F, S, B, t) /\ CountAt(B) /\ FlightAt(F, S, H, N)
          /\ OutAt(F, R) /\ reestablished \in 0..MaxReestablish
      BY <1>1 DEF UmAt
    <2>3. /\ RxAt(H, R, K, F)' /\ SendAt(F, S, B, t)' /\ CountAt(B)' /\ FlightAt(F, S, H, N)'
          /\ OutAt(F, R)'
      BY <2>1, <2>2, RxAtUntouched, SendAtUntouched, CountAtUntouched, FlightAtUntouched, OutAtUntouched
    <2>4. UmAt(H, R, K, F, S, B, N, t)'
      BY <2>1, <2>2, <2>3 DEF UmAt
    <2> QED
      BY <2>1, <2>4, ServiceSeesNothing DEF UmInv
  <1> QED
    BY <1>2, <1>3, <1>4, <1>5, <1>6, <1>7, <1>8 DEF Next

LEMMA UmStarts == Init => UmInv /\ Service!Init
  <1> SUFFICES ASSUME Init PROVE UmInv /\ Service!Init
    OBVIOUS
  <1>1. UmInv
    BY InitAt DEF UmInv
  <1>2. written = << >> /\ pdcp_delivered = << >>
    BY DEF Init, PdcpInit
  <1>3. [i \in 1..Len(pdcp_delivered) |-> Place(pdcp_delivered[i])] = << >>
    <2>a. PICK p : p = [i \in 1..Len(pdcp_delivered) |-> Place(pdcp_delivered[i])]
      OBVIOUS
    <2>1. Len(pdcp_delivered) = 0 /\ 1..0 = {}
      BY <1>2, EmptySeq
    <2>2. DOMAIN p = 1..0 /\ p = [i \in DOMAIN p |-> p[i]] /\ \A i \in 1..0 : p[i] \in Nat
      BY <2>1, <2>a
    <2>3. p \in Seq(Nat) /\ Len(p) = 0
      BY <2>2, IsSeqOf
    <2> QED
      BY <2>3, <2>a, EmptySeq
  <1> QED
    BY <1>1, <1>2, <1>3 DEF Service!Init

(* The variables of the receiver, and the state of the MAC, have their types. *)
LEMMA UmTypes == UmInv => TypeOK
  <1> SUFFICES ASSUME UmInv PROVE TypeOK
    OBVIOUS
  <1>1. PICK H, R, K, F, S, B, N, t : UmAt(H, R, K, F, S, B, N, t)
    BY DEF UmInv
  <1>2. /\ UmRxInv /\ GoodAt(Members, F, R, F[R][1])
        /\ S \in Nat /\ vt_us = S % UM_MOD
        /\ overtaken \in BOOLEAN /\ lost \in 0..MaxLost /\ reestablished \in 0..MaxReestablish
    BY <1>1 DEF UmAt, RxAt, SendAt, FlightAt
  <1>3. Members \in RxRec
    BY <1>2 DEF GoodAt, Good
  <1>4. vr_ur_in_rx_sdu \in UmSN
    BY <1>3 DEF Members, RxRec
  <1> QED
    BY <1>2, <1>4, NumberType DEF TypeOK, UmRxInv

(* rlc_um_lte under PDCP implements LossyDelivery, whatever the lengths of SDUs and
   grants: an SDU comes out whole, after those written before it and once, over losses,
   duplicates, overtaken PDUs, segments held over the wrap of the numbers, expiries of
   the reordering timer and handovers.  The MAC may lose as many PDUs in a row as the
   window has room for. *)
THEOREM UmImplementsService == FewLost => (Spec => ServiceSpec)
  <1> SUFFICES ASSUME FewLost PROVE Spec => ServiceSpec
    OBVIOUS
  <1>1. UmInv /\ [Next]_vars
        => /\ UmInv'
           /\ [Service!Next]_<<written, [i \in 1..Len(pdcp_delivered) |-> Place(pdcp_delivered[i])]>>
    BY UmStep DEF ServiceStep
  <1> QED
    BY <1>1, UmStarts, PTL DEF Spec, ServiceSpec, Service!Spec

(* The same for the types: VT(US), VR(UR), VR(UX), VR(UH) and vr_ur_in_rx_sdu stay sequence
   numbers. *)
THEOREM UmTypeCorrect == FewLost => (Spec => []TypeOK)
  <1> SUFFICES ASSUME FewLost PROVE Spec => []TypeOK
    OBVIOUS
  <1>1. UmInv /\ [Next]_vars => UmInv'
    BY UmStep
  <1> QED
    BY <1>1, UmStarts, UmTypes, PTL DEF Spec

------------------------------------------------------------------------------
(* COUNT *)

LEMMA NextHfn ==
    ASSUME NEW M \in Nat \ {0}, NEW h \in Nat
    PROVE  (h + 1) * M + 0 = (h * M + (M - 1)) + 1
  <1>1. (h + 1) * M = h * M + M /\ h * M \in Nat
    OBVIOUS
  <1> QED
    BY <1>1

\* The COUNT a receiving entity expects.
CountOf(st) == COUNT(st.rx_hfn, st.next_pdcp_rx_sn)

(* It rebuilds the COUNT of an SDU if it is not a round behind, and expects the next. *)
LEMMA HandledInSync ==
    ASSUME NEW st \in PdcpState, NEW y \in Nat, CountOf(st) <= y, y <= CountOf(st) + maximum_pdcp_sn,
           NEW sn, sn = y % (maximum_pdcp_sn + 1)
    PROVE  HandleUmSn(st, sn).count = y /\ CountOf(HandleUmSn(st, sn).st) = y + 1
  <1>a. PICK M, h, n, hfn : /\ M = maximum_pdcp_sn + 1 /\ h = st.rx_hfn /\ n = st.next_pdcp_rx_sn
                            /\ hfn = IF sn < n THEN h + 1 ELSE h
    OBVIOUS
  <1>1. M \in Nat \ {0} /\ maximum_pdcp_sn = M - 1
    BY <1>a, PdcpAssumption
  <1>2. h \in Nat /\ n \in 0..(M - 1)
    BY <1>1, <1>a DEF PdcpState
  <1>3. CountOf(st) = h * M + n
    BY <1>a DEF CountOf, COUNT
  <1>4. h * M + n <= y /\ y < h * M + n + M
    <2>x. PICK x : x = h * M + n
      OBVIOUS
    <2>1. x \in Nat
      BY <1>1, <1>2, <2>x
    <2>2. x <= y /\ y < x + M
      BY <1>1, <1>3, <2>1, <2>x
    <2> QED
      BY <2>2, <2>x
  <1>5. sn = y % M /\ sn \in 0..(M - 1)
    BY <1>1, <1>a, QuotientAndRemainder
  <1>6. y = hfn * M + sn
    <2>1. y = (IF y % M < n THEN h + 1 ELSE h) * M + (y % M)
      BY <1>1, <1>2, <1>4, CountRebuilt
    <2> QED
      BY <1>5, <1>a, <2>1
  <1>7. HandleUmSn(st, sn).count = hfn * M + sn
    BY <1>a DEF HandleUmSn, COUNT
  <1>8. CASE sn + 1 > maximum_pdcp_sn
    <2>1. HandleUmSn(st, sn).st = [next_pdcp_rx_sn |-> 0, rx_hfn |-> hfn + 1]
      BY <1>8, <1>a DEF HandleUmSn
    <2>2. CountOf(HandleUmSn(st, sn).st) = (hfn + 1) * M + 0
      BY <1>a, <2>1 DEF CountOf, COUNT
    <2>3. sn = M - 1 /\ hfn \in Nat
      BY <1>1, <1>2, <1>5, <1>8, <1>a
    <2>4. (hfn + 1) * M + 0 = (hfn * M + sn) + 1
      BY <1>1, <2>3, NextHfn
    <2> QED
      BY <1>6, <1>7, <2>2, <2>4
  <1>9. CASE ~(sn + 1 > maximum_pdcp_sn)
    <2>1. HandleUmSn(st, sn).st = [next_pdcp_rx_sn |-> sn + 1, rx_hfn |-> hfn]
      BY <1>9, <1>a DEF HandleUmSn
    <2>2. CountOf(HandleUmSn(st, sn).st) = hfn * M + (sn + 1)
      BY <1>a, <2>1 DEF CountOf, COUNT
    <2>3. hfn \in Nat /\ sn \in Nat
      BY <1>2, <1>5, <1>a
    <2>4. hfn * M + (sn + 1) = (hfn * M + sn) + 1
      BY <1>1, <2>3
    <2> QED
      BY <1>6, <1>7, <2>2, <2>4
  <1> QED
    BY <1>8, <1>9

------------------------------------------------------------------------------

\* CountInSync of what has been delivered up to some moment.
MissingIn(d, i) ==
    LET id   == Id(d[i])
        last == IF i = 1 THEN 0 ELSE Id(d[i - 1])
    IN IF last > 0 /\ written[id] - written[last] = id - last
       THEN id - last - 1 ELSE written[id]

FewMissing(d, n) == \A j \in 1..n : MissingIn(d, j) <= maximum_pdcp_sn

InSync(d) ==
    \A i \in 1..Len(d) : FewMissing(d, i) => d[i].count = written[Id(d[i])]

LastOf(d) == IF Len(d) = 0 THEN 0 ELSE Id(d[Len(d)])

\* The COUNT that follows that of the last SDU delivered, or the first of the stream.
Follows(d, st, B) ==
    /\ InSync(d)
    /\ FewMissing(d, Len(d)) => CountOf(st) = IF LastOf(d) > B THEN LastOf(d) - B ELSE 0

(* How many are missing does not depend on what comes later. *)
LEMMA MissingBefore ==
    ASSUME NEW d, NEW e, NEW n \in Nat, \A i \in 1..n : e[i] = d[i]
    PROVE  \A i \in 1..n : FewMissing(e, i) <=> FewMissing(d, i)
  <1>1. ASSUME NEW j \in 1..n PROVE MissingIn(e, j) = MissingIn(d, j)
    <2>1. j # 1 => j - 1 \in 1..n
      OBVIOUS
    <2>2. e[j] = d[j] /\ (j # 1 => e[j - 1] = d[j - 1])
      BY <2>1
    <2> QED
      BY <2>2 DEF MissingIn
  <1>2. \A i \in 1..n : \A j \in 1..i : j \in 1..n
    OBVIOUS
  <1> QED
    BY <1>1, <1>2 DEF FewMissing

LEMMA OneArrives ==
    ASSUME NEW B, CountAt(B), NEW acc \in PdcpRec, Follows(acc.out, acc.st, B),
           LastOf(acc.out) \in 0..Len(written), Len(acc.out) > 0 => LastOf(acc.out) > 0,
           NEW id \in 1..Len(written), B < id, LastOf(acc.out) < id,
           NEW acc2, acc2 = HandleUmDrbPdu(acc, SduBytes(id))
    PROVE  Follows(acc2.out, acc2.st, B) /\ LastOf(acc2.out) = id
  <1>a. PICK w, m, d, l, st, last, Mx : /\ w = written /\ m = Len(written) /\ d = acc.out /\ l = Len(acc.out)
                                    /\ st = acc.st /\ last = LastOf(acc.out) /\ Mx = maximum_pdcp_sn
    OBVIOUS
  <1>1. /\ w \in Seq(Nat) /\ m = Len(w) /\ m \in Nat /\ m <= MaxSdus /\ B \in 0..m /\ Mx \in Nat
        /\ \A i \in (B + 1)..m : w[i] = (i - B) - 1
    BY <1>a, LenProperties, PdcpAssumption DEF CountAt, SdusWritten
  <1>2. d \in Seq(PdcpOut) /\ l = Len(d) /\ l \in Nat /\ st \in PdcpState
    BY <1>a, LenProperties DEF PdcpRec
  <1>3. last \in 0..m /\ id \in 1..m /\ B < id /\ last < id /\ (l > 0 => last > 0)
        /\ last = IF l = 0 THEN 0 ELSE Id(d[l])
    BY <1>a DEF LastOf
  <1>y. PICK y, sn, h, o : /\ y = w[id] /\ sn = y % (Mx + 1) /\ h = HandleUmSn(st, sn)
                           /\ o = [sdu |-> SduBytes(id), count |-> h.count]
    OBVIOUS
  <1>4. y \in Nat /\ y = (id - B) - 1
    <2>1. id \in (B + 1)..m
      BY <1>1, <1>3
    <2> QED
      BY <1>1, <1>3, <1>y, <2>1
  <1>5. SduBytes(id)[1][1] = id
    <2>1. id \in 1..MaxSdus
      BY <1>1, <1>3, SduAssumption
    <2> QED
      BY <2>1, PieceIsSdu
  <1>6. acc2.st = h.st /\ acc2.out = Append(d, o)
    <2>1. ReadSn(SduBytes(id)) = sn
      BY <1>5, <1>a, <1>y DEF ReadSn
    <2> QED
      BY <1>a, <1>y, <2>1 DEF HandleUmDrbPdu
  <1>e. PICK e : e = acc2.out
    OBVIOUS
  <1>7. Len(e) = l + 1 /\ (\A i \in 1..l : e[i] = d[i]) /\ e[l + 1] = o
    BY <1>2, <1>6, <1>e
  <1>8. Id(e[l + 1]) = id /\ e[l + 1].count = h.count
    BY <1>5, <1>7, <1>y DEF Id
  <1>9. LastOf(e) = id
    <2>1. Len(e) # 0
      BY <1>2, <1>7
    <2> QED
      BY <1>7, <1>8, <2>1 DEF LastOf
  <1>10. \A i \in 1..l : FewMissing(e, i) <=> FewMissing(d, i)
    BY <1>2, <1>7, MissingBefore
  <1>11. ASSUME FewMissing(e, l + 1)
         PROVE  h.count = y /\ CountOf(h.st) = y + 1
    <2>1. FewMissing(d, l)
      <3>1. FewMissing(e, l)
        BY <1>2, <1>11 DEF FewMissing
      <3>2. CASE l = 0
        <4>1. 1..l = {}
          BY <3>2
        <4> QED
          BY <4>1 DEF FewMissing
      <3>3. CASE l # 0
        <4>1. l \in 1..l
          BY <1>2, <3>3
        <4> QED
          BY <1>10, <3>1, <4>1
      <3> QED
        BY <3>2, <3>3
    <2>x. PICK x : x = CountOf(st)
      OBVIOUS
    <2>2. x = IF last > B THEN last - B ELSE 0
      BY <1>a, <2>1, <2>x DEF Follows
    <2>3. MissingIn(e, l + 1) <= Mx
      <3>1. l + 1 \in 1..(l + 1)
        BY <1>2
      <3> QED
        BY <1>11, <1>a, <3>1 DEF FewMissing
    <2>4. MissingIn(e, l + 1) = IF last > 0 /\ w[id] - w[last] = id - last THEN id - last - 1 ELSE w[id]
      <3>1. last = IF l + 1 = 1 THEN 0 ELSE Id(e[(l + 1) - 1])
        <4>1. CASE l = 0
          BY <1>3, <4>1
        <4>2. CASE l # 0
          <5>1. (l + 1) - 1 = l /\ l \in 1..l /\ l + 1 # 1
            BY <1>2, <4>2
          <5>2. e[l] = d[l] /\ last = Id(d[l])
            BY <1>3, <1>7, <4>2, <5>1
          <5> QED
            BY <5>1, <5>2
        <4> QED
          BY <4>1, <4>2
      <3> QED
        BY <1>8, <1>a, <3>1 DEF MissingIn
    <2>n. /\ B \in Nat /\ last \in Nat /\ id \in Nat /\ Mx \in Nat /\ y \in Nat /\ y = (id - B) - 1
          /\ last < id /\ B < id
      BY <1>1, <1>3, <1>4
    <2>5. x <= y /\ y <= x + Mx
      <3>1. CASE last > B
        <4>1. last \in (B + 1)..m
          BY <1>1, <1>3, <3>1
        <4>2. w[last] = (last - B) - 1
          BY <1>1, <4>1
        <4>3. last > 0 /\ y - w[last] = id - last
          <5>v. PICK v : v = w[last]
            OBVIOUS
          <5>1. v = (last - B) - 1
            BY <4>2, <5>v
          <5>2. last > 0 /\ y - v = id - last
            BY <2>n, <3>1, <5>1
          <5> QED
            BY <5>2, <5>v
        <4>4. id - last - 1 <= Mx
          BY <1>y, <2>3, <2>4, <4>3
        <4> QED
          <5>1. x = last - B
            BY <2>2, <3>1
          <5> QED
            BY <2>n, <3>1, <4>4, <5>1
      <3>2. CASE ~(last > B)
        <4>1. y <= Mx
          <5>1. CASE last = 0
            <6>1. ~(last > 0)
              BY <5>1
            <6> QED
              BY <1>y, <2>3, <2>4, <6>1
          <5>2. CASE last # 0
            <6>v. PICK v : v = w[last]
              OBVIOUS
            <6>1. last \in 1..m
              BY <1>3, <5>2
            <6>2. v \in Nat
              BY <1>1, <6>1, <6>v
            <6>3. y - v # id - last
              BY <1>1, <1>3, <1>4, <3>2, <6>2
            <6> QED
              BY <1>y, <2>3, <2>4, <6>3, <6>v
          <5> QED
            BY <5>1, <5>2
        <4>2. x = 0
          BY <2>2, <3>2
        <4> QED
          BY <1>1, <1>4, <4>1, <4>2
      <3> QED
        BY <3>1, <3>2
    <2> QED
      BY <1>2, <1>4, <1>a, <1>y, <2>5, <2>x, HandledInSync
  <1>12. InSync(e)
    <2>1. ASSUME NEW i \in 1..(l + 1), FewMissing(e, i)
          PROVE  e[i].count = w[Id(e[i])]
      <3>1. CASE i = l + 1
        <4>1. FewMissing(e, l + 1)
          BY <2>1, <3>1
        <4>2. h.count = y
          BY <1>11, <4>1
        <4> QED
          BY <1>8, <1>y, <3>1, <4>2
      <3>2. CASE i # l + 1
        <4>1. i \in 1..l
          BY <1>2, <3>2
        <4>2. FewMissing(d, i) /\ InSync(d)
          BY <1>10, <1>a, <2>1, <4>1 DEF Follows
        <4>3. d[i].count = w[Id(d[i])]
          BY <1>2, <1>a, <4>1, <4>2 DEF InSync
        <4> QED
          BY <1>7, <4>1, <4>3
      <3> QED
        BY <3>1, <3>2
    <2> QED
      BY <1>7, <1>a, <2>1 DEF InSync
  <1>13. ASSUME FewMissing(e, Len(e))
         PROVE  CountOf(acc2.st) = IF LastOf(e) > B THEN LastOf(e) - B ELSE 0
    <2>1. CountOf(acc2.st) = y + 1
      BY <1>6, <1>7, <1>11, <1>13
    <2>2. y + 1 = id - B
      BY <1>1, <1>3, <1>4
    <2> QED
      BY <1>3, <1>9, <2>1, <2>2
  <1>14. Follows(e, acc2.st, B)
    BY <1>12, <1>13 DEF Follows
  <1> QED
    BY <1>9, <1>14, <1>e

------------------------------------------------------------------------------
(* COUNT over the steps of the bearer *)

(* SDUs that arrive one after the other are counted as they were. *)
LEMMA AllArrive ==
    ASSUME NEW B, CountAt(B), NEW lo \in Nat, NEW hi \in Nat, B < lo, hi <= Len(written) + 1,
           NEW st \in PdcpState, NEW old, old = pdcp_delivered, OutIs(old, lo), lo <= Len(written) + 1,
           Follows(old, st, B), NEW out, Handed(out, lo, hi),
           NEW acc, acc = Received(st, out)
    PROVE  Follows(acc.out, acc.st, B)
  <1>a. PICK n, m : n = Len(out) /\ m = Len(written)
    OBVIOUS
  <1>1. SdusWritten /\ m \in Nat /\ m <= MaxSdus /\ B \in Nat
    BY <1>a, LenProperties DEF CountAt, SdusWritten
  <1>2. /\ out \in Seq(Seq(SduByte)) /\ n \in Nat
        /\ \A i \in 1..n : out[i] = SduBytes(out[i][1][1]) /\ out[i][1][1] \in lo..(hi - 1)
        /\ \A i \in 1..n, j \in 1..n : i < j => out[i][1][1] < out[j][1][1]
    BY <1>a, LenProperties DEF Handed
  <1>b. PICK id : id = [i \in 1..n |-> out[i][1][1]]
    OBVIOUS
  <1>3. \A i \in 1..n : /\ id[i] \in 1..m /\ B < id[i] /\ lo <= id[i] /\ out[i] = SduBytes(id[i])
    <2> TAKE i \in 1..n
    <2>1. id[i] = out[i][1][1] /\ id[i] \in lo..(hi - 1)
      BY <1>2, <1>b
    <2>2. id[i] \in 1..m /\ B < id[i] /\ lo <= id[i]
      BY <1>1, <1>a, <2>1
    <2> QED
      BY <1>2, <2>1, <2>2
  <1>4. \A i \in 1..n, j \in 1..n : i < j => id[i] < id[j]
    BY <1>2, <1>b
  <1>5. out \in Seq(WholeSdus)
    <2>1. \A i \in 1..n : out[i] \in WholeSdus
      BY <1>3, <1>a DEF WholeSdus
    <2>2. DOMAIN out = 1..n /\ out = [i \in DOMAIN out |-> out[i]]
      BY <1>2, <1>a, LenProperties
    <2> QED
      BY <1>2, <2>1, <2>2, IsSeqOf
  <1>c. PICK base : base = PdcpAt(st)
    OBVIOUS
  <1>6. base.st = st /\ base.out = old /\ base \in PdcpRec
    BY <1>c DEF PdcpAt, PdcpRec, OutIs
  <1>7. PICK f \in [0..n -> PdcpRec] :
            /\ f[0] = base /\ f[n] = acc
            /\ \A i \in 1..n : f[i] = HandleUmDrbPdu(f[i - 1], out[i])
    <2>1. \E f \in [0..n -> PdcpRec] :
            /\ f[0] = base /\ f[n] = Received(st, out)
            /\ \A i \in 1..n : f[i] = HandleUmDrbPdu(f[i - 1], out[i])
      BY <1>1, <1>5, <1>6, <1>a, <1>c, ReceivedSteps, SMTT(60)
    <2> QED
      BY <2>1
  <1>8. /\ LastOf(old) \in 0..m /\ (Len(old) > 0 => LastOf(old) > 0)
        /\ LastOf(old) < lo \/ LastOf(old) = 0
    <2>l. PICK l, last : l = Len(old) /\ last = LastOf(old)
      OBVIOUS
    <2>1. l \in Nat /\ \A i \in 1..l : Id(old[i]) \in 1..(lo - 1)
      BY <2>l, LenProperties DEF OutIs
    <2>2. CASE l = 0
      <3>1. last = 0
        BY <2>2, <2>l DEF LastOf
      <3> QED
        BY <1>1, <2>2, <2>l, <3>1
    <2>3. CASE l # 0
      <3>1. l \in 1..l
        BY <2>1, <2>3
      <3>2. last = Id(old[l])
        BY <2>3, <2>l DEF LastOf
      <3>3. last \in 1..(lo - 1)
        BY <2>1, <3>1, <3>2
      <3>4. last \in 0..m /\ last > 0 /\ last < lo
        BY <1>1, <1>a, <3>3
      <3> QED
        BY <2>l, <3>4
    <2> QED
      BY <2>2, <2>3
  <1> DEFINE Ok(k) == Follows(f[k].out, f[k].st, B) /\ LastOf(f[k].out) = id[k]
             T == {k \in 1..n : Ok(k)}
  <1>9. ASSUME NEW k \in 1..n, NEW g, g = f[k - 1], Follows(g.out, g.st, B),
               LastOf(g.out) \in 0..m, Len(g.out) > 0 => LastOf(g.out) > 0, LastOf(g.out) < id[k]
        PROVE  k \in T
    <2>1. g \in PdcpRec
      <3>1. k - 1 \in 0..n
        BY <1>2
      <3> QED
        BY <1>7, <1>9, <3>1
    <2>i. PICK j, h : j = id[k] /\ h = f[k]
      OBVIOUS
    <2>2. j \in 1..Len(written) /\ B < j /\ out[k] = SduBytes(j) /\ LastOf(g.out) < j
      BY <1>3, <1>9, <1>a, <2>i
    <2>3. h = HandleUmDrbPdu(g, SduBytes(j))
      BY <1>7, <1>9, <2>2, <2>i
    <2>4. LastOf(g.out) \in 0..Len(written)
      BY <1>9, <1>a
    <2>5. Follows(h.out, h.st, B) /\ LastOf(h.out) = j
      BY <1>9, <2>1, <2>2, <2>3, <2>4, OneArrives
    <2> QED
      BY <2>5, <2>i
  <1>10. n > 0 => 1 \in T
    <2> SUFFICES ASSUME n > 0 PROVE 1 \in T
      OBVIOUS
    <2>1. 1 \in 1..n /\ 1 - 1 = 0
      BY <1>2
    <2>2. f[1 - 1] = base
      BY <1>7, <2>1
    <2>3. LastOf(old) < id[1]
      <3>1. lo <= id[1] /\ id[1] \in 1..m
        BY <1>3, <2>1
      <3> QED
        BY <1>8, <3>1
    <2> HIDE DEF T
    <2> QED
      BY <1>6, <1>8, <1>9, <2>1, <2>2, <2>3
  <1>11. ASSUME NEW k \in 1..(n - 1), k \in T PROVE k + 1 \in T
    <2>1. k + 1 \in 1..n /\ (k + 1) - 1 = k /\ k \in 1..n /\ k < k + 1
      BY <1>2
    <2>g. PICK g : g = f[k]
      OBVIOUS
    <2>2. Follows(g.out, g.st, B) /\ LastOf(g.out) = id[k]
      BY <1>11, <2>g
    <2>3. id[k] \in 1..m /\ id[k] < id[k + 1]
      BY <1>3, <1>4, <2>1
    <2>4. LastOf(g.out) \in 0..m /\ LastOf(g.out) > 0 /\ LastOf(g.out) < id[k + 1]
      BY <2>2, <2>3
    <2>5. g = f[(k + 1) - 1]
      BY <2>1, <2>g
    <2> HIDE DEF T
    <2> QED
      BY <1>9, <2>1, <2>2, <2>4, <2>5
  <1>12. \A i \in 1..n : i \in T
    <2> HIDE DEF T
    <2> QED
      BY <1>2, <1>10, <1>11, UpTo
  <1>13. CASE n = 0
    <2>1. acc = base
      BY <1>7, <1>13
    <2> QED
      BY <1>6, <2>1
  <1>14. CASE n # 0
    <2>1. n \in 1..n
      BY <1>2, <1>14
    <2>2. n \in T
      BY <1>12, <2>1
    <2> QED
      BY <1>7, <2>2
  <1> QED
    BY <1>13, <1>14

(* The COUNTs of SDUs written do not change. *)
LEMMA FollowsAgain ==
    ASSUME NEW d, NEW st, NEW B, NEW m \in Nat, \A i \in 1..m : written'[i] = written[i],
           \A i \in 1..Len(d) : Id(d[i]) \in 1..m, Len(d) \in Nat, Follows(d, st, B)
    PROVE  Follows(d, st, B)'
  <1>l. PICK l : l = Len(d)
    OBVIOUS
  <1>1. \A i \in 1..l : written'[Id(d[i])] = written[Id(d[i])]
    BY <1>l
  <1>2. \A i \in 1..l : MissingIn(d, i)' = MissingIn(d, i)
    <2> TAKE i \in 1..l
    <2>1. CASE i = 1
      BY <1>1, <2>1 DEF MissingIn, Id
    <2>2. CASE i # 1
      <3>1. i - 1 \in 1..l
        BY <1>l, <2>2
      <3>2. written'[Id(d[i - 1])] = written[Id(d[i - 1])] /\ written'[Id(d[i])] = written[Id(d[i])]
        BY <1>1, <3>1
      <3> QED
        BY <3>2 DEF MissingIn, Id
    <2> QED
      BY <2>1, <2>2
  <1>3. \A i \in 1..l : \A j \in 1..i : j \in 1..l
    BY <1>l
  <1>4. \A i \in 1..l : FewMissing(d, i)' <=> FewMissing(d, i)
    BY <1>2, <1>3 DEF FewMissing
  <1>5. FewMissing(d, l)' <=> FewMissing(d, l)
    BY <1>2 DEF FewMissing
  <1>6. InSync(d)' <=> InSync(d)
    BY <1>1, <1>4, <1>l DEF InSync, Id
  <1>7. LastOf(d)' = LastOf(d) /\ CountOf(st)' = CountOf(st)
    BY DEF LastOf, CountOf, Id, COUNT
  <1> QED
    BY <1>5, <1>6, <1>7, <1>l DEF Follows

\* The receiving entity expects the COUNT after that of the last SDU it delivered.
Counts(B) == Follows(pdcp_delivered, rx_st, B)

LEMMA CountsNext ==
    ASSUME NEW B, NEW d, NEW st, pdcp_delivered' = d, rx_st' = st, Follows(d, st, B),
           NEW hi \in Nat, OutIs(d, hi), NEW m \in Nat, hi <= m + 1,
           \A i \in 1..m : written'[i] = written[i]
    PROVE  Counts(B)'
  <1>l. PICK l : l = Len(d)
    OBVIOUS
  <1>1. l \in Nat /\ \A i \in 1..l : Id(d[i]) \in 1..(hi - 1)
    BY <1>l, LenProperties DEF OutIs
  <1>2. \A i \in 1..l : Id(d[i]) \in 1..m
    <2> TAKE i \in 1..l
    <2>x. PICK x : x = Id(d[i])
      OBVIOUS
    <2>1. x \in 1..(hi - 1)
      BY <1>1, <2>x
    <2>2. x \in 1..m
      BY <2>1
    <2> QED
      BY <2>2, <2>x
  <1>3. Follows(d, st, B)'
    BY <1>1, <1>2, <1>l, FollowsAgain
  <1> QED
    BY <1>3 DEF Counts, Follows, InSync, FewMissing, MissingIn, LastOf, CountOf, Id, COUNT

LEMMA CountsKept ==
    ASSUME NEW H, NEW R, NEW K, NEW F, NEW S, NEW B, NEW N, NEW t, UmAt(H, R, K, F, S, B, N, t),
           Counts(B), UNCHANGED <<rx_st, pdcp_delivered>>,
           \A i \in 1..Len(written) : written'[i] = written[i]
    PROVE  Counts(B)'
  <1>a. PICK d, st, hi, m : /\ d = pdcp_delivered /\ st = rx_st /\ hi = F[R][1] /\ m = Len(written)
    OBVIOUS
  <1>1. R \in 0..S /\ m \in Nat
    BY <1>a, LenProperties DEF UmAt, SendAt, CountAt, SdusWritten, RxAt, WindowAt, FlightAt
  <1>2. hi \in Nat /\ hi <= m + 1 /\ OutIs(d, hi)
    BY <1>1, <1>a DEF UmAt, SendAt, InOrderUpTo, OutAt
  <1>3. Follows(d, st, B) /\ pdcp_delivered' = d /\ rx_st' = st
    BY <1>a DEF Counts
  <1>4. \A i \in 1..m : written'[i] = written[i]
    BY <1>a
  <1> QED
    BY <1>1, <1>2, <1>3, <1>4, CountsNext

(* SDUs that come of PDUs are counted as they were. *)
LEMMA CountsCome ==
    ASSUME NEW H, NEW R, NEW K, NEW F, NEW S, NEW B, NEW N, NEW t, UmAt(H, R, K, F, S, B, N, t),
           Counts(B), written' = written, NEW H2, NEW N2, Comes(H, R, K, F, S, B, t, H2, N2)
    PROVE  \E R2, K2 : UmAt(H2, R2, K2, F, S, B, N2, t)' /\ Counts(B)'
  <1>1. /\ SendAt(F, S, B, t) /\ CountAt(B) /\ OutAt(F, R) /\ S \in Nat
        /\ R \in Nat /\ H \in Nat /\ R <= H /\ H <= S
    BY DEF UmAt, SendAt, RxAt, WindowAt, FlightAt
  <1>2. ASSUME NEW R2, NEW K2, UmAt(H2, R2, K2, F, S, B, N2, t)', R <= R2, Passed(F, R, R2)
        PROVE  Counts(B)'
    <2>1. R2 \in Nat /\ H2 \in Nat /\ R2 <= H2 /\ H2 <= S /\ OutAt(F, R2)'
      BY <1>2 DEF UmAt, RxAt, WindowAt, FlightAt
    <2>2. R \in 0..S /\ R2 \in 0..S
      BY <1>1, <1>2, <2>1
    <2>3. PICK out : Handed(out, F[R][1], F[R2][1]) /\ PdcpWritePdus(rx_st, out)
      BY <1>2 DEF Passed
    <2>a. PICK lo, hi, m, old, st, acc, d, st2 :
              /\ lo = F[R][1] /\ hi = F[R2][1] /\ m = Len(written) /\ old = pdcp_delivered /\ st = rx_st
              /\ acc = Received(st, out) /\ d = pdcp_delivered' /\ st2 = rx_st'
      OBVIOUS
    <2>4. m \in Nat /\ B < lo /\ lo \in Nat /\ hi \in Nat /\ lo <= m + 1 /\ hi <= m + 1
      BY <1>1, <2>2, <2>a, LenProperties DEF SendAt, InOrderUpTo, CountAt, SdusWritten
    <2>5. st \in PdcpState /\ OutIs(old, lo) /\ Follows(old, st, B) /\ Handed(out, lo, hi)
      BY <1>1, <2>3, <2>a DEF OutAt, Counts
    <2>6. Follows(acc.out, acc.st, B)
      BY <1>1, <2>4, <2>5, <2>a, AllArrive
    <2>7. d = acc.out /\ st2 = acc.st
      BY <2>3, <2>a DEF PdcpWritePdus
    <2>8. Follows(d, st2, B) /\ OutIs(d, hi)
      BY <2>1, <2>6, <2>7, <2>a DEF OutAt
    <2>9. \A i \in 1..m : written'[i] = written[i]
      OBVIOUS
    <2> QED
      BY <2>4, <2>8, <2>9, <2>a, CountsNext
  <1>3. ASSUME UmAt(H2, R, K, F, S, B, N2, t)', UNCHANGED <<rx_st, pdcp_delivered>>
        PROVE  Counts(B)'
    BY <1>3, CountsKept
  <1> QED
    BY <1>2, <1>3 DEF Comes

(* A handover while the reordering timer does not run passes nothing on: both entities
   are at COUNT 0. *)
LEMMA CountsRestart ==
    ASSUME NEW H, NEW R, NEW K, NEW F, NEW S, NEW B, NEW N, NEW t, UmAt(H, R, K, F, S, B, N, t),
           Counts(B), written' = written, PdcpWritePdus(PdcpReset, << >>), NEW m, m = Len(written)
    PROVE  Counts(m)'
  <1>a. PICK d, hi, base, acc : /\ d = pdcp_delivered /\ hi = F[R][1]
                                /\ base = PdcpAt(PdcpReset) /\ acc = Received(PdcpReset, << >>)
    OBVIOUS
  <1>1. R \in 0..S /\ m \in Nat /\ SdusWritten
    <2>1. SdusWritten /\ m \in Nat
      BY LenProperties DEF UmAt, CountAt, SdusWritten
    <2>2. S \in Nat /\ H \in Nat /\ H <= S
      BY DEF UmAt, SendAt, FlightAt
    <2>3. R \in Nat /\ R <= H
      BY DEF UmAt, RxAt, WindowAt
    <2> QED
      BY <2>1, <2>2, <2>3
  <1>2. hi \in Nat /\ hi <= m + 1 /\ OutIs(d, hi)
    BY <1>1, <1>a DEF UmAt, SendAt, InOrderUpTo, OutAt
  <1>3. PdcpReset \in PdcpState /\ CountOf(PdcpReset) = 0
    BY PdcpAssumption DEF PdcpReset, PdcpState, CountOf, COUNT
  <1>4. base.st = PdcpReset /\ base.out = d /\ base \in PdcpRec
    BY <1>2, <1>3, <1>a DEF PdcpAt, PdcpRec, OutIs
  <1>5. acc = base
    <2>c. PICK st, out, n : st = PdcpReset /\ out = << >> /\ n = 0
      OBVIOUS
    <2>1. out \in Seq(WholeSdus) /\ n = Len(out) /\ base = PdcpAt(st)
      BY <1>a, <2>c, EmptySeq
    <2>2. \E f \in [0..n -> PdcpRec] :
            /\ f[0] = base /\ f[n] = Received(st, out)
            /\ \A i \in 1..n : f[i] = HandleUmDrbPdu(f[i - 1], out[i])
      BY <1>1, <1>4, <2>1, ReceivedSteps, SMTT(60)
    <2>3. base = Received(st, out)
      BY <2>2, <2>c
    <2> QED
      BY <1>a, <2>3, <2>c
  <1>6. pdcp_delivered' = d /\ rx_st' = PdcpReset
    BY <1>4, <1>5, <1>a DEF PdcpWritePdus
  <1>7. Follows(d, PdcpReset, m)
    <2>l. PICK l, last : l = Len(d) /\ last = LastOf(d)
      OBVIOUS
    <2>1. l \in Nat /\ \A i \in 1..l : Id(d[i]) \in 1..(hi - 1)
      BY <1>2, <2>l, LenProperties DEF OutIs
    <2>2. ~(last > m)
      <3>1. CASE l = 0
        BY <1>1, <2>l, <3>1 DEF LastOf
      <3>2. CASE l # 0
        <4>1. l \in 1..l
          BY <2>1, <3>2
        <4>2. last \in 1..(hi - 1)
          BY <2>1, <2>l, <3>2, <4>1 DEF LastOf
        <4> QED
          BY <1>1, <1>2, <4>2
      <3> QED
        BY <3>1, <3>2
    <2>3. InSync(d)
      BY <1>a DEF Counts, Follows
    <2> QED
      BY <1>3, <2>2, <2>3, <2>l DEF Follows
  <1>8. \A i \in 1..m : written'[i] = written[i]
    OBVIOUS
  <1> QED
    BY <1>1, <1>2, <1>6, <1>7, <1>8, CountsNext

UmSyncInv == \E H, R, K, F, S, B, N, t : UmAt(H, R, K, F, S, B, N, t) /\ Counts(B)

LEMMA SyncStarts == Init => UmSyncInv
  <1> SUFFICES ASSUME Init PROVE UmSyncInv
    OBVIOUS
  <1>1. PICK F : UmAt(0, 0, {}, F, 0, 0, 0, 0)
    BY InitAt
  <1>2. pdcp_delivered = << >> /\ rx_st = PdcpReset
    BY DEF Init, PdcpInit
  <1>3. Counts(0)
    <2>1. CountOf(PdcpReset) = 0
      BY PdcpAssumption DEF PdcpReset, CountOf, COUNT
    <2>2. Len(<< >>) = 0 /\ 1..0 = {}
      BY EmptySeq
    <2>3. InSync(<< >>) /\ LastOf(<< >>) = 0
      BY <2>2 DEF InSync, LastOf
    <2> QED
      BY <1>2, <2>1, <2>3 DEF Counts, Follows
  <1> QED
    BY <1>1, <1>3 DEF UmSyncInv

LEMMA SyncStep ==
    ASSUME FewLost, ~ReestablishAnyTime, UmSyncInv, [Next]_vars
    PROVE  UmSyncInv'
  <1>1. PICK H, R, K, F, S, B, N, t : UmAt(H, R, K, F, S, B, N, t) /\ Counts(B)
    BY DEF UmSyncInv
  <1>w. ASSUME written' = written PROVE \A i \in 1..Len(written) : written'[i] = written[i]
    BY <1>w
  <1>2. CASE Write
    <2>1. UmAt(H, R, K, F, S, B, N, t)'
      BY <1>1, <1>2, WriteKeeps
    <2>2. /\ UNCHANGED <<rx_st, pdcp_delivered>>
          /\ \E count : written' = Append(written, count)
      BY <1>2 DEF Write, PdcpWriteSdu
    <2>3. \A i \in 1..Len(written) : written'[i] = written[i]
      <3>1. written \in Seq(Nat)
        BY <1>1 DEF UmAt, CountAt, SdusWritten
      <3> QED
        BY <2>2, <3>1
    <2>4. Counts(B)'
      BY <1>1, <2>2, <2>3, CountsKept
    <2> QED
      BY <2>1, <2>4 DEF UmSyncInv
  <1>3. ASSUME NEW g \in Grants, Read(g)
        PROVE  UmSyncInv'
    <2>1. \E F2, S2, t2 : UmAt(H, R, K, F2, S2, B, N, t2)' /\ F2[R] = F[R]
      BY <1>1, <1>3, ReadKeeps
    <2>2. UNCHANGED <<rx_st, pdcp_delivered>> /\ written' = written
      BY <1>3 DEF Read, pdcp_vars
    <2>3. Counts(B)'
      BY <1>1, <1>w, <2>2, CountsKept
    <2> QED
      BY <2>1, <2>3 DEF UmSyncInv
  <1>4. CASE Deliver \/ Duplicate \/ Overtake
    <2>1. Given(H, R, K, F, S, B, t)
      BY <1>1, <1>4, GivenKeeps
    <2>2. PICK H2, N2 : Comes(H, R, K, F, S, B, t, H2, N2)
      BY <2>1 DEF Given
    <2>3. written' = written
      BY <1>4 DEF Deliver, Duplicate, Overtake, Receive
    <2>4. \E R2, K2 : UmAt(H2, R2, K2, F, S, B, N2, t)' /\ Counts(B)'
      BY <1>1, <2>2, <2>3, CountsCome
    <2> QED
      BY <2>4 DEF UmSyncInv
  <1>5. CASE Lose
    <2>1. \E N2 : UmAt(H, R, K, F, S, B, N2, t)'
      BY <1>1, <1>5, LoseKeeps
    <2>2. UNCHANGED <<rx_st, pdcp_delivered>> /\ written' = written
      BY <1>5 DEF Lose, pdcp_vars
    <2>3. Counts(B)'
      BY <1>1, <1>w, <2>2, CountsKept
    <2> QED
      BY <2>1, <2>3 DEF UmSyncInv
  <1>6. CASE Reordering
    <2>1. Comes(H, R, K, F, S, B, t, H, N)
      BY <1>1, <1>6, ReorderingKeeps
    <2>2. written' = written
      BY <1>6 DEF Reordering
    <2>3. \E R2, K2 : UmAt(H, R2, K2, F, S, B, N, t)' /\ Counts(B)'
      BY <1>1, <2>1, <2>2, CountsCome
    <2> QED
      BY <2>3 DEF UmSyncInv
  <1>7. CASE Reestablish
    <2>1. PICK F2, m, R2, out :
              /\ UmAt(0, 0, {}, F2, 0, m, 0, m)' /\ m = Len(written) /\ F2[0][1] = m + 1
              /\ R \in 0..S /\ R2 \in R..S
              /\ Handed(out, F[R][1], F[R2][1]) /\ PdcpWritePdus(PdcpReset, out)
              /\ ~reordering_running => out = << >>
      BY <1>1, <1>7, ReestablishKeeps
    <2>2. written' = written /\ ~reordering_running
      BY <1>7 DEF Reestablish
    <2>3. PdcpWritePdus(PdcpReset, << >>)
      BY <2>1, <2>2
    <2>4. Counts(m)'
      BY <1>1, <2>1, <2>2, <2>3, CountsRestart
    <2> QED
      BY <2>1, <2>4 DEF UmSyncInv
  <1>8. CASE UNCHANGED vars
    <2>1. /\ UNCHANGED um_rx_vars /\ UNCHANGED <<rx_st, pdcp_delivered>>
          /\ UNCHANGED <<tx_sdu_queue, tx_sdu, vt_us, written>>
          /\ UNCHANGED <<written, next_pdcp_tx_sn, tx_hfn>> /\ UNCHANGED <<pdu_list, overtaken, lost>>
          /\ reestablished' = reestablished /\ written' = written
      BY <1>8 DEF vars, um_tx_vars, pdcp_vars, mac_vars
    <2>2. /\ RxAt(H, R, K, F) /\ SendAt(F, S, B, t) /\ CountAt(B) /\ FlightAt(F, S, H, N)
          /\ OutAt(F, R) /\ reestablished \in 0..MaxReestablish
      BY <1>1 DEF UmAt
    <2>3. /\ RxAt(H, R, K, F)' /\ SendAt(F, S, B, t)' /\ CountAt(B)' /\ FlightAt(F, S, H, N)'
          /\ OutAt(F, R)'
      BY <2>1, <2>2, RxAtUntouched, SendAtUntouched, CountAtUntouched, FlightAtUntouched, OutAtUntouched
    <2>4. UmAt(H, R, K, F, S, B, N, t)'
      BY <2>1, <2>2, <2>3 DEF UmAt
    <2>5. Counts(B)'
      BY <1>1, <1>w, <2>1, CountsKept
    <2> QED
      BY <2>4, <2>5 DEF UmSyncInv
  <1> QED
    BY <1>2, <1>3, <1>4, <1>5, <1>6, <1>7, <1>8 DEF Next

LEMMA SyncIsCountInSync == UmSyncInv => CountInSync
  <1> SUFFICES ASSUME UmSyncInv PROVE CountInSync
    OBVIOUS
  <1>1. InSync(pdcp_delivered)
    BY DEF UmSyncInv, Counts, Follows
  <1>2. \A i : MissingIn(pdcp_delivered, i) = Missing(i)
    BY DEF MissingIn, Missing
  <1> QED
    BY <1>1, <1>2 DEF InSync, FewMissing, CountInSync

(* Every SDU that comes out is deciphered with the COUNT it was ciphered with, for every
   length of PDCP SN, window, SDUs and grants, as long as no handover falls into a running
   reordering timer and fewer SDUs are missing in a row than there are SNs. *)
THEOREM CountsStayInSync ==
    FewLost /\ ~ReestablishAnyTime => (Spec => []CountInSync)
  <1> SUFFICES ASSUME FewLost, ~ReestablishAnyTime PROVE Spec => []CountInSync
    OBVIOUS
  <1>1. UmSyncInv /\ [Next]_vars => UmSyncInv'
    BY SyncStep
  <1> QED
    BY <1>1, SyncStarts, SyncIsCountInSync, PTL DEF Spec

------------------------------------------------------------------------------
(* What has arrived *)

\* Bytes A of the stream after B have arrived: none from place H on, none of a PDU
\* without its first one, and none of the places missing from R on.
ArrivedAt(A, H, R, K, F, S, B) ==
    /\ A \subseteq SduByte
    /\ \A b \in A : B < b[1] => Pos(b) < Pos(F[H])
    /\ \A d \in 0..(S - 1) : \A b \in PlaceBytes(F, d) : b \in A => F[d] \in A
    /\ \A d \in R..(H - 1) : d \notin K => F[d] \notin A

\* The bytes that a PDU at place c adds, and those of PDUs held below the window that goes.
AfterPdu(A, F, K, c, H2) ==
    (A \cup PlaceBytes(F, c)) \ UNION {PlaceBytes(F, d) : d \in {k \in K : k + UM_WINDOW < H2}}

\* A PDU of place c is taken: VR(UH) and VR(UR) move up to H2 and R2.
PlaceTaken(H, R, K, H2, R2, K2, F, S, B, A, A2, c) ==
    /\ WindowAt(H, R, K) /\ S \in Nat /\ PlacesRise(F, S) /\ B \in Nat
    /\ \A d \in 0..S : B < F[d][1]
    /\ ArrivedAt(A, H, R, K, F, S, B)
    /\ c \in Nat /\ R <= c /\ c \notin K /\ H2 = HighAfter(H, c) /\ H2 <= S
    /\ F[c] \in SduByte /\ A2 = AfterPdu(A, F, K, c, H2)
    /\ R2 \in Nat /\ R <= R2 /\ R2 <= H2 /\ R2 \notin K \cup {c}
    /\ K2 = {d \in K \cup {c} : R2 < d}

(* What has arrived then. *)
LEMMA PduArrives ==
    ASSUME NEW H, NEW R, NEW K, NEW H2, NEW R2, NEW K2, NEW F, NEW S, NEW B, NEW A, NEW A2, NEW c,
           PlaceTaken(H, R, K, H2, R2, K2, F, S, B, A, A2, c)
    PROVE  /\ ArrivedAt(A2, H2, R2, K2, F, S, B)
           /\ \A d \in R..(H2 - 1) : d + UM_WINDOW < H2 => F[d] \notin A2
           /\ \A d \in 0..(R - 1) : F[d] \in A2 => F[d] \in A
           /\ \A b \in SduByte : b[1] <= B => (b \in A2 <=> b \in A)
  <1> SUFFICES ASSUME WindowAt(H, R, K), S \in Nat, PlacesRise(F, S), B \in Nat,
                      \A d \in 0..S : B < F[d][1], ArrivedAt(A, H, R, K, F, S, B),
                      c \in Nat, R <= c, c \notin K, H2 = HighAfter(H, c), H2 <= S,
                      F[c] \in SduByte, A2 = AfterPdu(A, F, K, c, H2),
                      R2 \in Nat, R <= R2, R2 <= H2, R2 \notin K \cup {c},
                      K2 = {d \in K \cup {c} : R2 < d}
               PROVE  /\ ArrivedAt(A2, H2, R2, K2, F, S, B)
                      /\ \A d \in R..(H2 - 1) : d + UM_WINDOW < H2 => F[d] \notin A2
                      /\ \A d \in 0..(R - 1) : F[d] \in A2 => F[d] \in A
                      /\ \A b \in SduByte : b[1] <= B => (b \in A2 <=> b \in A)
    BY DEF PlaceTaken
  <1> PICK W, Low : W = UM_WINDOW /\ Low = UNION {PlaceBytes(F, d) : d \in {k \in K : k + UM_WINDOW < H2}}
    OBVIOUS
  <1>1. /\ H \in Nat /\ R \in Nat /\ R <= H /\ H <= R + W /\ K \in SUBSET Nat
        /\ \A d \in K : R < d /\ d < H
        /\ W \in Nat \ {0}
    BY Modulus DEF WindowAt
  <1>2. /\ H2 \in Nat /\ H <= H2 /\ c < H2 /\ H2 <= c + W
        /\ H2 = H \/ H2 = c + 1
    BY <1>1 DEF HighAfter
  <1>3. c \in 0..(S - 1) /\ c \in 0..S /\ c + 1 \in c..S /\ H \in 0..S /\ H2 \in H..S /\ c + 1 \in 0..H2
    BY <1>1, <1>2
  <1>4. A2 = (A \cup PlaceBytes(F, c)) \ Low
    BY DEF AfterPdu
  <1>5. ASSUME NEW x
        PROVE  x \in Low <=> \E d \in K : d + W < H2 /\ x \in PlaceBytes(F, d)
    OBVIOUS
  <1>6. /\ A \subseteq SduByte
        /\ \A b \in A : B < b[1] => Pos(b) < Pos(F[H])
        /\ \A d \in 0..(S - 1) : \A b \in PlaceBytes(F, d) : b \in A => F[d] \in A
        /\ \A d \in R..(H - 1) : d \notin K => F[d] \notin A
    BY DEF ArrivedAt
  <1>7. ASSUME NEW d \in R..(H2 - 1), d \notin K \cup {c}
        PROVE  F[d] \notin A2
    <2>1. d \in 0..(S - 1) /\ d \in 0..S /\ d # c
      BY <1>1, <1>2, <1>3, <1>7
    <2>2. F[d] \notin PlaceBytes(F, c)
      BY <1>3, <2>1, FirstByteOf
    <2>3. CASE d < H
      <3>1. d \in R..(H - 1)
        BY <1>1, <2>3
      <3>2. F[d] \notin A
        BY <1>6, <1>7, <3>1
      <3> QED
        BY <1>4, <2>2, <3>2
    <2>4. CASE ~(d < H)
      <3>1. d \in H..S /\ d - H \in Nat
        BY <1>1, <2>1, <2>4
      <3>2. Pos(F[H]) \in Nat /\ Pos(F[d]) \in Nat /\ Pos(F[H]) + (d - H) <= Pos(F[d])
        BY <1>3, <3>1, PlaceOrder
      <3>3. ~(Pos(F[d]) < Pos(F[H])) /\ B < F[d][1]
        BY <2>1, <3>1, <3>2
      <3>4. F[d] \notin A
        BY <1>6, <3>3
      <3> QED
        BY <1>4, <2>2, <3>4
    <2> QED
      BY <2>3, <2>4
  <1>8. A2 \subseteq SduByte
    BY <1>4, <1>6 DEF PlaceBytes, Between
  <1>9. ASSUME NEW b \in A2, B < b[1]
        PROVE  Pos(b) < Pos(F[H2])
    <2>1. Pos(b) \in Nat
      BY <1>8, <1>9, SduByteIsByte, PosIn
    <2>2. CASE b \in A
      <3>1. Pos(F[H]) \in Nat /\ Pos(F[H2]) \in Nat /\ Pos(F[H]) + (H2 - H) <= Pos(F[H2]) /\ H2 - H \in Nat
        BY <1>1, <1>2, <1>3, PlaceOrder
      <3>2. Pos(b) < Pos(F[H])
        BY <1>6, <1>9, <2>2
      <3> QED
        BY <2>1, <3>1, <3>2
    <2>3. CASE b \in PlaceBytes(F, c)
      <3>1. c + 1 \in 0..S /\ H2 \in (c + 1)..S /\ H2 - (c + 1) \in Nat
        BY <1>1, <1>2, <1>3
      <3>2. Pos(F[c + 1]) \in Nat /\ Pos(F[H2]) \in Nat /\ Pos(F[c + 1]) + (H2 - (c + 1)) <= Pos(F[H2])
        BY <3>1, PlaceOrder
      <3>3. Pos(b) < Pos(F[c + 1])
        BY <2>3 DEF PlaceBytes, Between
      <3> QED
        BY <2>1, <3>1, <3>2, <3>3
    <2> QED
      BY <1>4, <1>9, <2>2, <2>3
  <1>10. ASSUME NEW d \in 0..(S - 1), NEW b \in PlaceBytes(F, d), b \in A2
         PROVE  F[d] \in A2
    <2>1. F[d] \in A \cup PlaceBytes(F, c)
      <3>1. CASE b \in A
        BY <1>6, <1>10, <3>1
      <3>2. CASE b \in PlaceBytes(F, c)
        <4>1. c = d
          BY <1>3, <1>10, <3>2, FirstByteOf
        <4> QED
          BY <1>3, <4>1, FirstByteOf
      <3> QED
        BY <1>4, <1>10, <3>1, <3>2
    <2>2. ASSUME F[d] \in Low
          PROVE  FALSE
      <3>1. PICK k \in K : k + W < H2 /\ F[d] \in PlaceBytes(F, k)
        BY <1>5, <2>2
      <3>2. k \in 0..(S - 1)
        BY <1>1, <1>2
      <3>3. k = d
        BY <1>10, <3>1, <3>2, FirstByteOf
      <3>4. b \in Low
        BY <1>5, <1>10, <3>1, <3>3
      <3> QED
        BY <1>4, <1>10, <3>4
    <2> QED
      BY <1>4, <2>1, <2>2
  <1>11. ASSUME NEW d \in R2..(H2 - 1), d \notin K2
         PROVE  F[d] \notin A2
    <2>1. d \in R..(H2 - 1) /\ d \notin K \cup {c}
      BY <1>1, <1>11
    <2> QED
      BY <1>7, <2>1
  <1>12. ArrivedAt(A2, H2, R2, K2, F, S, B)
    BY <1>8, <1>9, <1>10, <1>11 DEF ArrivedAt
  <1>13. ASSUME NEW d \in R..(H2 - 1), d + UM_WINDOW < H2
         PROVE  F[d] \notin A2
    <2>1. d # c /\ d \in 0..(S - 1)
      BY <1>1, <1>2, <1>13
    <2>2. CASE d \in K
      <3>1. F[d] \in SduByte => F[d] \in Low
        BY <1>5, <1>13, <2>1, <2>2, FirstByteOf
      <3> QED
        BY <1>4, <1>8, <3>1
    <2>3. CASE d \notin K
      <3>1. d \notin K \cup {c}
        BY <2>1, <2>3
      <3> QED
        BY <1>7, <3>1
    <2> QED
      BY <2>2, <2>3
  <1>14. ASSUME NEW d \in 0..(R - 1), F[d] \in A2
         PROVE  F[d] \in A
    <2>1. d \in 0..(S - 1) /\ d # c
      BY <1>1, <1>2, <1>3
    <2>2. F[d] \notin PlaceBytes(F, c)
      BY <1>3, <2>1, FirstByteOf
    <2> QED
      BY <1>4, <1>14, <2>2
  <1>15. ASSUME NEW b \in SduByte, b[1] <= B
         PROVE  b \in A2 <=> b \in A
    <2>1. ASSUME NEW d \in 0..(S - 1), b \in PlaceBytes(F, d)
          PROVE  FALSE
      <3>1. d \in 0..S /\ IsByte(F[d]) /\ IsByte(b) /\ b[1] \in Nat /\ F[d][1] \in Nat /\ B < F[d][1]
        BY SduByteIsByte DEF PlacesRise, IsByte
      <3>2. Pos(F[d]) <= Pos(b)
        BY <2>1 DEF PlaceBytes, Between
      <3>3. F[d][1] <= b[1]
        BY <3>1, <3>2, PosOrder
      <3> QED
        BY <1>15, <3>1, <3>3
    <2>2. b \notin PlaceBytes(F, c)
      BY <1>3, <2>1
    <2>3. b \notin Low
      <3>1. \A k \in K : k \in 0..(S - 1)
        BY <1>1, <1>2
      <3> QED
        BY <1>5, <2>1, <3>1
    <2> QED
      BY <1>4, <2>2, <2>3
  <1> QED
    BY <1>12, <1>13, <1>14, <1>15

------------------------------------------------------------------------------
(* What a PDU does to the members *)

\* From r to q over the number sn: pdu_lost stays set only if nothing goes out, and
\* vr_ur_in_rx_sdu is the last number that anything went out for.
Moved(r, q, sn, x) ==
    /\ q.lost => r.lost /\ q.out = r.out
    /\ q.in = sn \/ (q.in = r.in /\ (q.out = r.out \/ sn = Next1(r.in)))
    /\ GoesOn(r.out, q.out, x)

(* The segments before the last, in the first loop. *)
LEMMA EdgeSegmentsMove ==
    ASSUME NEW r \in RxRec, NEW sn \in UmSN, NEW pdu, NEW segs \in Seq(Seq(SduByte)),
           segs = Front(pdu.segments), NEW x \in Nat, EndSdus(r.sdu, segs, x),
           NEW q, q = EdgeSegments(r, sn, pdu)
    PROVE  /\ Moved(r, q, sn, x) /\ q.in = r.in /\ q \in RxRec
           /\ segs # << >> => q.sdu = << >> /\ ~q.lost
           /\ segs = << >> => q = r
  <1>a. PICK n : n = Len(segs)
    OBVIOUS
  <1>1. n \in Nat /\ (segs = << >> <=> n = 0)
    BY <1>a, LenProperties, EmptySeq
  <1>r. PICK f : EdgeTakes(f, r, sn, pdu, segs)
    BY EdgeSegmentsSteps
  <1>2. /\ f \in [0..n -> RxRec]
        /\ f[0] = r /\ f[n] = q
        /\ \A i \in 1..n : f[i] = EdgeStep(f[i - 1], segs[i], sn, pdu)
    BY <1>a, <1>r DEF EdgeTakes
  <1> DEFINE Ok(i) == /\ f[i].sdu = << >> /\ ~f[i].lost /\ f[i].in = r.in
                      /\ f[i].out = r.out \/ sn = Next1(r.in)
                      /\ GoesOn(r.out, f[i].out, x)
             T == {i \in 1..n : Ok(i)}
  <1>3. ASSUME NEW i \in 1..n, NEW g, g = f[i - 1], g.in = r.in,
               g.out = r.out \/ sn = Next1(r.in), GoesOn(r.out, g.out, x),
               g.sdu \o segs[i] = SduBytes(x + i - 1)
        PROVE  i \in T
    <2>1. i - 1 \in 0..n
      BY <1>1
    <2>2. g \in RxRec /\ segs[i] \in Seq(SduByte)
      BY <1>2, <1>3, <1>a, <2>1, ElementOfSeq
    <2>a. PICK s, id : s = SduBytes(x + i - 1) /\ id = x + i - 1
      OBVIOUS
    <2>3. id \in 1..MaxSdus /\ id \in Nat /\ x <= id /\ s = SduBytes(id) /\ s \in Seq(SduByte)
      <3>1. id \in 1..MaxSdus
        BY <1>a, <2>a DEF EndSdus
      <3> QED
        BY <2>a, <3>1, PieceIsSdu
    <2>4. /\ PassOn(g, s).sdu = << >> /\ PassOn(g, s).out = Append(g.out, s) /\ PassOn(g, s).in = g.in
          /\ Drop(g).sdu = << >> /\ Drop(g).out = g.out /\ Drop(g).in = g.in /\ Drop(g).lost = FALSE
          /\ g.out \in Seq(Seq(SduByte))
      BY <2>2, <2>3, DropPassTypes DEF RxRec
    <2>5. PassOn(g, s).lost = FALSE
      BY <2>2 DEF PassOn, RxRec
    <2>6. CASE f[i] = Drop(g)
      BY <1>3, <2>4, <2>6
    <2>7. CASE f[i] = PassOn(g, s) /\ sn = Next1(g.in)
      <3>1. Ids(Append(g.out, s)) = Ids(g.out) \cup {id}
        BY <2>3, <2>4, IdsAppend
      <3>2. GoesOn(r.out, f[i].out, x)
        BY <1>3, <2>3, <2>4, <2>7, <3>1 DEF GoesOn
      <3> QED
        BY <1>3, <2>4, <2>5, <2>7, <3>2
    <2>8. f[i] = EdgeStep(g, segs[i], sn, pdu)
      BY <1>2, <1>3
    <2> QED
      BY <1>3, <2>6, <2>7, <2>8, <2>a DEF EdgeStep
  <1>0. GoesOn(r.out, r.out, x)
    BY DEF GoesOn
  <1>4. n > 0 => 1 \in T
    <2> SUFFICES ASSUME n > 0 PROVE 1 \in T
      OBVIOUS
    <2>1. 1 \in 1..n /\ 1 - 1 = 0
      BY <1>1
    <2>2. r.sdu \o segs[1] = SduBytes(x + 1 - 1)
      BY <2>1, <1>a DEF EndSdus
    <2>3. r = f[1 - 1]
      BY <1>2, <2>1
    <2> HIDE DEF T
    <2> QED
      BY <1>0, <1>3, <2>1, <2>2, <2>3
  <1>5. ASSUME NEW i \in 1..(n - 1), i \in T PROVE i + 1 \in T
    <2>1. i + 1 \in 1..n /\ (i + 1) - 1 = i /\ i + 1 # 1
      BY <1>1
    <2>2. Ok(i)
      BY <1>5
    <2>3. segs[i + 1] = SduBytes(x + (i + 1) - 1) /\ segs[i + 1] \in Seq(SduByte)
      BY <2>1, <1>a, ElementOfSeq DEF EndSdus
    <2>4. << >> \o segs[i + 1] = segs[i + 1]
      BY <2>3, ConcatEmptySeq
    <2>5. f[i].sdu \o segs[i + 1] = SduBytes(x + (i + 1) - 1)
      BY <2>2, <2>3, <2>4
    <2>6. f[i] = f[(i + 1) - 1]
      BY <2>1
    <2> HIDE DEF T
    <2> QED
      BY <1>3, <2>1, <2>2, <2>5, <2>6
  <1>6. \A i \in 1..n : i \in T
    <2> HIDE DEF T
    <2> QED
      BY <1>1, <1>4, <1>5, UpTo
  <1>7. n # 0 => Ok(n)
    BY <1>1, <1>6
  <1> HIDE DEF Ok
  <1>8. CASE n = 0
    <2>1. q = r
      BY <1>2, <1>8
    <2> QED
      BY <1>0, <1>1, <1>8, <2>1 DEF Moved
  <1>9. CASE n # 0
    BY <1>1, <1>2, <1>7, <1>9 DEF Moved, Ok
  <1> QED
    BY <1>8, <1>9

\* From r to q over segments that end SDUs from x on, in the second loop.
LineMoved(r, q, sn, segs, x) ==
    /\ Ids(q.out) = Ids(r.out) \cup x..(x + Len(segs) - 1)
    /\ segs # << >> => q.in = sn /\ q.sdu = << >> /\ ~q.lost
    /\ segs = << >> => q = r

(* The segments before the last, in the second loop. *)
LEMMA LineSegmentsMove ==
    ASSUME NEW r \in RxRec, NEW sn \in UmSN, NEW segs \in Seq(Seq(SduByte)),
           NEW x \in Nat, EndSdus(r.sdu, segs, x), NEW q, q = LineSegments(r, sn, segs)
    PROVE  LineMoved(r, q, sn, segs, x) /\ q \in RxRec
  <1>a. PICK n : n = Len(segs)
    OBVIOUS
  <1>1. n \in Nat /\ (segs = << >> <=> n = 0)
    BY <1>a, LenProperties, EmptySeq
  <1>r. PICK f : LineTakes(f, r, sn, segs)
    BY LineSegmentsSteps
  <1>2. /\ f \in [0..n -> RxRec]
        /\ f[0] = r /\ f[n] = q
        /\ \A i \in 1..n : f[i] = LineStep(f[i - 1], segs[i], sn)
    BY <1>a, <1>r DEF LineTakes
  <1> DEFINE Ok(i) == /\ f[i].sdu = << >> /\ ~f[i].lost /\ f[i].in = sn
                      /\ Ids(f[i].out) = Ids(r.out) \cup x..(x + i - 1)
             T == {i \in 1..n : Ok(i)}
  <1>3. ASSUME NEW i \in 1..n, NEW g, g = f[i - 1], Ids(g.out) = Ids(r.out) \cup x..(x + i - 2),
               g.sdu \o segs[i] = SduBytes(x + i - 1)
        PROVE  i \in T
    <2>1. i - 1 \in 0..n
      BY <1>1
    <2>2. g \in RxRec /\ segs[i] \in Seq(SduByte)
      BY <1>2, <1>3, <1>a, <2>1, ElementOfSeq
    <2>a. PICK s, id : s = SduBytes(x + i - 1) /\ id = x + i - 1
      OBVIOUS
    <2>3. id \in 1..MaxSdus /\ id \in Nat /\ x <= id /\ s = SduBytes(id) /\ s \in Seq(SduByte)
      <3>1. id \in 1..MaxSdus
        BY <1>a, <2>a DEF EndSdus
      <3> QED
        BY <2>a, <3>1, PieceIsSdu
    <2>b. PICK p : p = PassOn(g, s)
      OBVIOUS
    <2>4. p \in RxRec /\ p.sdu = << >> /\ p.out = Append(g.out, s) /\ g.out \in Seq(Seq(SduByte))
      BY <2>2, <2>3, <2>b, DropPassTypes DEF RxRec
    <2>5. p.lost = FALSE
      BY <2>2, <2>b DEF PassOn, RxRec
    <2>6. f[i] = [p EXCEPT !.in = sn]
      <3>1. f[i] = LineStep(g, segs[i], sn)
        BY <1>2, <1>3
      <3> QED
        BY <1>3, <2>a, <2>b, <3>1 DEF LineStep
    <2>7. f[i].sdu = << >> /\ f[i].lost = FALSE /\ f[i].in = sn /\ f[i].out = p.out
      BY <2>4, <2>5, <2>6 DEF RxRec
    <2>8. Ids(Append(g.out, s)) = Ids(g.out) \cup {id}
      BY <2>3, <2>4, IdsAppend
    <2>9. x..(x + i - 1) = x..(x + i - 2) \cup {id}
      BY <2>3, <2>a
    <2>10. Ids(f[i].out) = Ids(r.out) \cup x..(x + i - 1)
      BY <1>3, <2>4, <2>7, <2>8, <2>9
    <2> QED
      BY <2>7, <2>10
  <1>4. n > 0 => 1 \in T
    <2> SUFFICES ASSUME n > 0 PROVE 1 \in T
      OBVIOUS
    <2>1. 1 \in 1..n /\ 1 - 1 = 0 /\ x..(x + 1 - 2) = {}
      BY <1>1
    <2>2. r.sdu \o segs[1] = SduBytes(x + 1 - 1)
      BY <2>1, <1>a DEF EndSdus
    <2>3. r = f[1 - 1]
      BY <1>2, <2>1
    <2>4. Ids(r.out) = Ids(r.out) \cup x..(x + 1 - 2)
      BY <2>1
    <2> HIDE DEF T
    <2> QED
      BY <1>3, <2>1, <2>2, <2>3, <2>4
  <1>5. ASSUME NEW i \in 1..(n - 1), i \in T PROVE i + 1 \in T
    <2>1. i + 1 \in 1..n /\ (i + 1) - 1 = i /\ i + 1 # 1 /\ x + (i + 1) - 2 = x + i - 1
      BY <1>1
    <2>2. Ok(i)
      BY <1>5
    <2>3. segs[i + 1] = SduBytes(x + (i + 1) - 1) /\ segs[i + 1] \in Seq(SduByte)
      BY <2>1, <1>a, ElementOfSeq DEF EndSdus
    <2>4. << >> \o segs[i + 1] = segs[i + 1]
      BY <2>3, ConcatEmptySeq
    <2>5. f[i].sdu \o segs[i + 1] = SduBytes(x + (i + 1) - 1)
      BY <2>2, <2>3, <2>4
    <2>6. f[i] = f[(i + 1) - 1] /\ Ids(f[i].out) = Ids(r.out) \cup x..(x + (i + 1) - 2)
      BY <2>1, <2>2
    <2> HIDE DEF T
    <2> QED
      BY <1>3, <2>1, <2>5, <2>6
  <1>6. \A i \in 1..n : i \in T
    <2> HIDE DEF T
    <2> QED
      BY <1>1, <1>4, <1>5, UpTo
  <1>7. n # 0 => Ok(n)
    BY <1>1, <1>6
  <1> HIDE DEF Ok
  <1>8. CASE n = 0
    <2>1. q = r /\ x..(x + n - 1) = {}
      BY <1>2, <1>8
    <2> QED
      BY <1>1, <1>8, <1>a, <2>1 DEF LineMoved
  <1>9. CASE n # 0
    BY <1>1, <1>2, <1>7, <1>9, <1>a DEF Ok, LineMoved
  <1> QED
    BY <1>8, <1>9
\* From r to q over the last segment.
LastMoved(r, q, sn, pdu, b) ==
    /\ q.in = sn
    /\ q.lost => r.lost /\ q.out = r.out
    /\ GoesOn(r.out, q.out, b[1])
    /\ b[2] = SduLen /\ ~(r.lost /\ ~pdu.start_aligned) => b[1] \in Ids(q.out)
    /\ b[2] # SduLen => q.sdu = Part(Successor(b))
    /\ \A n \in Ids(q.out) : n \in Ids(r.out) \/ n = b[1]

(* The last segment, which carries bytes up to b. *)
LEMMA LastSegmentMoves ==
    ASSUME NEW r \in RxRec, NEW sn \in UmSN, NEW pdu, NEW b \in SduByte, EndsAt(r, pdu, b),
           NEW q, q = LastSegment(r, sn, pdu)
    PROVE  LastMoved(r, q, sn, pdu, b)
  <1>0. /\ pdu.end_aligned = (b[2] = SduLen) /\ Last(pdu.segments) \in Seq(SduByte)
        /\ r.sdu \o Last(pdu.segments) = Piece(b[1], 1, b[2])
    BY DEF EndsAt
  <1>a. PICK whole, r1 : /\ whole = r.sdu \o Last(pdu.segments)
                         /\ r1 = [r EXCEPT !.sdu = whole, !.in = sn]
    OBVIOUS
  <1>1. whole \in Seq(SduByte) /\ b[1] \in 1..MaxSdus /\ b[1] \in Nat
    <2>1. Last(pdu.segments) \in Seq(SduByte)
      BY <1>0
    <2>2. whole \in Seq(SduByte)
      BY <1>a, <2>1, DropPassTypes
    <2> QED
      BY <2>2, NextByteType
  <1>2. r1 \in RxRec /\ r1.sdu = whole /\ r1.in = sn /\ r1.out = r.out /\ r1.lost = r.lost
    BY <1>1, <1>a DEF RxRec
  <1>3. GoesOn(r.out, r.out, b[1])
    BY DEF GoesOn
  <1>4. CASE ~pdu.end_aligned
    <2>1. q = r1
      BY <1>4, <1>a DEF LastSegment
    <2>2. b[2] # SduLen
      BY <1>0, <1>4
    <2>3. Part(Successor(b)) = whole
      BY <1>0, <1>a, <2>2, NextByteType
    <2> QED
      BY <1>2, <1>3, <2>1, <2>2, <2>3 DEF LastMoved
  <1>5. CASE pdu.end_aligned
    <2>1. b[2] = SduLen
      BY <1>0, <1>5
    <2>2. /\ Drop(r1).out = r1.out /\ Drop(r1).in = r1.in /\ Drop(r1).lost = FALSE
          /\ PassOn(r1, whole).in = r1.in /\ PassOn(r1, whole).out = Append(r1.out, whole)
      BY <1>1, <1>2, DropPassTypes
    <2>3. PassOn(r1, whole).lost = FALSE /\ r1.out \in Seq(Seq(SduByte))
      BY <1>2 DEF PassOn, RxRec
    <2>4. whole = SduBytes(b[1])
      <3>1. Piece(b[1], 1, b[2]) = Piece(b[1], 1, SduLen)
        BY <2>1
      <3>2. Piece(b[1], 1, SduLen) = SduBytes(b[1])
        BY <1>1, PieceIsSdu
      <3> QED
        BY <1>0, <1>a, <3>1, <3>2
    <2>5. CASE r.lost /\ ~pdu.start_aligned
      <3>1. q = Drop(r1)
        BY <1>2, <1>5, <1>a, <2>5 DEF LastSegment
      <3>2. q.in = sn /\ ~q.lost /\ q.out = r.out
        BY <1>2, <2>2, <3>1
      <3> QED
        BY <1>3, <2>1, <2>5, <3>2 DEF LastMoved
    <2>6. CASE ~(r.lost /\ ~pdu.start_aligned)
      <3>1. q = PassOn(r1, whole)
        BY <1>2, <1>5, <1>a, <2>6 DEF LastSegment
      <3>2. q.in = sn /\ ~q.lost /\ q.out = Append(r.out, SduBytes(b[1]))
        BY <1>2, <2>2, <2>3, <2>4, <3>1
      <3>3. Ids(q.out) = Ids(r.out) \cup {b[1]}
        BY <1>1, <1>2, <2>3, <3>2, IdsAppend
      <3>4. GoesOn(r.out, q.out, b[1])
        BY <1>1, <3>3 DEF GoesOn
      <3> QED
        BY <2>1, <3>2, <3>3, <3>4 DEF LastMoved
    <2> QED
      BY <2>5, <2>6
  <1> QED
    BY <1>4, <1>5

(* A PDU below the window. *)
LEMMA LowerEdgeMoves ==
    ASSUME NEW r \in RxRec, NEW sn \in UmSN, NEW pdu, NEW e, NEW next, Spans(pdu, e, next),
           r.sdu = << >> \/ r.sdu = Part(e), NEW q, q = LowerEdgePdu(r, sn, pdu)
    PROVE  Moved(r, q, sn, e[1])
  <1>1. PICK b : CarriesTo(pdu, e, b) /\ next = Successor(b)
    BY DEF Spans
  <1>2. /\ e \in SduByte /\ b \in SduByte /\ e[1] <= b[1]
        /\ pdu.start_aligned = (e[2] = 1) /\ pdu.end_aligned = (b[2] = SduLen)
    BY <1>1 DEF CarriesTo
  <1>3. e[1] \in 1..MaxSdus /\ b[1] \in 1..MaxSdus /\ e[1] \in Nat /\ b[1] \in Nat
    BY <1>2, PartType
  <1>4. CASE r.sdu = << >> /\ ~pdu.start_aligned
    <2>1. q = r
      BY <1>4 DEF LowerEdgePdu
    <2> QED
      BY <2>1 DEF Moved, GoesOn
  <1>5. CASE ~(r.sdu = << >> /\ ~pdu.start_aligned)
    <2>1. r.sdu = Part(e)
      BY <1>2, <1>5, PartType
    <2>a. PICK p : p = EdgeSegments(r, sn, pdu)
      OBVIOUS
    <2>b. PICK segs : segs = Front(pdu.segments)
      OBVIOUS
    <2>2. /\ segs \in Seq(Seq(SduByte)) /\ EndSdus(r.sdu, segs, e[1]) /\ e[1] + Len(segs) = b[1]
          /\ Len(segs) = Len(pdu.segments) - 1
      BY <1>1, <2>1, <2>b, FrontEnds
    <2>3. /\ Moved(r, p, sn, e[1]) /\ p.in = r.in /\ p \in RxRec
          /\ segs # << >> => p.sdu = << >> /\ ~p.lost
          /\ segs = << >> => p = r
      BY <1>3, <2>2, <2>a, <2>b, EdgeSegmentsMove
    <2>4. CASE p.sdu = << >> /\ ~pdu.start_aligned
      <3>1. q = p
        BY <1>5, <2>4, <2>a DEF LowerEdgePdu
      <3> QED
        BY <2>3, <3>1
    <2>5. CASE ~(p.sdu = << >> /\ ~pdu.start_aligned)
      <3>1. q = LastSegment(p, sn, pdu)
        BY <1>5, <2>5, <2>a DEF LowerEdgePdu
      <3>3. Last(pdu.segments) \in Seq(SduByte) /\ p.sdu \o Last(pdu.segments) = Piece(b[1], 1, b[2])
        BY <1>1, <2>1, <2>2, <2>3, WholeLast
      <3>2. EndsAt(p, pdu, b)
        BY <1>2, <3>3 DEF EndsAt
      <3>5. LastMoved(p, q, sn, pdu, b)
        BY <1>2, <2>3, <3>1, <3>2, LastSegmentMoves
      <3>4. q.in = sn /\ (q.lost => p.lost /\ q.out = p.out) /\ GoesOn(p.out, q.out, b[1])
            /\ \A n \in Ids(q.out) : n \in Ids(p.out) \/ n = b[1]
        BY <3>5 DEF LastMoved
      <3>6. q.lost => r.lost /\ q.out = r.out
        BY <2>3, <3>4 DEF Moved
      <3>7. GoesOn(r.out, q.out, e[1])
        BY <1>2, <1>3, <2>3, <3>4 DEF Moved, GoesOn
      <3> QED
        BY <3>4, <3>6, <3>7 DEF Moved
    <2> QED
      BY <2>4, <2>5
  <1> QED
    BY <1>4, <1>5

\* The SDUs from e up to below next that go out, and what is kept of the last.
Completed(r, q, sn, e, next) ==
    LET whole == e[2] = 1 \/ (r.sdu = Part(e) /\ PduBelongsToRxSdu(r.in, sn))
    IN /\ \A id \in e[1]..(next[1] - 1) :
             id # e[1] \/ (whole /\ (e[2] = 1 \/ ~r.lost)) => id \in Ids(q.out)
       /\ next[2] > 1 /\ (next[1] # e[1] \/ whole) => q.sdu = Part(next)
       /\ ~PduBelongsToRxSdu(r.in, sn) => ~q.lost

(* A PDU in sequence. *)
LEMMA InSequenceMoves ==
    ASSUME NEW r \in RxRec, NEW sn \in UmSN, NEW pdu, NEW e, NEW next, Spans(pdu, e, next),
           r.sdu = << >> \/ r.sdu = Part(e) \/ ~PduBelongsToRxSdu(r.in, sn),
           NEW q, q = InSequencePdu(r, sn, pdu)
    PROVE  Moved(r, q, sn, e[1]) /\ Completed(r, q, sn, e, next)
  <1>1. PICK b : CarriesTo(pdu, e, b) /\ next = Successor(b)
    BY DEF Spans
  <1>2. /\ e \in SduByte /\ b \in SduByte /\ e[1] <= b[1]
        /\ pdu.start_aligned = (e[2] = 1) /\ pdu.end_aligned = (b[2] = SduLen)
    BY <1>1 DEF CarriesTo
  <1>3. /\ e[1] \in 1..MaxSdus /\ b[1] \in 1..MaxSdus /\ e[1] \in Nat /\ b[1] \in Nat
        /\ e[1] + 1 \in Nat
    BY <1>2, PartType
  <1>a. PICK r1 : r1 = IF PduBelongsToRxSdu(r.in, sn) THEN r ELSE Drop(r)
    OBVIOUS
  <1>b. PICK segs : segs = pdu.segments
    OBVIOUS
  <1>4. /\ r1 \in RxRec /\ (r1.sdu = << >> \/ r1.sdu = Part(e)) /\ r1.out = r.out /\ r1.in = r.in
        /\ r1.lost => r.lost /\ PduBelongsToRxSdu(r.in, sn)
        /\ PduBelongsToRxSdu(r.in, sn) => r1 = r
    <2>1. Drop(r) \in RxRec /\ Drop(r).sdu = << >> /\ Drop(r).out = r.out /\ Drop(r).in = r.in
          /\ Drop(r).lost = FALSE
      BY DropPassTypes, EmptySeq
    <2> QED
      BY <1>a, <2>1
  <1>5. /\ segs \in Seq(Seq(SduByte)) /\ Len(segs) \in Nat /\ segs # << >>
        /\ Last(segs) \in Seq(SduByte)
        /\ Len(segs) > 1 => Last(segs) = Piece(b[1], 1, b[2])
        /\ Len(segs) = b[1] - e[1] + 1
    <2>a. PICK m : m = b[1] - e[1] + 1
      OBVIOUS
    <2>1. /\ m \in Nat \ {0} /\ segs \in Seq(Seq(SduByte)) /\ Len(segs) = m
          /\ Last(segs) \in Seq(SduByte) /\ (m # 1 => Last(segs) = Piece(b[1], 1, b[2]))
      BY <1>1, <1>b, <2>a, CarriedSegments
    <2> QED
      BY <2>1, <2>a, EmptySeq
  <1>6. /\ b[2] = SduLen => next[1] = b[1] + 1 /\ next[2] = 1
        /\ b[2] # SduLen => next[1] = b[1]
    BY <1>1 DEF Successor
  <1>7. /\ e[2] # 1 => Part(e) # << >>
        /\ e[2] = 1 => Part(e) = << >>
    BY <1>2, PartTells, PartType
  <1>8. CASE r1.sdu = << >> /\ ~pdu.start_aligned /\ ~(Len(segs) > 1)
    <2>1. q = r1
      BY <1>8, <1>a, <1>b DEF InSequencePdu
    <2>2. Moved(r, q, sn, e[1])
      BY <1>4, <2>1 DEF Moved, GoesOn
    <2>3. b[1] = e[1] /\ e[2] # 1
      <3>1. e[1] \in Nat /\ b[1] \in Nat /\ e[1] <= b[1] /\ ~(b[1] - e[1] + 1 > 1)
        BY <1>2, <1>3, <1>5, <1>8
      <3>2. b[1] = e[1]
        BY <3>1
      <3>3. e[2] # 1
        BY <1>2, <1>8
      <3> QED
        BY <3>2, <3>3
    <2>4. ~(r.sdu = Part(e) /\ PduBelongsToRxSdu(r.in, sn))
      BY <1>4, <1>7, <1>8, <2>3
    <2>5. \A id \in e[1]..(next[1] - 1) : id = e[1]
      BY <1>3, <1>6, <2>3
    <2>6. next[2] > 1 => next[1] = e[1]
      BY <1>6, <2>3
    <2>7. Completed(r, q, sn, e, next)
      BY <1>4, <2>1, <2>3, <2>4, <2>5, <2>6 DEF Completed
    <2> QED
      BY <2>2, <2>7
  <1>9. CASE r1.sdu = << >> /\ ~pdu.start_aligned /\ Len(segs) > 1
    <2>a. PICK mid : mid = Front(Tail(segs))
      OBVIOUS
    <2>b. PICK r2 : r2 = Drop(r1)
      OBVIOUS
    <2>c. PICK p : p = LineSegments(r2, sn, mid)
      OBVIOUS
    <2>1. q = LastSegment(p, sn, pdu)
      BY <1>9, <1>a, <1>b, <2>a, <2>b, <2>c DEF InSequencePdu
    <2>2. /\ mid \in Seq(Seq(SduByte)) /\ EndSdus(<< >>, mid, e[1] + 1)
          /\ (e[1] + 1) + Len(mid) = b[1]
      BY <1>1, <1>9, <1>b, <2>a, MiddleEnds
    <2>3. r2 \in RxRec /\ r2.sdu = << >> /\ r2.out = r.out /\ r2.in = r.in /\ r2.lost = FALSE
      BY <1>4, <2>b, DropPassTypes, EmptySeq
    <2>4. EndSdus(r2.sdu, mid, e[1] + 1)
      BY <2>2, <2>3
    <2>5. /\ Ids(p.out) = Ids(r2.out) \cup (e[1] + 1)..((e[1] + 1) + Len(mid) - 1)
          /\ mid # << >> => p.in = sn /\ p.sdu = << >> /\ ~p.lost
          /\ mid = << >> => p = r2
          /\ p \in RxRec
      <3>1. e[1] + 1 \in Nat
        BY <1>3
      <3>2. LineMoved(r2, p, sn, mid, e[1] + 1) /\ p \in RxRec
        BY <2>2, <2>3, <2>4, <2>c, <3>1, LineSegmentsMove
      <3> QED
        BY <3>2 DEF LineMoved
    <2>7. p.sdu = << >> /\ ~p.lost
      BY <2>3, <2>5
    <2>8. p.sdu \o Last(segs) = Piece(b[1], 1, b[2])
      <3>1. Last(segs) = Piece(b[1], 1, b[2])
        BY <1>5, <1>9
      <3> QED
        BY <1>5, <2>7, <3>1, ConcatEmptySeq
    <2>9. /\ q.in = sn
          /\ q.lost => p.lost /\ q.out = p.out
          /\ GoesOn(p.out, q.out, b[1])
          /\ b[2] = SduLen /\ ~(p.lost /\ ~pdu.start_aligned) => b[1] \in Ids(q.out)
          /\ b[2] # SduLen => q.sdu = Part(next)
          /\ \A n \in Ids(q.out) : n \in Ids(p.out) \/ n = b[1]
      <3>1. EndsAt(p, pdu, b)
        BY <1>2, <1>5, <1>b, <2>8 DEF EndsAt
      <3>2. LastMoved(p, q, sn, pdu, b)
        BY <1>2, <2>1, <2>5, <3>1, LastSegmentMoves
      <3> QED
        BY <1>1, <3>2 DEF LastMoved
    <2>10. Ids(p.out) = Ids(r.out) \cup (e[1] + 1)..(b[1] - 1)
      <3>a. Len(mid) \in Nat
        BY <2>2, LenProperties
      <3>b. PICK x, y, n : x = e[1] + 1 /\ y = b[1] /\ n = Len(mid)
        OBVIOUS
      <3>c. x \in Nat /\ y \in Nat /\ n \in Nat /\ x + n = y
        BY <1>3, <2>2, <3>a, <3>b
      <3>d. x + n - 1 = y - 1
        BY <3>c
      <3>1. (e[1] + 1) + Len(mid) - 1 = b[1] - 1
        BY <3>b, <3>d
      <3> QED
        BY <2>3, <2>5, <3>1
    <2>11. GoesOn(r.out, q.out, e[1])
      BY <1>2, <1>3, <2>9, <2>10 DEF GoesOn
    <2>12. Moved(r, q, sn, e[1])
      BY <2>7, <2>9, <2>11 DEF Moved
    <2>13. ~(r.sdu = Part(e) /\ PduBelongsToRxSdu(r.in, sn)) /\ e[2] # 1
      BY <1>2, <1>4, <1>7, <1>9
    <2>14. ASSUME NEW id \in e[1]..(next[1] - 1), id # e[1]
           PROVE  id \in Ids(q.out)
      <3>1. id \in (e[1] + 1)..(b[1] - 1) \/ (id = b[1] /\ b[2] = SduLen)
        BY <1>3, <1>6, <2>14
      <3> QED
        BY <2>7, <2>9, <2>10, <3>1 DEF GoesOn
    <2>15. next[2] > 1 => q.sdu = Part(next)
      BY <1>6, <2>9
    <2>16. ~q.lost
      BY <2>7, <2>9
    <2>17. Completed(r, q, sn, e, next)
      BY <2>13, <2>14, <2>15, <2>16 DEF Completed
    <2> QED
      BY <2>12, <2>17
  <1>10. CASE ~(r1.sdu = << >> /\ ~pdu.start_aligned)
    <2>1. r1.sdu = Part(e)
      BY <1>2, <1>4, <1>10, PartType
    <2>a. PICK mid : mid = Front(segs)
      OBVIOUS
    <2>c. PICK p : p = LineSegments(r1, sn, mid)
      OBVIOUS
    <2>2. q = LastSegment(p, sn, pdu)
      BY <1>10, <1>a, <1>b, <2>a, <2>c DEF InSequencePdu
    <2>3. /\ mid \in Seq(Seq(SduByte)) /\ EndSdus(r1.sdu, mid, e[1]) /\ e[1] + Len(mid) = b[1]
          /\ Len(mid) = Len(pdu.segments) - 1
      BY <1>1, <1>b, <2>1, <2>a, FrontEnds
    <2>4. /\ Ids(p.out) = Ids(r1.out) \cup e[1]..(e[1] + Len(mid) - 1)
          /\ mid # << >> => p.in = sn /\ p.sdu = << >> /\ ~p.lost
          /\ mid = << >> => p = r1
          /\ p \in RxRec
      <3>2. LineMoved(r1, p, sn, mid, e[1]) /\ p \in RxRec
        BY <1>3, <1>4, <2>3, <2>c, LineSegmentsMove
      <3> QED
        BY <3>2 DEF LineMoved
    <2>6. Last(pdu.segments) \in Seq(SduByte) /\ p.sdu \o Last(pdu.segments) = Piece(b[1], 1, b[2])
      BY <1>1, <1>b, <2>1, <2>3, <2>4, <2>a, WholeLast
    <2>7. /\ q.in = sn
          /\ q.lost => p.lost /\ q.out = p.out
          /\ GoesOn(p.out, q.out, b[1])
          /\ b[2] = SduLen /\ ~(p.lost /\ ~pdu.start_aligned) => b[1] \in Ids(q.out)
          /\ b[2] # SduLen => q.sdu = Part(next)
          /\ \A n \in Ids(q.out) : n \in Ids(p.out) \/ n = b[1]
      <3>1. EndsAt(p, pdu, b)
        BY <1>2, <2>6 DEF EndsAt
      <3>2. LastMoved(p, q, sn, pdu, b)
        BY <1>2, <2>2, <2>4, <3>1, LastSegmentMoves
      <3> QED
        BY <1>1, <3>2 DEF LastMoved
    <2>8. Ids(p.out) = Ids(r.out) \cup e[1]..(b[1] - 1)
      <3>a. Len(mid) \in Nat
        BY <2>3, LenProperties
      <3>b. PICK x, y, n : x = e[1] /\ y = b[1] /\ n = Len(mid)
        OBVIOUS
      <3>c. x \in Nat /\ y \in Nat /\ n \in Nat /\ x + n = y
        BY <1>3, <2>3, <3>a, <3>b
      <3>d. x + n - 1 = y - 1
        BY <3>c
      <3>1. e[1] + Len(mid) - 1 = b[1] - 1
        BY <3>b, <3>d
      <3> QED
        BY <1>4, <2>4, <3>1
    <2>9. GoesOn(r.out, q.out, e[1])
      BY <1>2, <1>3, <2>7, <2>8 DEF GoesOn
    <2>10. q.lost => r.lost /\ q.out = r.out /\ PduBelongsToRxSdu(r.in, sn)
      BY <1>4, <2>4, <2>7
    <2>11. Moved(r, q, sn, e[1])
      BY <2>7, <2>9, <2>10 DEF Moved
    <2>12. ASSUME NEW id \in e[1]..(next[1] - 1),
                  id # e[1] \/ e[2] = 1 \/ (PduBelongsToRxSdu(r.in, sn) /\ ~r.lost)
           PROVE  id \in Ids(q.out)
      <3>1. CASE id \in e[1]..(b[1] - 1)
        BY <2>7, <2>8, <3>1 DEF GoesOn
      <3>2. CASE id = b[1] /\ b[2] = SduLen
        <4>1. ~(p.lost /\ ~pdu.start_aligned)
          <5>1. CASE mid # << >>
            BY <2>4, <5>1
          <5>2. CASE mid = << >>
            <6>1. b[1] = e[1] /\ p = r1
              <7>1. e[1] \in Nat /\ b[1] \in Nat /\ e[1] + 0 = b[1] /\ p = r1
                BY <1>3, <2>3, <2>4, <5>2, EmptySeq
              <7> QED
                BY <7>1
            <6> QED
              BY <1>2, <1>4, <2>12, <3>2, <6>1
          <5> QED
            BY <5>1, <5>2
        <4> QED
          BY <2>7, <3>2, <4>1
      <3>3. id \in e[1]..(b[1] - 1) \/ (id = b[1] /\ b[2] = SduLen)
        BY <1>3, <1>6
      <3> QED
        BY <3>1, <3>2, <3>3
    <2>13. next[2] > 1 => q.sdu = Part(next)
      BY <1>6, <2>7
    <2>14. Completed(r, q, sn, e, next)
      BY <2>10, <2>12, <2>13 DEF Completed
    <2> QED
      BY <2>11, <2>14
  <1> QED
    BY <1>8, <1>9, <1>10

------------------------------------------------------------------------------
(* What reassembly has come to *)

\* One of the SDUs O is older than id, by less than a cycle of numbers.
Recent(O, id) == \E n \in O : n < id /\ (id - n) * SduLen < UM_MOD
\* None of the SDUs O is so near to id.
FarOff(O, id) == \A n \in O : (id - n) * SduLen >= UM_MOD

\* The SDUs O out of what ends below place x are all that could be.
Done(F, A, x, O) ==
    /\ \A n \in O : n \in Nat /\ n < F[x][1]
    /\ \A id \in 1..(F[x][1] - 1) : AllOf(F, A, id, x) /\ Recent(O, id) => id \in O
\* vr_ur_in_rx_sdu is of a place i up to top, and of the SDUs O none ends above i + 1.
InAt(in, F, x, top, O) ==
    O # {} => \E i \in (-1)..top : /\ in = i % UM_MOD
                                   /\ i + 2 <= x => \A n \in O : n < F[i + 2][1]
\* ... and rx_sdu holds what it could of the SDU at place x.  A loss counts no longer
\* than the SDUs O are near.
Progress(r, F, x, A, O) ==
    /\ Done(F, A, x, O)
    /\ F[x][2] > 1 /\ AllOf(F, A, F[x][1], x) => r.sdu = Part(F[x])
    /\ r.lost => FarOff(O, F[x][1])
    /\ InAt(r.in, F, x, x - 1, O)
\* The same in an expiry, while all is missing from the place after top to that before x.
Gap(r, F, x, A, O) ==
    /\ Done(F, A, x, O)
    /\ r.sdu = << >> /\ F[x - 1] \notin A
    /\ InAt(r.in, F, x, x - 2, O)

\* SDUs from id up to below top come to O.
Grows(O, O2, id, top) ==
    /\ O \subseteq O2
    /\ \A n \in O2 : n \in Nat /\ n < top /\ (n \in O \/ id <= n)

------------------------------------------------------------------------------
(* SDUs that end below place x have been seen to. *)

LEMMA DoneGoesOn ==
    ASSUME NEW F, NEW S \in Nat, PlacesRise(F, S), NEW x \in 0..(S - 1), NEW A, NEW O, Done(F, A, x, O),
           NEW O2, Grows(O, O2, F[x][1], F[x + 1][1]),
           \A id \in F[x][1]..(F[x + 1][1] - 1) :
              AllOf(F, A, id, x + 1) /\ Recent(O2, id) => id \in O2
    PROVE  Done(F, A, x + 1, O2)
  <1>1. F[x][1] \in Nat \ {0} /\ F[x + 1][1] \in Nat \ {0} /\ F[x][1] <= F[x + 1][1]
    <2>1. x \in 0..S /\ x + 1 \in x..S
      OBVIOUS
    <2> QED
      BY <2>1, PlaceOrder
  <1>2. ASSUME NEW id \in 1..(F[x + 1][1] - 1), AllOf(F, A, id, x + 1), Recent(O2, id)
        PROVE  id \in O2
    <2>1. CASE F[x][1] <= id
      <3>1. id \in F[x][1]..(F[x + 1][1] - 1)
        BY <1>1, <2>1
      <3> QED
        BY <1>2, <3>1
    <2>2. CASE ~(F[x][1] <= id)
      <3>1. id \in 1..(F[x][1] - 1)
        BY <1>1, <2>2
      <3>2. AllOf(F, A, id, x)
        <4>1. 0..(x - 1) \subseteq 0..((x + 1) - 1)
          OBVIOUS
        <4> QED
          BY <1>2, <4>1 DEF AllOf
      <3>3. Recent(O, id)
        <4>1. PICK n \in O2 : n < id /\ (id - n) * SduLen < UM_MOD
          BY <1>2 DEF Recent
        <4>2. n \in O
          BY <1>1, <3>1, <4>1 DEF Grows
        <4> QED
          BY <4>1, <4>2 DEF Recent
      <3>4. id \in O
        BY <3>1, <3>2, <3>3 DEF Done
      <3> QED
        BY <3>4 DEF Grows
    <2> QED
      BY <2>1, <2>2
  <1> QED
    BY <1>2 DEF Done, Grows

LEMMA Next1Injective ==
    ASSUME NEW a \in UmSN, NEW c \in Nat, Next1(a) = c % UM_MOD
    PROVE  a = (c - 1) % UM_MOD
  <1>1. UM_MOD \in Nat \ {0} /\ UM_MOD > 1
    BY Modulus
  <1>2. (c - 1) % UM_MOD \in UmSN /\ Next1((c - 1) % UM_MOD) = c % UM_MOD
    BY NumberType, NumberNext
  <1> PICK b : b = (c - 1) % UM_MOD
    OBVIOUS
  <1>3. \A n \in UmSN : Next1(n) = IF n + 1 = UM_MOD THEN 0 ELSE n + 1
    BY <1>1 DEF UmSN, Next1
  <1>4. a \in Nat /\ b \in Nat /\ Next1(a) = Next1(b)
    BY <1>2 DEF UmSN
  <1>5. (IF a + 1 = UM_MOD THEN 0 ELSE a + 1) = (IF b + 1 = UM_MOD THEN 0 ELSE b + 1)
    BY <1>2, <1>3, <1>4
  <1> QED
    BY <1>1, <1>4, <1>5

(* vr_ur_in_rx_sdu after one PDU more. *)
LEMMA InGoesOn ==
    ASSUME NEW F, NEW x \in Nat, NEW O, NEW O2, \A n \in O2 : n < F[x + 1][1],
           NEW in \in UmSN, InAt(in, F, x, x - 1, O),
           NEW in2, in2 = x % UM_MOD \/ (in2 = in /\ (O2 = O \/ x % UM_MOD = Next1(in)))
    PROVE  InAt(in2, F, x + 1, (x + 1) - 1, O2)
  <1> SUFFICES ASSUME O2 # {}
               PROVE  \E i \in (-1)..((x + 1) - 1) :
                         /\ in2 = i % UM_MOD
                         /\ i + 2 <= x + 1 => \A n \in O2 : n < F[i + 2][1]
    BY DEF InAt
  <1>1. CASE in2 = x % UM_MOD
    <2>1. x \in (-1)..((x + 1) - 1) /\ ~(x + 2 <= x + 1)
      OBVIOUS
    <2> QED
      BY <1>1, <2>1
  <1>2. CASE in2 = in /\ O2 = O
    <2>1. PICK i \in (-1)..(x - 1) : in = i % UM_MOD /\ (i + 2 <= x => \A n \in O : n < F[i + 2][1])
      BY <1>2 DEF InAt
    <2>2. i \in (-1)..((x + 1) - 1) /\ (i + 2 <= x + 1 => i + 2 <= x \/ i + 2 = x + 1)
      OBVIOUS
    <2>3. i + 2 = x + 1 => \A n \in O2 : n < F[i + 2][1]
      OBVIOUS
    <2> QED
      BY <1>2, <2>1, <2>2, <2>3
  <1>3. CASE in2 = in /\ x % UM_MOD = Next1(in)
    <2>1. in = (x - 1) % UM_MOD
      BY <1>3, Next1Injective
    <2>2. x - 1 \in (-1)..((x + 1) - 1) /\ (x - 1) + 2 = x + 1
      OBVIOUS
    <2> QED
      BY <1>3, <2>1, <2>2
  <1> QED
    BY <1>1, <1>2, <1>3

(* What is far off an SDU is farther off a later one. *)
LEMMA FarOffOn ==
    ASSUME NEW O, NEW a \in Nat, NEW b \in Nat, a <= b, \A n \in O : n \in Nat /\ n < a, FarOff(O, a)
    PROVE  FarOff(O, b)
  <1> SUFFICES ASSUME NEW n \in O
               PROVE  (b - n) * SduLen >= UM_MOD
    BY DEF FarOff
  <1>1. a - n \in Nat /\ b - n \in Nat /\ a - n <= b - n /\ SduLen \in Nat /\ UM_MOD \in Nat
    BY SduAssumption, Modulus
  <1>2. (a - n) * SduLen >= UM_MOD
    BY DEF FarOff
  <1> PICK k, m : k = a - n /\ m = b - n
    OBVIOUS
  <1>3. k * SduLen \in Nat /\ m * SduLen \in Nat /\ k * SduLen <= m * SduLen
    BY <1>1, Multiples
  <1> QED
    BY <1>1, <1>2, <1>3

------------------------------------------------------------------------------
(* Steps of reassembly *)

(* A place is passed over whose PDU has not arrived, or has been pushed out. *)
LEMMA PassProgress ==
    ASSUME NEW F, NEW S \in Nat, PlacesRise(F, S), NEW x \in 0..(S - 1), NEW A, F[x] \notin A,
           NEW O, NEW O2, Grows(O, O2, F[x][1], F[x + 1][1]), NEW r, Progress(r, F, x, A, O), r.in \in UmSN,
           NEW q, q.lost => r.lost /\ O2 = O,
           q.in = x % UM_MOD \/ (q.in = r.in /\ (O2 = O \/ x % UM_MOD = Next1(r.in)))
    PROVE  Progress(q, F, x + 1, A, O2)
  <1>1. F[x][1] \in Nat \ {0} /\ F[x + 1][1] \in Nat \ {0} /\ F[x][1] <= F[x + 1][1] /\ x \in Nat
    <2>1. x \in 0..S /\ x + 1 \in x..S
      OBVIOUS
    <2> QED
      BY <2>1, PlaceOrder
  <1>2. /\ \A id \in F[x][1]..(F[x + 1][1] - 1) : ~AllOf(F, A, id, x + 1)
        /\ F[x + 1][2] > 1 => ~AllOf(F, A, F[x + 1][1], x + 1)
    BY MissingCarries
  <1>3. Done(F, A, x, O) /\ (r.lost => FarOff(O, F[x][1])) /\ InAt(r.in, F, x, x - 1, O)
        /\ (\A n \in O : n \in Nat /\ n < F[x][1])
    BY DEF Progress, Done
  <1>4. Done(F, A, x + 1, O2)
    BY <1>2, <1>3, DoneGoesOn
  <1>5. InAt(q.in, F, x + 1, (x + 1) - 1, O2)
    <2>1. \A n \in O2 : n < F[x + 1][1]
      BY DEF Grows
    <2> QED
      BY <1>1, <1>3, <2>1, InGoesOn
  <1>6. q.lost => FarOff(O2, F[x + 1][1])
    BY <1>1, <1>3, FarOffOn
  <1> QED
    BY <1>2, <1>4, <1>5, <1>6 DEF Progress

\* The PDU at place x completes what it can of the SDUs it carries, to O.
CompletesTo(r, q, F, x, sn, O) ==
    LET e == F[x]
        next == F[x + 1]
        whole == e[2] = 1 \/ (r.sdu = Part(e) /\ PduBelongsToRxSdu(r.in, sn))
    IN /\ \A id \in e[1]..(next[1] - 1) :
             id # e[1] \/ (whole /\ (e[2] = 1 \/ ~r.lost)) => id \in O
       /\ next[2] > 1 /\ (next[1] # e[1] \/ whole) => q.sdu = Part(next)
       /\ ~PduBelongsToRxSdu(r.in, sn) => ~q.lost

(* A PDU held is reassembled. *)
LEMMA LineProgress ==
    ASSUME NEW F, NEW S \in Nat, PlacesRise(F, S), NEW x \in 0..(S - 1), NEW A,
           NEW O, NEW O2, Grows(O, O2, F[x][1], F[x + 1][1]), NEW r, Progress(r, F, x, A, O), r.in \in UmSN,
           NEW q, q.lost => r.lost /\ O2 = O,
           q.in = x % UM_MOD \/ (q.in = r.in /\ (O2 = O \/ x % UM_MOD = Next1(r.in))),
           CompletesTo(r, q, F, x, x % UM_MOD, O2),
           F[x][2] > 1 /\ r.sdu = Part(F[x]) => PduBelongsToRxSdu(r.in, x % UM_MOD)
    PROVE  Progress(q, F, x + 1, A, O2)
  <1> PICK e, next, sn : e = F[x] /\ next = F[x + 1] /\ sn = x % UM_MOD
    OBVIOUS
  <1>1. /\ e[1] \in Nat \ {0} /\ next[1] \in Nat \ {0} /\ e[1] <= next[1] /\ x \in Nat
        /\ e[2] \in Nat \ {0}
    <2>1. x \in 0..S /\ x + 1 \in x..S
      OBVIOUS
    <2>2. IsByte(F[x])
      BY <2>1, PlaceOrder
    <2> QED
      BY <2>1, <2>2, PlaceOrder, SduAssumption DEF IsByte
  <1>2. /\ Done(F, A, x, O) /\ (r.lost => FarOff(O, e[1])) /\ InAt(r.in, F, x, x - 1, O)
        /\ e[2] > 1 /\ AllOf(F, A, e[1], x) => r.sdu = Part(e)
        /\ (\A n \in O : n \in Nat /\ n < e[1])
    BY DEF Progress, Done
  <1>3. ASSUME AllOf(F, A, e[1], x + 1)
        PROVE  e[2] = 1 \/ (r.sdu = Part(e) /\ PduBelongsToRxSdu(r.in, sn))
    <2>1. AllOf(F, A, e[1], x)
      <3>1. 0..(x - 1) \subseteq 0..((x + 1) - 1)
        BY <1>1
      <3> QED
        BY <1>3, <3>1 DEF AllOf
    <2> QED
      BY <1>1, <1>2, <2>1
  <1>4. ASSUME Recent(O2, e[1])
        PROVE  ~r.lost
    <2>1. PICK n \in O2 : n < e[1] /\ (e[1] - n) * SduLen < UM_MOD
      BY <1>4 DEF Recent
    <2>2. n \in O /\ n \in Nat
      BY <1>1, <2>1 DEF Grows
    <2>3. (e[1] - n) * SduLen \in Nat /\ UM_MOD \in Nat
      <3>1. e[1] - n \in Nat /\ SduLen \in Nat
        BY <1>1, <1>2, <2>2, SduAssumption
      <3> QED
        BY <3>1, Multiples, Modulus
    <2> QED
      BY <1>2, <2>1, <2>2, <2>3 DEF FarOff
  <1>5. ASSUME NEW id \in e[1]..(next[1] - 1), AllOf(F, A, id, x + 1), Recent(O2, id)
        PROVE  id \in O2
    BY <1>3, <1>4, <1>5 DEF CompletesTo
  <1>6. Done(F, A, x + 1, O2)
    BY <1>2, <1>5, DoneGoesOn
  <1>7. InAt(q.in, F, x + 1, (x + 1) - 1, O2)
    <2>1. \A n \in O2 : n < F[x + 1][1]
      BY DEF Grows
    <2> QED
      BY <1>1, <1>2, <2>1, InGoesOn
  <1>8. q.lost => FarOff(O2, next[1])
    BY <1>1, <1>2, FarOffOn
  <1>9. next[2] > 1 /\ AllOf(F, A, next[1], x + 1) => q.sdu = Part(next)
    BY <1>3 DEF CompletesTo
  <1> QED
    BY <1>6, <1>7, <1>8, <1>9 DEF Progress

(* The first place missing of an expiry. *)
LEMMA GapStarts ==
    ASSUME NEW F, NEW S \in Nat, PlacesRise(F, S), NEW x \in 0..(S - 1), NEW A, F[x] \notin A,
           NEW O, NEW r, Progress(r, F, x, A, O), NEW q, q.sdu = << >>, q.in = r.in
    PROVE  Gap(q, F, x + 1, A, O)
  <1>1. F[x][1] \in Nat \ {0} /\ F[x + 1][1] \in Nat \ {0} /\ F[x][1] <= F[x + 1][1]
    <2>1. x \in 0..S /\ x + 1 \in x..S
      OBVIOUS
    <2> QED
      BY <2>1, PlaceOrder
  <1>2. Done(F, A, x, O) /\ InAt(r.in, F, x, x - 1, O) /\ \A n \in O : n \in Nat /\ n < F[x][1]
    BY DEF Progress, Done
  <1>3. Grows(O, O, F[x][1], F[x + 1][1])
    BY <1>1, <1>2 DEF Grows
  <1>4. Done(F, A, x + 1, O)
    BY <1>2, <1>3, DoneGoesOn, MissingCarries
  <1>5. InAt(q.in, F, x + 1, (x + 1) - 2, O)
    <2> SUFFICES ASSUME O # {}
                 PROVE  \E i \in (-1)..((x + 1) - 2) :
                           /\ q.in = i % UM_MOD
                           /\ i + 2 <= x + 1 => \A n \in O : n < F[i + 2][1]
      BY DEF InAt
    <2>1. PICK i \in (-1)..(x - 1) : r.in = i % UM_MOD /\ (i + 2 <= x => \A n \in O : n < F[i + 2][1])
      BY <1>2 DEF InAt
    <2>2. i \in (-1)..((x + 1) - 2) /\ (i + 2 <= x + 1 => i + 2 <= x \/ i + 2 = x + 1)
      OBVIOUS
    <2>3. i + 2 = x + 1 => \A n \in O : n < F[i + 2][1]
      BY <1>3 DEF Grows
    <2> QED
      BY <2>1, <2>2, <2>3
  <1>6. (x + 1) - 1 = x
    OBVIOUS
  <1> QED
    BY <1>4, <1>5, <1>6 DEF Gap

(* One place more. *)
LEMMA GapGoesOn ==
    ASSUME NEW F, NEW S \in Nat, PlacesRise(F, S), NEW x \in 1..(S - 1), NEW A, F[x] \notin A,
           NEW O, NEW r, Gap(r, F, x, A, O)
    PROVE  Gap(r, F, x + 1, A, O)
  <1>1. F[x][1] \in Nat \ {0} /\ F[x + 1][1] \in Nat \ {0} /\ F[x][1] <= F[x + 1][1] /\ x \in 0..(S - 1)
    <2>1. x \in 0..S /\ x + 1 \in x..S /\ x \in 0..(S - 1)
      OBVIOUS
    <2> QED
      BY <2>1, PlaceOrder
  <1>2. Done(F, A, x, O) /\ InAt(r.in, F, x, x - 2, O) /\ r.sdu = << >>
        /\ \A n \in O : n \in Nat /\ n < F[x][1]
    BY DEF Gap, Done
  <1>3. Grows(O, O, F[x][1], F[x + 1][1])
    BY <1>1, <1>2 DEF Grows
  <1>4. Done(F, A, x + 1, O)
    BY <1>1, <1>2, <1>3, DoneGoesOn, MissingCarries
  <1>5. InAt(r.in, F, x + 1, (x + 1) - 2, O)
    <2> SUFFICES ASSUME O # {}
                 PROVE  \E i \in (-1)..((x + 1) - 2) :
                           /\ r.in = i % UM_MOD
                           /\ i + 2 <= x + 1 => \A n \in O : n < F[i + 2][1]
      BY DEF InAt
    <2>1. PICK i \in (-1)..(x - 2) : r.in = i % UM_MOD /\ (i + 2 <= x => \A n \in O : n < F[i + 2][1])
      BY <1>2 DEF InAt
    <2>2. i \in (-1)..((x + 1) - 2) /\ i + 2 <= x
      OBVIOUS
    <2> QED
      BY <2>1, <2>2
  <1>6. (x + 1) - 1 = x
    OBVIOUS
  <1> QED
    BY <1>2, <1>4, <1>5, <1>6 DEF Gap

(* A PDU that passes for the one before a gap is a cycle of numbers above it. *)
LEMMA PassesFor ==
    ASSUME NEW x \in Nat, NEW i \in (-1)..(x - 2), PduBelongsToRxSdu(i % UM_MOD, x % UM_MOD)
    PROVE  (i + 2) + UM_MOD <= x + 2
  <1> PICK c : c = i + 1
    OBVIOUS
  <1>1. c \in Nat /\ c < x /\ i = c - 1 /\ UM_MOD \in Nat /\ c < x + 1 /\ x + 1 \in Nat
    BY Modulus
  <1>2. Next1((c - 1) % UM_MOD) = c % UM_MOD /\ Next1(x % UM_MOD) = (x + 1) % UM_MOD
    BY <1>1, NumberNext
  <1>3. CASE c % UM_MOD = x % UM_MOD
    <2>1. ~(x < c + UM_MOD)
      BY <1>1, <1>3, NumbersDiffer
    <2> QED
      BY <1>1, <2>1
  <1>4. CASE c % UM_MOD = (x + 1) % UM_MOD
    <2>1. ~(x + 1 < c + UM_MOD)
      BY <1>1, <1>4, NumbersDiffer
    <2> QED
      BY <1>1, <2>1
  <1>5. (c - 1) % UM_MOD = i % UM_MOD
    BY <1>1
  <1> QED
    BY <1>2, <1>3, <1>4, <1>5 DEF PduBelongsToRxSdu

(* A PDU held after a gap. *)
LEMMA GapEnds ==
    ASSUME NEW F, NEW S \in Nat, PlacesRise(F, S), NEW x \in 1..(S - 1), NEW A,
           NEW O, NEW O2, Grows(O, O2, F[x][1], F[x + 1][1]), NEW r, Gap(r, F, x, A, O), r.in \in UmSN,
           NEW q, q.lost => r.lost /\ O2 = O,
           q.in = x % UM_MOD \/ (q.in = r.in /\ (O2 = O \/ x % UM_MOD = Next1(r.in))),
           CompletesTo(r, q, F, x, x % UM_MOD, O2)
    PROVE  Progress(q, F, x + 1, A, O2)
  <1> PICK e, next, sn : e = F[x] /\ next = F[x + 1] /\ sn = x % UM_MOD
    OBVIOUS
  <1>1. /\ e[1] \in Nat \ {0} /\ next[1] \in Nat \ {0} /\ e[1] <= next[1] /\ x \in Nat
        /\ e[2] \in Nat \ {0} /\ F[x - 1][1] \in Nat /\ F[x - 1][1] <= e[1] /\ x \in 0..(S - 1)
    <2>1. x \in 0..S /\ x + 1 \in x..S /\ x - 1 \in 0..S /\ x \in (x - 1)..S /\ x \in 0..(S - 1)
      OBVIOUS
    <2>2. IsByte(F[x])
      BY <2>1, PlaceOrder
    <2>3. F[x - 1][1] \in Nat /\ F[x - 1][1] <= F[x][1]
      BY <2>1, PlaceOrder
    <2>4. F[x][1] \in Nat \ {0} /\ F[x + 1][1] \in Nat \ {0} /\ F[x][1] <= F[x + 1][1]
      BY <2>1, PlaceOrder
    <2>5. F[x][2] \in Nat \ {0}
      BY <2>2, SduAssumption DEF IsByte
    <2> QED
      BY <2>1, <2>3, <2>4, <2>5
  <1>2. /\ Done(F, A, x, O) /\ InAt(r.in, F, x, x - 2, O) /\ F[x - 1] \notin A
        /\ (\A n \in O : n \in Nat /\ n < e[1])
    BY DEF Gap, Done
  <1>3. ASSUME AllOf(F, A, e[1], x + 1)
        PROVE  e[2] = 1
    <2>1. x - 1 \in 0..((x + 1) - 1) /\ (x - 1) + 1 = x
      OBVIOUS
    <2>2. ~CarriesOf(F, x - 1, e[1])
      BY <1>2, <1>3, <2>1 DEF AllOf
    <2>3. ~(e[2] > 1)
      BY <1>1, <2>1, <2>2 DEF CarriesOf
    <2> QED
      BY <1>1, <2>3
  <1>4. ASSUME NEW id \in e[1]..(next[1] - 1), AllOf(F, A, id, x + 1)
        PROVE  id \in O2
    BY <1>3, <1>4 DEF CompletesTo
  <1>5. Done(F, A, x + 1, O2)
    BY <1>1, <1>2, <1>4, DoneGoesOn
  <1>6. InAt(q.in, F, x + 1, (x + 1) - 1, O2)
    <2>1. \A n \in O2 : n < F[x + 1][1]
      BY DEF Grows
    <2>2. InAt(r.in, F, x, x - 1, O)
      <3>1. (-1)..(x - 2) \subseteq (-1)..(x - 1)
        OBVIOUS
      <3> QED
        BY <1>2, <3>1 DEF InAt
    <2> QED
      BY <1>1, <2>1, <2>2, InGoesOn
  <1>7. ASSUME q.lost
        PROVE  FarOff(O2, next[1])
    <2>1. O2 = O /\ PduBelongsToRxSdu(r.in, sn)
      BY <1>7 DEF CompletesTo
    <2> SUFFICES ASSUME NEW n \in O
                 PROVE  (next[1] - n) * SduLen >= UM_MOD
      BY <2>1 DEF FarOff
    <2>2. PICK i \in (-1)..(x - 2) : r.in = i % UM_MOD /\ (i + 2 <= x => \A m \in O : m < F[i + 2][1])
      BY <1>2 DEF InAt
    <2>3. (i + 2) + UM_MOD <= x + 2
      BY <1>1, <2>1, <2>2, PassesFor
    <2> PICK c : c = i + 2
      OBVIOUS
    <2>4. c \in 1..S /\ x + 1 \in c..S /\ c + UM_MOD <= (x + 1) + 1 /\ n \in Nat /\ n < F[c][1]
      <3>1. c <= x /\ c \in 1..S /\ x + 1 \in c..S
        BY <1>1
      <3>2. UM_MOD \in Nat
        BY Modulus
      <3> QED
        BY <1>2, <2>2, <2>3, <3>1, <3>2
    <2> QED
      BY <2>4, Modulus, FarEnough
  <1>8. next[2] > 1 /\ AllOf(F, A, next[1], x + 1) => q.sdu = Part(next)
    BY <1>3 DEF CompletesTo
  <1> QED
    BY <1>5, <1>6, <1>7, <1>8 DEF Progress

------------------------------------------------------------------------------
(* Reassembly of one number *)

\* The SDUs out: those of base before, and what r holds.
Out(base, r) == base \cup Ids(r.out)

\* From r to q over the number of place x, while SDUs O become O2.
Over(r, q, F, x, O, O2) ==
    /\ Grows(O, O2, F[x][1], F[x + 1][1])
    /\ q.lost => r.lost /\ O2 = O
    /\ q.in = x % UM_MOD \/ (q.in = r.in /\ (O2 = O \/ x % UM_MOD = Next1(r.in)))

LEMMA MovedOver ==
    ASSUME NEW F, NEW S \in Nat, PlacesRise(F, S), NEW x \in 0..(S - 1), NEW r, NEW q,
           NEW sn, sn = x % UM_MOD, Moved(r, q, sn, F[x][1]),
           NEW lo \in Nat, Handed(q.out, lo, F[x + 1][1]),
           NEW base, \A n \in Out(base, r) : n \in Nat /\ n < F[x][1]
    PROVE  Over(r, q, F, x, Out(base, r), Out(base, q))
  <1> PICK a, top : a = F[x][1] /\ top = F[x + 1][1]
    OBVIOUS
  <1>1. a \in Nat /\ top \in Nat /\ a <= top
    <2>1. x \in 0..S /\ x + 1 \in x..S
      OBVIOUS
    <2> QED
      BY <2>1, PlaceOrder
  <1>2. \A n \in Ids(q.out) : n \in Nat /\ n < top
    <2> TAKE n \in Ids(q.out)
    <2>1. PICK i \in 1..Len(q.out) : n = q.out[i][1][1]
      BY DEF Ids
    <2>2. n \in lo..(top - 1)
      BY <2>1, <1>1 DEF Handed
    <2> QED
      BY <1>1, <2>2
  <1>3. \A n \in Out(base, r) : n \in Nat /\ n < top
    BY <1>1
  <1>4. /\ Ids(r.out) \subseteq Ids(q.out)
        /\ \A n \in Ids(q.out) : n \in Ids(r.out) \/ a <= n
    BY DEF Moved, GoesOn
  <1>5. Grows(Out(base, r), Out(base, q), a, top)
    <2>1. Out(base, r) \subseteq Out(base, q)
      BY <1>4 DEF Out
    <2>2. ASSUME NEW n \in Out(base, q)
          PROVE  n \in Nat /\ n < top /\ (n \in Out(base, r) \/ a <= n)
      <3>1. n \in base \/ n \in Ids(q.out)
        BY <2>2 DEF Out
      <3>2. CASE n \in base
        <4>1. n \in Out(base, r)
          BY <3>2 DEF Out
        <4> QED
          BY <1>3, <4>1
      <3>3. CASE n \in Ids(q.out)
        <4>1. n \in Out(base, r) \/ a <= n
          BY <1>4, <3>3 DEF Out
        <4> QED
          BY <1>2, <3>3, <4>1
      <3> QED
        BY <3>1, <3>2, <3>3
    <2> QED
      BY <2>1, <2>2 DEF Grows
  <1>6. q.out = r.out => Out(base, q) = Out(base, r)
    BY DEF Out
  <1>7. q.lost => r.lost /\ Out(base, q) = Out(base, r)
    BY <1>6 DEF Moved
  <1>8. q.in = sn \/ (q.in = r.in /\ (Out(base, q) = Out(base, r) \/ sn = Next1(r.in)))
    BY <1>6 DEF Moved
  <1> QED
    BY <1>5, <1>7, <1>8 DEF Over

\* What is out before place x is a number below it.
LEMMA OutBelow ==
    ASSUME NEW F, NEW x, NEW A, NEW O, NEW r, Progress(r, F, x, A, O) \/ Gap(r, F, x, A, O)
    PROVE  \A n \in O : n \in Nat /\ n < F[x][1]
  BY DEF Progress, Gap, Done

(* A PDU completes what it can, if the window has it. *)
LEMMA CompletedOver ==
    ASSUME NEW r, NEW q, NEW F, NEW x, NEW sn, NEW base, Completed(r, q, sn, F[x], F[x + 1])
    PROVE  CompletesTo(r, q, F, x, sn, Out(base, q))
  <1>1. \A id \in Ids(q.out) : id \in Out(base, q)
    BY DEF Out
  <1> QED
    BY <1>1 DEF Completed, CompletesTo

(* The first loop passes a place whose PDU is pushed out of the window. *)
LEMMA EdgeStepProgress ==
    ASSUME NEW F, NEW S \in Nat, PlacesRise(F, S), NEW x \in 0..(S - 1), NEW A, F[x] \notin A,
           NEW win, NEW sn, sn = x % UM_MOD, sn \in DOMAIN win => Spans(win[sn], F[x], F[x + 1]),
           NEW lo \in Nat, NEW r, NEW any, Good(r, F[x], any, lo),
           NEW q, q = EdgePass(r, sn, win), Handed(q.out, lo, F[x + 1][1]),
           NEW base, Progress(r, F, x, A, Out(base, r))
    PROVE  Progress(q, F, x + 1, A, Out(base, q))
  <1>1. x \in Nat /\ sn \in UmSN
    BY NumberType
  <1>2. r \in RxRec /\ r.in \in UmSN /\ (r.sdu = << >> \/ r.sdu = Part(F[x]))
    BY DEF Good, RxRec
  <1>3. \A n \in Out(base, r) : n \in Nat /\ n < F[x][1]
    BY OutBelow
  <1>4. Over(r, q, F, x, Out(base, r), Out(base, q))
    <2>1. CASE sn \in DOMAIN win
      <3>1. q = LowerEdgePdu(r, sn, win[sn])
        BY <2>1 DEF EdgePass
      <3>2. Moved(r, q, sn, F[x][1])
        BY <1>1, <1>2, <2>1, <3>1, LowerEdgeMoves
      <3> QED
        BY <1>3, <3>2, MovedOver
    <2>2. CASE sn \notin DOMAIN win
      <3>1. q = [r EXCEPT !.sdu = << >>]
        BY <2>2 DEF EdgePass
      <3>2. q.lost = r.lost /\ q.in = r.in /\ q.out = r.out
        BY <1>2, <3>1 DEF RxRec
      <3>3. Moved(r, q, sn, F[x][1])
        BY <3>2 DEF Moved, GoesOn
      <3> QED
        BY <1>3, <3>3, MovedOver
    <2> QED
      BY <2>1, <2>2
  <1>5. /\ Grows(Out(base, r), Out(base, q), F[x][1], F[x + 1][1])
        /\ q.lost => r.lost /\ Out(base, q) = Out(base, r)
        /\ q.in = x % UM_MOD
           \/ (q.in = r.in /\ (Out(base, q) = Out(base, r) \/ x % UM_MOD = Next1(r.in)))
    BY <1>4 DEF Over
  <1> QED
    BY <1>2, <1>5, PassProgress

(* What is reassembled before a place belongs to the PDU of that place. *)
LEMMA SinceIsBefore ==
    ASSUME NEW F, NEW S \in Nat, PlacesRise(F, S), NEW x \in Nat, NEW j \in Nat, NEW c \in 0..S, c = x + j,
           NEW lo, NEW g, GoodSince(g, F, x, j, lo), F[c] \in SduByte, F[c][2] > 1, g.sdu = Part(F[c])
    PROVE  PduBelongsToRxSdu(g.in, c % UM_MOD)
  <1>1. F[c] = <<F[c][1], F[c][2]>> /\ F[c][1] \in 1..MaxSdus /\ F[c][2] \in 1..SduLen /\ IsByte(F[c])
    BY SduByteIsByte
  <1>2. F[c][2] # 1
    BY <1>1
  <1>3. g.sdu # << >>
    BY <1>2, PartTells
  <1>4. PICK d \in x..c : g.sdu = Part(F[d]) /\ g.in = (d - 1) % UM_MOD
    BY <1>3 DEF GoodSince
  <1>5. d \in 0..S /\ c \in d..S
    OBVIOUS
  <1>6. /\ IsByte(F[d]) /\ F[d][1] <= F[c][1] /\ F[d][1] \in Nat \ {0}
        /\ Pos(F[d]) \in Nat /\ Pos(F[c]) \in Nat /\ Pos(F[d]) + (c - d) <= Pos(F[c])
    BY <1>5, PlaceOrder
  <1>7. F[d] \in SduByte
    <2>1. F[d][2] \in 1..SduLen /\ F[d] = <<F[d][1], F[d][2]>>
      BY <1>6 DEF IsByte
    <2>2. F[d][1] \in 1..MaxSdus
      BY <1>1, <1>6, SduAssumption
    <2> QED
      BY <2>1, <2>2 DEF SduByte
  <1>8. F[c] = F[d]
    BY <1>2, <1>4, <1>7, PartTells
  <1>9. c = d
    <2>1. Pos(F[c]) = Pos(F[d])
      BY <1>8
    <2> QED
      BY <1>6, <2>1
  <1>10. Next1((c - 1) % UM_MOD) = c % UM_MOD
    BY NumberNext
  <1> QED
    BY <1>4, <1>9, <1>10 DEF PduBelongsToRxSdu

------------------------------------------------------------------------------

\* What the second loop has come to at place x, after the number of the place before.
OnLine(r, F, x, A, O, missing) == Progress(r, F, x, A, O) \/ (Gap(r, F, x, A, O) /\ missing)

(* The second loop takes a PDU that is held. *)
LEMMA LineTakesPdu ==
    ASSUME NEW F, NEW S \in Nat, PlacesRise(F, S), NEW x \in Nat, NEW j \in 0..(UM_MOD - 2),
           NEW c \in 0..(S - 1), c = x + j, NEW A,
           NEW win, NEW sn, sn = c % UM_MOD, sn \in DOMAIN win, Spans(win[sn], F[c], F[c + 1]),
           NEW lo \in Nat, NEW r, GoodSince(r, F, x, j, lo),
           NEW q, q = LinePass(r, sn, win), Handed(q.out, lo, F[c + 1][1]),
           NEW base,
           Progress(r, F, c, A, Out(base, r)) \/ (Gap(r, F, c, A, Out(base, r)) /\ c # 0)
    PROVE  Progress(q, F, c + 1, A, Out(base, q))
  <1>1. sn \in UmSN
    BY NumberType
  <1>2. r \in RxRec /\ r.in \in UmSN /\ q = InSequencePdu(r, sn, win[sn])
    BY DEF GoodSince, RxRec, LinePass
  <1>3. r.sdu = << >> \/ r.sdu = Part(F[c]) \/ ~PduBelongsToRxSdu(r.in, sn)
    BY SinceBelongs
  <1>4. Moved(r, q, sn, F[c][1]) /\ Completed(r, q, sn, F[c], F[c + 1])
    BY <1>1, <1>2, <1>3, InSequenceMoves
  <1>5. \A n \in Out(base, r) : n \in Nat /\ n < F[c][1]
    BY OutBelow
  <1>6. Over(r, q, F, c, Out(base, r), Out(base, q))
    BY <1>4, <1>5, MovedOver
  <1>7. /\ Grows(Out(base, r), Out(base, q), F[c][1], F[c + 1][1])
        /\ q.lost => r.lost /\ Out(base, q) = Out(base, r)
        /\ q.in = c % UM_MOD
           \/ (q.in = r.in /\ (Out(base, q) = Out(base, r) \/ c % UM_MOD = Next1(r.in)))
    BY <1>6 DEF Over
  <1>8. CompletesTo(r, q, F, c, c % UM_MOD, Out(base, q))
    BY <1>4, CompletedOver
  <1>9. CASE Progress(r, F, c, A, Out(base, r))
    <2>1. F[c] \in SduByte
      BY DataIsBetween
    <2>2. F[c][2] > 1 /\ r.sdu = Part(F[c]) => PduBelongsToRxSdu(r.in, c % UM_MOD)
      <3>1. c \in 0..S /\ j \in Nat
        OBVIOUS
      <3> QED
        BY <2>1, <3>1, SinceIsBefore
    <2> QED
      BY <1>2, <1>7, <1>8, <1>9, <2>2, LineProgress
  <1>10. CASE Gap(r, F, c, A, Out(base, r)) /\ c # 0
    <2>1. c \in 1..(S - 1)
      BY <1>10
    <2> QED
      BY <1>2, <1>7, <1>8, <1>10, <2>1, GapEnds
  <1> QED
    BY <1>9, <1>10

(* It passes a number that is missing. *)
LEMMA LinePassesMissing ==
    ASSUME NEW F, NEW S \in Nat, PlacesRise(F, S), NEW c \in 0..(S - 1), NEW A, F[c] \notin A,
           NEW r \in RxRec, NEW base,
           Progress(r, F, c, A, Out(base, r)) \/ (Gap(r, F, c, A, Out(base, r)) /\ c # 0)
    PROVE  OnLine(r, F, c + 1, A, Out(base, r), TRUE)
  <1>1. CASE Progress(r, F, c, A, Out(base, r))
    <2> PICK O : O = Out(base, r)
      OBVIOUS
    <2>1. \A n \in O : n \in Nat /\ n < F[c][1]
      BY <1>1, OutBelow
    <2>2. F[c][1] \in Nat /\ F[c + 1][1] \in Nat /\ F[c][1] <= F[c + 1][1]
      <3>1. c \in 0..S /\ c + 1 \in c..S
        OBVIOUS
      <3> QED
        BY <3>1, PlaceOrder
    <2>3. Grows(O, O, F[c][1], F[c + 1][1])
      BY <2>1, <2>2 DEF Grows
    <2>4. r.in \in UmSN
      BY DEF RxRec
    <2>5. Progress(r, F, c + 1, A, O)
      BY <1>1, <2>3, <2>4, PassProgress
    <2> QED
      BY <2>5 DEF OnLine
  <1>2. CASE Gap(r, F, c, A, Out(base, r)) /\ c # 0
    <2>1. c \in 1..(S - 1)
      BY <1>2
    <2> QED
      BY <1>2, <2>1, GapGoesOn DEF OnLine
  <1> QED
    BY <1>1, <1>2

\* What is missing from place x on, n places, has not arrived.
NotArrived(win, F, x, n, A) ==
    \A i \in 1..n : (x + i - 1) % UM_MOD \notin DOMAIN win => F[x + i - 1] \notin A

\* Where the second loop starts: an expiry has lost what it had, at a place missing.
LineStarts(r, F, x, n, win, A, O) ==
    \/ Progress(r, F, x, A, O)
    \/ n # 0 /\ x % UM_MOD \notin DOMAIN win /\ Gap(r, F, x + 1, A, O)

(* The second loop completes all that it can. *)
LEMMA LineRunProgress ==
    ASSUME NEW win, NEW F, NEW S \in Nat, PlacesRise(F, S), InOrderUpTo(F, S),
           NEW x \in Nat, NEW n \in 0..(UM_MOD - 1), x + n <= S, HoldsPdus(win, F, x, n),
           n # 0 => (x + n - 1) % UM_MOD \in DOMAIN win,
           NEW lo \in Nat, lo <= F[x][1], NEW r, NEW in, in = (x - 1) % UM_MOD, Good(r, F[x], in, lo),
           NEW f, LineRun(f, win, r, x, n), NEW A, NotArrived(win, F, x, n, A),
           NEW base, LineStarts(r, F, x, n, win, A, Out(base, r))
    PROVE  Progress(f[n], F, x + n, A, Out(base, f[n]))
  <1>1. UM_MOD \in Nat \ {0} /\ n \in Nat
    BY Modulus
  <1>2. /\ GoodSince(f[0], F, x, 0, lo)
        /\ \A i \in 1..n : /\ GoodSince(f[i], F, x, i, lo)
                           /\ (x + i - 1) % UM_MOD \in DOMAIN win =>
                                 Good(f[i], F[x + i], (x + i - 1) % UM_MOD, lo)
    BY LineRunGood
  <1>3. /\ f[0] = r
        /\ \A i \in 1..n : f[i] = LinePass(f[i - 1], (x + i - 1) % UM_MOD, win)
    BY DEF LineRun
  <1>4. \A i \in 1..n : Handed(f[i].out, lo, F[x + i][1])
    BY <1>2 DEF GoodSince
  <1>5. \A i \in 0..n : f[i] \in RxRec /\ GoodSince(f[i], F, x, i, lo)
    <2> TAKE i \in 0..n
    <2>1. i = 0 \/ i \in 1..n
      OBVIOUS
    <2> QED
      BY <1>2, <2>1 DEF GoodSince
  <1> DEFINE T == {i \in 1..n : OnLine(f[i], F, x + i, A, Out(base, f[i]),
                                       (x + i - 1) % UM_MOD \notin DOMAIN win)}
  <1>6. ASSUME NEW i \in 1..n, NEW c, c = x + i - 1,
               \/ Progress(f[i - 1], F, c, A, Out(base, f[i - 1]))
               \/ Gap(f[i - 1], F, c, A, Out(base, f[i - 1])) /\ c # 0
        PROVE  i \in T
    <2> PICK g, s, j : g = f[i - 1] /\ s = c % UM_MOD /\ j = i - 1
      OBVIOUS
    <2>1. /\ c \in 0..(S - 1) /\ c + 1 = x + i /\ j \in 0..(UM_MOD - 2) /\ c = x + j
          /\ j \in 0..n /\ s = (x + i - 1) % UM_MOD
      BY <1>1, <1>6
    <2>2. f[i] = LinePass(g, s, win) /\ GoodSince(g, F, x, j, lo) /\ g \in RxRec
      BY <1>3, <1>5, <2>1
    <2>3. Handed(f[i].out, lo, F[c + 1][1])
      BY <1>4, <2>1
    <2>4. CASE s \in DOMAIN win
      <3>1. Spans(win[s], F[c], F[c + 1])
        BY <1>6, <2>1, <2>4 DEF HoldsPdus
      <3>2. \/ Progress(g, F, c, A, Out(base, g))
            \/ Gap(g, F, c, A, Out(base, g)) /\ c # 0
        BY <1>6
      <3>3. Progress(f[i], F, c + 1, A, Out(base, f[i]))
        BY <2>1, <2>2, <2>3, <2>4, <3>1, <3>2, LineTakesPdu
      <3> QED
        BY <2>1, <3>3 DEF OnLine
    <2>5. CASE s \notin DOMAIN win
      <3>1. F[c] \notin A
        BY <1>6, <2>1, <2>5 DEF NotArrived
      <3>2. OnLine(g, F, c + 1, A, Out(base, g), TRUE)
        BY <1>6, <2>1, <2>2, <3>1, LinePassesMissing
      <3>3. f[i] = g
        BY <2>2, <2>5 DEF LinePass
      <3> QED
        BY <2>1, <2>5, <3>2, <3>3 DEF OnLine
    <2> QED
      BY <2>4, <2>5
  <1>7. n > 0 => 1 \in T
    <2> SUFFICES ASSUME n > 0 PROVE 1 \in T
      OBVIOUS
    <2>1. 1 \in 1..n /\ 1 - 1 = 0 /\ x + 1 - 1 = x
      BY <1>1
    <2>2. CASE Progress(r, F, x, A, Out(base, r))
      <3> HIDE DEF T
      <3>1. x = x + 1 - 1 /\ Progress(f[1 - 1], F, x, A, Out(base, f[1 - 1]))
        BY <1>3, <2>1, <2>2
      <3> QED
        BY <1>6, <2>1, <3>1
    <2>3. CASE x % UM_MOD \notin DOMAIN win /\ Gap(r, F, x + 1, A, Out(base, r))
      <3>1. f[1] = r
        <4>1. f[1] = LinePass(f[0], x % UM_MOD, win)
          BY <1>3, <2>1
        <4> QED
          BY <1>3, <2>3, <4>1 DEF LinePass
      <3>2. (x + 1 - 1) % UM_MOD \notin DOMAIN win
        BY <2>1, <2>3
      <3> QED
        BY <2>1, <2>3, <3>1, <3>2 DEF OnLine
    <2> QED
      BY <2>2, <2>3 DEF LineStarts
  <1>8. ASSUME NEW i \in 1..(n - 1), i \in T PROVE i + 1 \in T
    <2>1. i + 1 \in 1..n /\ (i + 1) - 1 = i /\ x + i = x + (i + 1) - 1 /\ x + i # 0
      BY <1>1
    <2>2. \/ Progress(f[i], F, x + i, A, Out(base, f[i]))
          \/ Gap(f[i], F, x + i, A, Out(base, f[i])) /\ x + i # 0
      BY <1>8, <2>1 DEF OnLine
    <2> HIDE DEF T
    <2>3. \/ Progress(f[(i + 1) - 1], F, x + i, A, Out(base, f[(i + 1) - 1]))
          \/ Gap(f[(i + 1) - 1], F, x + i, A, Out(base, f[(i + 1) - 1])) /\ x + i # 0
      BY <2>1, <2>2
    <2> QED
      BY <1>6, <2>1, <2>3
  <1>9. \A i \in 1..n : i \in T
    <2> HIDE DEF T
    <2> QED
      BY <1>1, <1>7, <1>8, UpTo
  <1>10. CASE n = 0
    <2>1. x + n = x
      BY <1>10
    <2> QED
      BY <1>3, <1>10, <2>1 DEF LineStarts
  <1>11. CASE n # 0
    <2>1. n \in 1..n
      BY <1>1, <1>11
    <2>2. n \in T
      BY <1>9, <2>1
    <2> QED
      BY <1>11, <2>2 DEF OnLine
  <1> QED
    BY <1>10, <1>11

------------------------------------------------------------------------------
(* Reassembly of the window *)

(* The first loop loses no more than what is pushed out. *)
LEMMA EdgeRunProgress ==
    ASSUME NEW win, NEW F, NEW S \in Nat, PlacesRise(F, S), InOrderUpTo(F, S),
           NEW x \in Nat, NEW n \in 0..UM_MOD, x + n <= S, HoldsPdus(win, F, x, n),
           NEW lo \in Nat, lo <= F[x][1], NEW r, NEW in, in = (x - 1) % UM_MOD, Good(r, F[x], in, lo),
           NEW f, EdgeRun(f, win, r, x, n), NEW A, \A i \in 1..n : F[x + i - 1] \notin A,
           NEW base, Progress(r, F, x, A, Out(base, r))
    PROVE  Progress(f[n], F, x + n, A, Out(base, f[n]))
  <1>1. UM_MOD \in Nat \ {0} /\ n \in Nat
    BY Modulus
  <1>2. \A i \in 1..n : Good(f[i], F[x + i], (x + i - 1) % UM_MOD, lo)
    BY EdgeRunGood
  <1>3. /\ f[0] = r
        /\ \A i \in 1..n : f[i] = EdgePass(f[i - 1], (x + i - 1) % UM_MOD, win)
    BY DEF EdgeRun
  <1>4. \A i \in 1..n : Handed(f[i].out, lo, F[x + i][1])
    BY <1>2 DEF Good
  <1> DEFINE T == {i \in 1..n : Progress(f[i], F, x + i, A, Out(base, f[i]))}
  <1>5. ASSUME NEW i \in 1..n, NEW c, c = x + i - 1, NEW g, g = f[i - 1], NEW any, Good(g, F[c], any, lo),
               Progress(g, F, c, A, Out(base, g))
        PROVE i \in T
    <2> PICK s : s = c % UM_MOD
      OBVIOUS
    <2>1. c \in 0..(S - 1) /\ c + 1 = x + i /\ s = (x + i - 1) % UM_MOD
      BY <1>1, <1>5
    <2>2. f[i] = EdgePass(g, s, win)
      BY <1>3, <1>5, <2>1
    <2>3. Handed(f[i].out, lo, F[c + 1][1])
      BY <1>4, <2>1
    <2>4. s \in DOMAIN win => Spans(win[s], F[c], F[c + 1])
      BY <1>5, <2>1 DEF HoldsPdus
    <2>5. F[c] \notin A
      BY <1>5
    <2>6. Progress(f[i], F, c + 1, A, Out(base, f[i]))
      BY <1>5, <2>1, <2>2, <2>3, <2>4, <2>5, EdgeStepProgress
    <2> QED
      BY <2>1, <2>6
  <1>6. n > 0 => 1 \in T
    <2> SUFFICES ASSUME n > 0 PROVE 1 \in T
      OBVIOUS
    <2>1. 1 \in 1..n /\ r = f[1 - 1] /\ x = x + 1 - 1
      BY <1>1, <1>3
    <2> HIDE DEF T
    <2> QED
      BY <1>5, <2>1
  <1>7. ASSUME NEW i \in 1..(n - 1), i \in T PROVE i + 1 \in T
    <2>1. i + 1 \in 1..n /\ (i + 1) - 1 = i /\ x + i = x + (i + 1) - 1 /\ i \in 1..n
      BY <1>1
    <2> PICK any : any = (x + i - 1) % UM_MOD
      OBVIOUS
    <2>2. Progress(f[i], F, x + i, A, Out(base, f[i])) /\ Good(f[i], F[x + i], any, lo)
      BY <1>2, <1>7, <2>1
    <2>3. f[i] = f[(i + 1) - 1]
      BY <2>1
    <2> HIDE DEF T
    <2> QED
      BY <1>5, <2>1, <2>2, <2>3
  <1>8. \A i \in 1..n : i \in T
    <2> HIDE DEF T
    <2> QED
      BY <1>1, <1>6, <1>7, UpTo
  <1>9. CASE n = 0
    <2>1. x + n = x
      BY <1>9
    <2> QED
      BY <1>3, <1>9, <2>1
  <1>10. CASE n # 0
    <2>1. n \in T
      BY <1>1, <1>8, <1>10
    <2> QED
      BY <2>1
  <1> QED
    BY <1>9, <1>10

(* What has been pushed out is not seen again. *)
LEMMA ProgressLess ==
    ASSUME NEW F, NEW R \in Nat, NEW A, NEW A2, \A d \in 0..(R - 1) : F[d] \in A2 => F[d] \in A,
           NEW O, NEW r, Progress(r, F, R, A, O)
    PROVE  Progress(r, F, R, A2, O)
  <1>1. \A id : AllOf(F, A2, id, R) => AllOf(F, A, id, R)
    BY DEF AllOf
  <1> QED
    BY <1>1 DEF Progress, Done

(* Both loops. *)
LEMMA TakeProgress ==
    ASSUME NEW H, NEW R, NEW K, WindowAt(H, R, K), NEW c \in Nat, R <= c, c < H + UM_WINDOW,
           NEW n1, NEW ur1, NEW n2, NEW ur2, NEW W2, NEW R1, NEW R2,
           LoopsGone(H, R, K, c, n1, ur1, n2, ur2, W2, R1, R2),
           NEW F, NEW S \in Nat, PlacesRise(F, S), InOrderUpTo(F, S), HighAfter(H, c) <= S,
           NEW win, HeldPdus(win, F, K \cup {c}),
           NEW lo \in Nat, lo <= F[R][1], NEW r, GoodAt(r, F, R, lo),
           NEW A, \A d \in R..(HighAfter(H, c) - 1) : d + UM_WINDOW < HighAfter(H, c) => F[d] \notin A,
           NEW base, Progress(r, F, R, A, Out(base, r)),
           NEW q, q = PassLine(win, PassEdge(win, r, R % UM_MOD, n1), ur1, n2)
    PROVE  Progress(q, F, R2, A, Out(base, q))
  <1>a. PICK M, W : M = UM_MOD /\ W = UM_WINDOW
    OBVIOUS
  <1>1. M \in Nat \ {0} /\ W \in Nat \ {0} /\ M = W + W
    BY <1>a, Modulus
  <1>b. PICK H2, K1 : H2 = HighAfter(H, c) /\ K1 = K \cup {c}
    OBVIOUS
  <1>2. /\ H \in Nat /\ R \in Nat /\ R <= H /\ H <= R + W /\ K \in SUBSET Nat
        /\ \A d \in K : R < d /\ d < H
    BY <1>a DEF WindowAt
  <1>3. /\ n1 \in 0..W /\ n2 \in 0..W /\ R1 \in Nat /\ R1 = R + n1 /\ R2 \in Nat /\ R2 = R1 + n2
        /\ ur1 = R1 % UM_MOD /\ \A i \in 1..n2 : R1 + i - 1 \in K1
        /\ R1 < H2 /\ R2 <= H2 /\ H2 <= R1 + W
    BY <1>a, <1>b DEF LoopsGone
  <1>14. \A d \in R..(R1 - 1) : d + UM_WINDOW < H2
    BY <1>b DEF LoopsGone
  <1>4. H2 \in Nat /\ H2 <= S /\ H2 <= R + M
    <2>1. H2 \in Nat /\ H2 <= R + M
      BY <1>1, <1>2, <1>a, <1>b DEF HighAfter
    <2> QED
      BY <1>b, <2>1
  <1>5. K1 \in SUBSET Nat /\ \A d \in K1 : R <= d /\ d < R + UM_MOD
    <2>1. c < R + UM_MOD
      BY <1>1, <1>2, <1>a
    <2>2. \A d \in K : R <= d /\ d < R + UM_MOD
      <3> TAKE d \in K
      <3>1. d \in Nat /\ R < d /\ d < H
        BY <1>2
      <3> QED
        BY <1>1, <1>2, <1>a, <3>1
    <2> QED
      BY <1>2, <1>b, <2>1, <2>2
  <1>6. PdusIn(win) /\ HeldPdus(win, F, K1)
    BY <1>b, HeldArePdus
  <1>7. HoldsPdus(win, F, R, n1) /\ HoldsPdus(win, F, R1, n2)
    <2>1. n1 \in Nat /\ n2 \in Nat /\ R <= R /\ R + n1 <= R + UM_MOD /\ R <= R1 /\ R1 + n2 <= R + UM_MOD
      BY <1>1, <1>2, <1>3, <1>4, <1>a
    <2> QED
      BY <1>2, <1>3, <1>5, <1>6, <2>1, HoldsFrom
  <1>8. PICK in : in = (R - 1) % UM_MOD /\ Good(r, F[R], in, lo)
    BY DEF GoodAt
  <1>n. n1 \in 0..UM_MOD /\ R + n1 <= S /\ n1 \in Nat /\ n1 <= UM_MOD
    BY <1>1, <1>2, <1>3, <1>4, <1>a
  <1>m. n2 \in 0..(UM_MOD - 1) /\ R1 + n2 <= S /\ n2 \in Nat /\ n2 <= UM_MOD
    BY <1>1, <1>2, <1>3, <1>4, <1>a
  <1>9. r \in RxRec
    BY <1>8 DEF Good
  <1>f. PICK f : EdgeRun(f, win, r, R, n1)
    BY <1>2, <1>6, <1>9, <1>n, EdgeRuns
  <1>c. PICK r1 : r1 = PassEdge(win, r, R % UM_MOD, n1)
    OBVIOUS
  <1>10. f[n1] = r1 /\ R + n1 = R1
    BY <1>3, <1>c, <1>f DEF EdgeRun
  <1>11. Progress(r1, F, R1, A, Out(base, r1))
    <2>1. \A i \in 1..n1 : F[R + i - 1] \notin A
      <3> TAKE i \in 1..n1
      <3>1. PICK d : d = R + i - 1
        OBVIOUS
      <3>2. d \in R..(R1 - 1) /\ d \in R..(H2 - 1)
        BY <1>2, <1>3, <1>4, <3>1
      <3>3. d + UM_WINDOW < H2
        BY <1>14, <3>2
      <3> QED
        BY <1>b, <3>1, <3>2, <3>3
    <2>2. Progress(f[n1], F, R + n1, A, Out(base, f[n1]))
      BY <1>2, <1>7, <1>8, <1>n, <1>f, <2>1, EdgeRunProgress
    <2> QED
      BY <1>10, <2>2
  <1>12. \E in1 : in1 = (R1 - 1) % UM_MOD /\ Good(r1, F[R1], in1, lo)
    <2>1. \E out : out = (R + n1 - 1) % UM_MOD /\ Good(f[n1], F[R + n1], out, lo)
      BY <1>2, <1>7, <1>8, <1>n, <1>f, EdgeRunGood
    <2>2. R + n1 - 1 = R1 - 1
      BY <1>2, <1>3
    <2> QED
      BY <1>10, <2>1, <2>2
  <1>13. PICK in1 : in1 = (R1 - 1) % UM_MOD /\ Good(r1, F[R1], in1, lo)
    BY <1>12
  <1>15. lo <= F[R1][1]
    <2>1. R \in 0..S /\ R1 \in R..S
      BY <1>2, <1>3, <1>4
    <2>2. F[R][1] \in Nat /\ F[R1][1] \in Nat /\ F[R][1] <= F[R1][1]
      BY <2>1, PlaceOrder
    <2> QED
      BY <2>2
  <1>16. \A i \in 1..n2 : (R1 + i - 1) % UM_MOD \in DOMAIN win
    BY <1>3, <1>6 DEF HeldPdus, Numbers
  <1>17. n2 # 0 => (R1 + n2 - 1) % UM_MOD \in DOMAIN win
    <2> SUFFICES ASSUME n2 # 0 PROVE (R1 + n2 - 1) % UM_MOD \in DOMAIN win
      OBVIOUS
    <2>1. n2 \in 1..n2
      BY <1>3
    <2> QED
      BY <1>16, <2>1
  <1>g. PICK g : LineRun(g, win, r1, R1, n2)
    <2>1. r1 \in RxRec
      BY <1>13 DEF Good
    <2> QED
      BY <1>3, <1>6, <1>m, <2>1, LineRuns
  <1>18. q = g[n2] /\ R1 + n2 = R2
    BY <1>3, <1>c, <1>g DEF LineRun
  <1>19. NotArrived(win, F, R1, n2, A) /\ LineStarts(r1, F, R1, n2, win, A, Out(base, r1))
    BY <1>11, <1>16 DEF NotArrived, LineStarts
  <1>20. Progress(g[n2], F, R1 + n2, A, Out(base, g[n2]))
    BY <1>3, <1>7, <1>13, <1>15, <1>17, <1>19, <1>m, <1>g, LineRunProgress
  <1> QED
    BY <1>18, <1>20

------------------------------------------------------------------------------
(* What a PDU, and an expiry, make of the receiver *)

\* SDUs out go to the PDCP entity, and VR(UR) stands at place R2 with places K2 held.
MovesTo(H2, R2, K2, F, R, A, base, out) ==
    /\ WindowAt(H2, R2, K2) /\ vr_ur' = R2 % UM_MOD /\ DOMAIN rx_window' = Numbers(K2)
    /\ Handed(out, F[R][1], F[R2][1]) /\ PdcpWritePdus(rx_st, out)
    /\ Progress(Members', F, R2, A, base \cup Ids(out))

LEMMA NoneOut ==
    ASSUME NEW base, NEW r, r.out = << >>
    PROVE  Out(base, r) = base
  <1>1. Len(<< >>) = 0
    BY EmptySeq
  <1>2. Ids(r.out) = {}
    BY <1>1 DEF Ids
  <1> QED
    BY <1>2 DEF Out

\* What the loops leave is where the members go on from.
LEMMA ProgressLeft ==
    ASSUME NEW r, Reassembled(r, rx_st), NEW F, NEW x, NEW A, NEW base, Progress(r, F, x, A, Out(base, r))
    PROVE  Progress(Members', F, x, A, base \cup Ids(r.out)) /\ PdcpWritePdus(rx_st, r.out)
  <1>1. /\ (Members').sdu = r.sdu /\ (Members').in = r.in /\ (Members').lost = r.lost
        /\ PdcpWritePdus(rx_st, r.out)
    BY DEF Members, Reassembled
  <1>2. PICK m : m = Members'
    OBVIOUS
  <1>3. m.sdu = r.sdu /\ m.in = r.in /\ m.lost = r.lost
    BY <1>1, <1>2
  <1>4. Progress(m, F, x, A, base \cup Ids(r.out))
    BY <1>3 DEF Progress, Out
  <1> QED
    BY <1>1, <1>2, <1>4

(* A PDU of place c is taken. *)
LEMMA TakesProgress ==
    ASSUME NEW H, NEW R, NEW K, NEW F, RxAt(H, R, K, F), NEW S \in Nat, PlacesRise(F, S), InOrderUpTo(F, S),
           NEW c \in Nat, H <= c + UM_WINDOW, c < H + UM_WINDOW, NEW H2, H2 = HighAfter(H, c), H2 <= S,
           NEW pdu \in RxPdu, pdu.sn = c % UM_MOD, Spans(pdu, F[c], F[c + 1]),
           HandleDataPdu(pdu), ~Discarded(pdu.sn),
           NEW A, \A d \in R..(H2 - 1) : d + UM_WINDOW < H2 => F[d] \notin A,
           NEW base, Progress(Members, F, R, A, base)
    PROVE  \E R2, K2, out : /\ MovesTo(H2, R2, K2, F, R, A, base, out)
                            /\ R \in 0..S /\ R2 \in R..H2 /\ R2 \notin K \cup {c}
                            /\ K2 = {d \in K \cup {c} : R2 < d}
  <1>2. /\ WindowAt(H, R, K) /\ vr_uh = H % UM_MOD /\ vr_ur = R % UM_MOD
        /\ HeldPdus(rx_window, F, K) /\ DOMAIN rx_window = Numbers(K)
        /\ GoodAt(Members, F, R, F[R][1])
    BY DEF RxAt, HeldPdus
  <1>sn. PICK sn : sn = pdu.sn
    OBVIOUS
  <1>W. PICK D : D = DOMAIN rx_window \cup {sn}
    OBVIOUS
  <1>win. PICK win : win = WithPdu(rx_window, pdu)
    OBVIOUS
  <1>uh. PICK uh : uh = High(sn, vr_uh, D)
    OBVIOUS
  <1>n1. PICK n1 : n1 = CatchUp(vr_ur, uh, D)
    OBVIOUS
  <1>x. PICK x : x = (vr_ur + n1) % UM_MOD
    OBVIOUS
  <1>W1. PICK D1 : D1 = LeftAfter(D, vr_ur, n1)
    OBVIOUS
  <1>n2. PICK n2 : n2 = InSequence(x, D1)
    OBVIOUS
  <1>y. PICK y : y = (x + n2) % UM_MOD
    OBVIOUS
  <1>W2. PICK D2 : D2 = LeftAfter(D1, x, n2)
    OBVIOUS
  <1>r. PICK r : r = PassLine(win, PassEdge(win, Members, vr_ur, n1), x, n2)
    OBVIOUS
  <1>3. vr_ur' = y /\ DOMAIN rx_window' = D2 /\ Reassembled(r, rx_st)
    <2>1. vr_ur' = y
      BY <1>sn, <1>W, <1>uh, <1>n1, <1>x, <1>W1, <1>n2, <1>y, <1>W2 DEF HandleDataPdu, High
    <2>2. DOMAIN rx_window' = D2
      BY <1>sn, <1>W, <1>win, <1>uh, <1>n1, <1>x, <1>W1, <1>n2, <1>y, <1>W2 DEF HandleDataPdu, High
    <2>3. Reassembled(r, rx_st)
      BY <1>sn, <1>W, <1>win, <1>uh, <1>n1, <1>x, <1>W1, <1>n2, <1>r DEF HandleDataPdu, High
    <2> QED
      BY <2>1, <2>2, <2>3
  <1>5. R <= c /\ c \notin K
    BY <1>2, DiscardedPlaces
  <1>6. H \in Nat /\ R \in Nat /\ R <= H /\ H <= R + UM_WINDOW /\ K \in SUBSET Nat
    BY <1>2 DEF WindowAt
  <1>7. D = Numbers(K \cup {c}) /\ D # {}
    BY <1>2, <1>sn, <1>W DEF Numbers
  <1>8. uh = H2 % UM_MOD
    <2>1. sn = c % UM_MOD /\ vr_uh = H % UM_MOD /\ uh = High(sn, vr_uh, D) /\ D # {} /\ H \in Nat
      BY <1>2, <1>6, <1>7, <1>sn, <1>uh
    <2>2. uh = HighAfter(H, c) % UM_MOD
      BY <2>1, HighMoves, Zenon
    <2> QED
      BY <2>2
  <1>9. LoopsGo(H, R, K, c, n1, x, n2, y, D2)
    BY <1>2, <1>7, <1>8, <1>n1, <1>x, <1>W1, <1>n2, <1>y, <1>W2 DEF LoopsGo
  <1>10. PICK R1, R2 : LoopsGone(H, R, K, c, n1, x, n2, y, D2, R1, R2)
    BY <1>2, <1>5, <1>9, LoopsPlaces
  <1>k. PICK K2 : K2 = {d \in K \cup {c} : R2 < d}
    OBVIOUS
  <1>11. /\ n1 \in Nat /\ n2 \in Nat /\ R1 = R + n1 /\ R2 = R1 + n2 /\ R2 \in Nat /\ y = R2 % UM_MOD
         /\ R2 \notin K \cup {c} /\ D2 = Numbers(K2) /\ R2 <= H2 /\ WindowAt(H2, R2, K2)
    BY <1>k, <1>10 DEF LoopsGone
  <1>12. H2 \in Nat /\ R2 \in R..H2 /\ R \in 0..S /\ R2 \in R..S
    <2>1. H2 \in Nat
      BY <1>6 DEF HighAfter
    <2> QED
      BY <1>6, <1>11, <2>1
  <1>14. HeldPdus(win, F, K \cup {c})
    BY <1>2, <1>5, <1>sn, <1>win, HeldWithPdu
  <1>16. F[R][1] \in Nat /\ F[R2][1] \in Nat
    BY <1>12, PlaceOrder
  <1>17. GoodAt(r, F, R2, F[R][1])
    BY <1>2, <1>5, <1>10, <1>14, <1>16, <1>r, TakeReassembles
  <1>18. Handed(r.out, F[R][1], F[R2][1])
    BY <1>17 DEF GoodAt, Good
  <1>19. Progress(r, F, R2, A, Out(base, r))
    <2>1. Members.out = << >>
      BY DEF Members
    <2> PICK m : m = Members
      OBVIOUS
    <2>2. Progress(m, F, R, A, Out(base, m)) /\ GoodAt(m, F, R, F[R][1])
      BY <1>2, <2>1, NoneOut
    <2>3. r = PassLine(win, PassEdge(win, m, R % UM_MOD, n1), x, n2)
      BY <1>2, <1>r
    <2>4. F[R][1] <= F[R][1]
      BY <1>16
    <2> QED
      BY <1>2, <1>5, <1>10, <1>14, <1>16, <2>2, <2>3, <2>4, TakeProgress
  <1>20. Progress(Members', F, R2, A, base \cup Ids(r.out)) /\ PdcpWritePdus(rx_st, r.out)
    BY <1>3, <1>19, ProgressLeft
  <1>21. MovesTo(H2, R2, K2, F, R, A, base, r.out)
    BY <1>3, <1>11, <1>18, <1>20 DEF MovesTo
  <1> QED
    BY <1>11, <1>12, <1>21, <1>k

(* The reordering timer expires, while PDUs are held. *)
LEMMA ExpiresProgress ==
    ASSUME NEW H, NEW R, NEW K, NEW F, RxAt(H, R, K, F), NEW S \in Nat, PlacesRise(F, S), InOrderUpTo(F, S),
           H <= S, ReorderingExpired, DOMAIN rx_window # {},
           NEW A, \A d \in R..(H - 1) : d \notin K => F[d] \notin A,
           NEW base, Progress(Members, F, R, A, base)
    PROVE  \E R2, K2, out : /\ MovesTo(H, R2, K2, F, R, A, base, out)
                            /\ R \in 0..S /\ R2 \in R..H /\ R2 \notin K
                            /\ K2 = {d \in K : R2 < d}
  <1>a. PICK M, W : M = UM_MOD /\ W = UM_WINDOW
    OBVIOUS
  <1>1. M \in Nat \ {0} /\ W \in Nat \ {0} /\ M = W + W
    BY <1>a, Modulus
  <1>2. /\ UmRxInv /\ WindowAt(H, R, K) /\ vr_uh = H % UM_MOD /\ vr_ur = R % UM_MOD
        /\ HeldPdus(rx_window, F, K) /\ DOMAIN rx_window = Numbers(K)
        /\ GoodAt(Members, F, R, F[R][1])
    BY DEF RxAt, HeldPdus
  <1>3. /\ H \in Nat /\ R \in Nat /\ R <= H /\ H <= R + W /\ K \in SUBSET Nat
        /\ (\A d \in K : R < d /\ d < H) /\ (R < H => H - 1 \in K)
    BY <1>2, <1>a DEF WindowAt
  <1>4. K # {} /\ R < H
    <2>1. K # {}
      BY <1>2 DEF Numbers
    <2>2. PICK d \in K : d \in Nat /\ R < d /\ d < H
      BY <1>3, <2>1
    <2> QED
      BY <1>3, <2>1, <2>2
  <1>e. PICK e : e = ExpiryMoves
    OBVIOUS
  <1>r. PICK r, q : r = MembersAtExpiry /\ q = AtExpiry
    OBVIOUS
  <1>5. /\ reordering_running /\ vr_ur' = UrAtExpiry /\ Reassembled(q, rx_st)
        /\ rx_window' = Restrict(rx_window, LeftAfter(DOMAIN rx_window, vr_ur, ExpiryMoves))
    BY <1>r DEF ReorderingExpired
  <1>6. /\ e \in 0..W /\ R + e <= H /\ R + e \notin K /\ (e # 0 => R + e - 1 \in K) /\ e # 0
    BY <1>4, <1>5, <1>a, <1>e, ExpiryMovesTo
  <1>7. PICK R2 : ExpiryGoes(H, R, K, F, R2)
    BY <1>5, ExpiryTo
  <1>k. PICK K2 : K2 = {d \in K : R2 < d}
    OBVIOUS
  <1>8. /\ R2 \in Nat /\ R <= R2 /\ R2 <= H /\ WindowAt(H, R2, K2) /\ UrAtExpiry = R2 % UM_MOD
        /\ LeftAfter(DOMAIN rx_window, vr_ur, ExpiryMoves) = Numbers(K2)
        /\ GoodAt(q, F, R2, F[R][1])
    BY <1>7, <1>k, <1>r DEF ExpiryGoes
  <1>9. R2 = R + e
    <2>1. UrAtExpiry = (R + e) % UM_MOD
      <3>1. e \in 0..UM_MOD
        BY <1>1, <1>6, <1>a
      <3>2. ((R % UM_MOD) + e) % UM_MOD = (R + e) % UM_MOD
        BY <1>3, <3>1, NumberAhead
      <3>3. UrAtExpiry = ((R % UM_MOD) + e) % UM_MOD
        BY <1>2, <1>e DEF UrAtExpiry
      <3> QED
        BY <3>2, <3>3
    <2> PICK z : z = R + e
      OBVIOUS
    <2>2. z \in Nat /\ R <= z /\ z < R + UM_MOD /\ R <= R2 /\ R2 < R + UM_MOD
      BY <1>1, <1>3, <1>6, <1>8, <1>a
    <2>3. z % UM_MOD = R2 % UM_MOD
      BY <1>8, <2>1
    <2> QED
      BY <1>3, <1>8, <2>2, <2>3, NumberIsPlace
  <1>10. R2 \in R..H /\ R \in 0..S /\ R \in 0..(S - 1) /\ R2 \notin K
    BY <1>3, <1>4, <1>6, <1>8, <1>9
  <1>11. F[R] \notin A /\ R \notin K
    BY <1>3, <1>4
  <1>12. r.out = << >> /\ r.sdu = << >> /\ r.in = vr_ur_in_rx_sdu
    BY <1>r DEF MembersAtExpiry, Members
  <1>13. Gap(r, F, R + 1, A, base)
    <2>1. Members.in = r.in
      BY <1>12 DEF Members
    <2> QED
      BY <1>10, <1>11, <1>12, <2>1, GapStarts
  <1>14. \A d \in K : R <= d /\ d < R + UM_MOD
    <2> TAKE d \in K
    <2>1. d \in Nat /\ R < d /\ d < H
      BY <1>3
    <2> QED
      BY <1>1, <1>3, <1>a, <2>1
  <1>15. LineStarts(r, F, R, e, rx_window, A, Out(base, r))
    <2>1. R % UM_MOD \notin DOMAIN rx_window
      <3>1. R <= R /\ R < R + UM_MOD
        BY <1>1, <1>3, <1>a
      <3>2. R % UM_MOD \in Numbers(K) <=> R \in K
        BY <1>3, <1>14, <3>1, InNumbers
      <3> QED
        BY <1>2, <1>11, <3>2
    <2>2. Out(base, r) = base
      BY <1>12, NoneOut
    <2> QED
      BY <1>6, <1>13, <2>1, <2>2 DEF LineStarts
  <1>16. NotArrived(rx_window, F, R, e, A)
    <2> SUFFICES ASSUME NEW i \in 1..e, (R + i - 1) % UM_MOD \notin DOMAIN rx_window
                 PROVE  F[R + i - 1] \notin A
      BY DEF NotArrived
    <2> PICK d : d = R + i - 1
      OBVIOUS
    <2>1. d \in R..(H - 1)
      BY <1>3, <1>6
    <2>2. d \notin K
      BY <1>2 DEF Numbers
    <2> QED
      BY <2>1, <2>2
  <1>17. PdusIn(rx_window)
    BY <1>2, HeldArePdus
  <1>18. HoldsPdus(rx_window, F, R, e)
    <2>1. R <= R /\ R + e <= R + UM_MOD /\ e \in Nat
      BY <1>1, <1>3, <1>6, <1>a
    <2> QED
      BY <1>2, <1>3, <1>14, <2>1, HoldsFrom
  <1>19. e # 0 => (R + e - 1) % UM_MOD \in DOMAIN rx_window
    BY <1>2, <1>6 DEF Numbers
  <1>20. PICK in : in = (R - 1) % UM_MOD /\ Good(r, F[R], in, F[R][1])
    <2>1. PICK in : in = (R - 1) % UM_MOD /\ Good(Members, F[R], in, F[R][1])
      BY <1>2 DEF GoodAt
    <2>m. PICK m : m = Members
      OBVIOUS
    <2>2. m \in RxRec /\ Handed(m.out, F[R][1], F[R][1])
      BY <2>1, <2>m DEF Good
    <2>3. r = [m EXCEPT !.lost = TRUE, !.sdu = << >>]
      BY <1>r, <2>m DEF MembersAtExpiry
    <2>4. r \in RxRec /\ r.sdu = << >> /\ r.out = m.out
      BY <2>2, <2>3, EmptySeq DEF RxRec
    <2>5. Good(r, F[R], in, F[R][1])
      BY <2>2, <2>4 DEF Good
    <2> QED
      BY <2>1, <2>5
  <1>21. F[R][1] \in Nat /\ F[R][1] <= F[R][1]
    <2>1. F[R][1] \in Nat
      BY <1>10 DEF InOrderUpTo
    <2> QED
      BY <2>1
  <1>22. e \in 0..(UM_MOD - 1) /\ R + e <= S /\ e \in Nat /\ e <= UM_MOD
    BY <1>1, <1>3, <1>6, <1>a
  <1>23. PICK f : LineRun(f, rx_window, r, R, e)
    <2>1. r \in RxRec
      BY <1>20 DEF Good
    <2> QED
      BY <1>3, <1>17, <1>22, <2>1, LineRuns
  <1>24. q = f[e]
    <2>1. q = PassLine(rx_window, r, R % UM_MOD, e)
      BY <1>2, <1>e, <1>r DEF AtExpiry
    <2> QED
      BY <1>23, <2>1 DEF LineRun
  <1>25. Progress(f[e], F, R + e, A, Out(base, f[e]))
    BY <1>3, <1>15, <1>16, <1>18, <1>19, <1>20, <1>21, <1>22, <1>23, LineRunProgress
  <1>26. Progress(q, F, R2, A, Out(base, q))
    BY <1>9, <1>24, <1>25
  <1>27. Progress(Members', F, R2, A, base \cup Ids(q.out)) /\ PdcpWritePdus(rx_st, q.out)
    BY <1>5, <1>26, ProgressLeft
  <1>28. Handed(q.out, F[R][1], F[R2][1])
    BY <1>8 DEF GoodAt, Good
  <1>29. DOMAIN rx_window' = Numbers(K2)
    BY <1>5, <1>8 DEF Restrict
  <1>30. MovesTo(H, R2, K2, F, R, A, base, q.out)
    BY <1>5, <1>8, <1>27, <1>28, <1>29 DEF MovesTo
  <1> QED
    BY <1>10, <1>30, <1>k

------------------------------------------------------------------------------
(* What is delivered of what has arrived *)

\* The SDUs delivered, and those of them after the first B.
DeliveredOf(out) == {Id(out[i]) : i \in 1..Len(out)}
Since(D, B) == {n \in D : B < n}

\* With bytes A and SDUs D, SDU id is not one that is missing without being lost.
Kept(id, A, D, w) ==
    /\ BytesIn(SduBytes(id)) \subseteq A
    /\ \E n \in 1..(id - 1) : n \in D /\ w[id] - w[n] = id - n /\ (id - n) * SduLen < UM_MOD
    => id \in D

\* What is past when a stream begins after the first B SDUs is settled.
SettledAt(B, A, D, w) == \A id \in 1..B : Kept(id, A, D, w)

\* Bytes A have arrived, SDUs D are delivered, and m are the members of reassembly.
Reached(A, D, m, w, H, R, K, F, S, B) ==
    /\ PlacesRise(F, S)
    /\ ArrivedAt(A, H, R, K, F, S, B)
    /\ Progress(m, F, R, A, Since(D, B))
    /\ SettledAt(B, A, D, w)

(* What is settled does not change: no byte of it arrives, none of it is delivered. *)
LEMMA SettledOn ==
    ASSUME NEW B \in Nat, NEW A, NEW D, NEW w, SettledAt(B, A, D, w),
           NEW A2, \A b \in A2 : b[1] <= B => b \in A,
           NEW D2, D \subseteq D2, \A n \in D2 : n \in Nat /\ (n <= B => n \in D),
           NEW w2, \A i \in 1..B : w2[i] = w[i]
    PROVE  SettledAt(B, A2, D2, w2)
  <1> SUFFICES ASSUME NEW id \in 1..B, BytesIn(SduBytes(id)) \subseteq A2,
                      NEW n \in 1..(id - 1), n \in D2, w2[id] - w2[n] = id - n,
                      (id - n) * SduLen < UM_MOD
               PROVE  id \in D2
    BY DEF SettledAt, Kept
  <1>1. BytesIn(SduBytes(id)) \subseteq A
    <2> SUFFICES ASSUME NEW b \in BytesIn(SduBytes(id)) PROVE b \in A
      OBVIOUS
    <2>1. b[1] = id
      <3>1. Len(SduBytes(id)) = SduLen /\ \A i \in 1..SduLen : SduBytes(id)[i] = <<id, i>>
        BY SduAssumption DEF SduBytes
      <3>2. PICK i \in 1..SduLen : b = SduBytes(id)[i]
        BY <3>1 DEF BytesIn
      <3> QED
        BY <3>1, <3>2
    <2> QED
      BY <2>1
  <1>2. n \in 1..B /\ n <= B
    OBVIOUS
  <1>3. n \in D /\ w[id] - w[n] = id - n
    BY <1>2
  <1> QED
    BY <1>1, <1>3 DEF SettledAt, Kept

(* While nothing is held, all that is not lost is delivered. *)
LEMMA AllSeenTo ==
    ASSUME NEW A, NEW D, NEW m, NEW w, NEW R \in Nat, NEW F, NEW S \in Nat, NEW B \in Nat, R <= S,
           Reached(A, D, m, w, R, R, {}, F, S, B),
           \A c \in 0..S : B < F[c][1],
           NEW l \in Nat, l <= MaxSdus, \A i \in 1..l : w[i] \in Nat,
           \A i \in (B + 1)..l : w[i] = (i - B) - 1
    PROVE  \A id \in 1..l : Kept(id, A, D, w)
  <1> SUFFICES ASSUME NEW id \in 1..l, BytesIn(SduBytes(id)) \subseteq A,
                      NEW n \in 1..(id - 1), n \in D, w[id] - w[n] = id - n,
                      (id - n) * SduLen < UM_MOD
               PROVE  id \in D
    BY DEF Kept
  <1>1. CASE id <= B
    <2>1. id \in 1..B
      BY <1>1
    <2> QED
      BY <2>1 DEF Reached, SettledAt, Kept
  <1>2. CASE B < id
    <2>1. PlacesRise(F, S) /\ ArrivedAt(A, R, R, {}, F, S, B) /\ Done(F, A, R, Since(D, B))
      BY DEF Reached, Progress
    <2>2. B < n
      <3>1. w[id] = (id - B) - 1 /\ w[n] \in Nat
        BY <1>2
      <3> QED
        BY <3>1
    <2>3. id \in 1..MaxSdus /\ SduLen \in 1..SduLen /\ 1 \in 1..SduLen /\ R \in 0..S
      BY SduAssumption
    <2> PICK a, z : a = <<id, 1>> /\ z = <<id, SduLen>>
      OBVIOUS
    <2>4. a \in A /\ z \in A /\ a[1] = id /\ z[1] = id /\ IsByte(a) /\ IsByte(z) /\ a \in SduByte
      BY <2>3, BytesOf, SduByteIsByte
    <2>5. Pos(z) < Pos(F[R])
      BY <1>2, <2>1, <2>4 DEF ArrivedAt
    <2>6. IsByte(F[R]) /\ F[R][1] \in Nat /\ F[R][2] \in 1..SduLen
      <3>1. IsByte(F[R])
        BY <2>1, <2>3 DEF PlacesRise
      <3> QED
        BY <3>1 DEF IsByte
    <2>7. id < F[R][1]
      <3> SUFFICES ASSUME F[R][1] <= id PROVE FALSE
        BY <2>6
      <3>1. CASE F[R][1] < id
        <4>1. Pos(F[R]) < Pos(z)
          BY <2>4, <2>6, <3>1, PosOrder
        <4> QED
          BY <2>4, <2>5, <2>6, <4>1, PosIn
      <3>2. CASE F[R][1] = id
        <4>1. z[2] < F[R][2]
          BY <2>4, <2>5, <2>6, <3>2, PosOrder
        <4>2. z[2] = SduLen
          OBVIOUS
        <4> QED
          BY <2>6, <4>1, <4>2, SduAssumption
      <3> QED
        BY <2>6, <3>1, <3>2
    <2>8. AllOf(F, A, id, R)
      <3> SUFFICES ASSUME NEW d \in 0..(R - 1), CarriesOf(F, d, id)
                   PROVE  F[d] \in A
        BY DEF AllOf
      <3>1. d \in 0..S /\ d \in 0..(S - 1) /\ d + 1 \in 0..S
        OBVIOUS
      <3>2. IsByte(F[d]) /\ IsByte(F[d + 1])
        BY <2>1, <3>1 DEF PlacesRise
      <3>3. F[d][1] \in Nat /\ F[d][2] \in 1..SduLen /\ F[d] = <<F[d][1], F[d][2]>>
            /\ F[d + 1][1] \in Nat /\ F[d + 1][2] \in 1..SduLen
        BY <3>2 DEF IsByte
      <3>4. F[d][1] <= id /\ (id < F[d + 1][1] \/ (F[d + 1][1] = id /\ F[d + 1][2] > 1))
        BY DEF CarriesOf
      <3>5. CASE F[d][1] = id
        <4>1. F[d] \in BytesIn(SduBytes(id))
          BY <2>3, <3>3, <3>5, BytesOf
        <4> QED
          BY <4>1
      <3>6. CASE F[d][1] < id
        <4>1. Pos(F[d]) < Pos(a)
          BY <2>4, <3>2, <3>6, PosOrder
        <4>2. Pos(a) < Pos(F[d + 1])
          <5>1. a[2] = 1
            OBVIOUS
          <5>2. a[1] = F[d + 1][1] /\ a[2] < F[d + 1][2] => Pos(a) < Pos(F[d + 1])
            BY <2>4, <3>2, PosOrder
          <5>3. a[1] < F[d + 1][1] => Pos(a) < Pos(F[d + 1])
            BY <2>4, <3>2, PosOrder
          <5> QED
            BY <2>4, <3>4, <5>1, <5>2, <5>3
        <4>3. Pos(F[d]) <= Pos(a)
          BY <2>4, <3>2, <4>1, PosIn
        <4>4. a \in PlaceBytes(F, d)
          BY <2>4, <4>2, <4>3 DEF PlaceBytes, Between
        <4> QED
          BY <2>1, <2>4, <3>1, <4>4 DEF ArrivedAt
      <3> QED
        BY <3>3, <3>4, <3>5, <3>6
    <2>9. Recent(Since(D, B), id)
      BY <2>2 DEF Recent, Since
    <2>10. id \in 1..(F[R][1] - 1)
      BY <2>6, <2>7
    <2>11. id \in Since(D, B)
      BY <2>1, <2>8, <2>9, <2>10 DEF Done
    <2> QED
      BY <2>11 DEF Since
  <1> QED
    BY <1>1, <1>2

------------------------------------------------------------------------------
(* A step of the receiver: SDUs I are delivered of what has arrived. *)

LEMMA StepReached ==
    ASSUME NEW A, NEW D, NEW m, NEW w, NEW H, NEW R, NEW K, NEW F, NEW S, NEW B \in Nat,
           Reached(A, D, m, w, H, R, K, F, S, B), \A n \in D : n \in Nat,
           NEW A2, NEW H2, NEW R2, NEW K2, ArrivedAt(A2, H2, R2, K2, F, S, B),
           \A b \in A2 : b[1] <= B => b \in A,
           NEW I, \A n \in I : n \in Nat /\ B < n,
           NEW m2, Progress(m2, F, R2, A2, Since(D, B) \cup I)
    PROVE  Reached(A2, D \cup I, m2, w, H2, R2, K2, F, S, B)
  <1>a. PICK D2 : D2 = D \cup I
    OBVIOUS
  <1>1. PlacesRise(F, S) /\ SettledAt(B, A, D, w)
    BY DEF Reached
  <1>2. Since(D2, B) = Since(D, B) \cup I
    BY <1>a DEF Since
  <1>3. D \subseteq D2 /\ \A n \in D2 : n \in Nat /\ (n <= B => n \in D)
    BY <1>a
  <1>4. SettledAt(B, A2, D2, w)
    BY <1>1, <1>3, SettledOn
  <1> QED
    BY <1>1, <1>2, <1>4, <1>a DEF Reached

(* A PDU of place c is taken. *)
LEMMA PduReached ==
    ASSUME NEW A, NEW D, NEW m, NEW w, NEW H, NEW R, NEW K, NEW F, NEW S \in Nat, NEW B \in Nat,
           Reached(A, D, m, w, H, R, K, F, S, B), \A n \in D : n \in Nat,
           WindowAt(H, R, K), \A d \in 0..S : B < F[d][1],
           NEW c \in Nat, R <= c, c \notin K, NEW H2, H2 = HighAfter(H, c), H2 <= S,
           F[c] \in SduByte, NEW A2, A2 = AfterPdu(A, F, K, c, H2),
           NEW R2 \in R..H2, R2 \notin K \cup {c}, NEW K2, K2 = {d \in K \cup {c} : R2 < d},
           NEW I, \A n \in I : n \in Nat /\ B < n,
           NEW m2, Progress(m2, F, R2, A2, Since(D, B) \cup I)
    PROVE  Reached(A2, D \cup I, m2, w, H2, R2, K2, F, S, B)
  <1>1. R2 \in Nat /\ R <= R2 /\ R2 <= H2
    BY DEF WindowAt, HighAfter
  <1>2. PlacesRise(F, S) /\ ArrivedAt(A, H, R, K, F, S, B)
    BY DEF Reached
  <1>3. /\ ArrivedAt(A2, H2, R2, K2, F, S, B)
        /\ \A b \in SduByte : b[1] <= B => (b \in A2 <=> b \in A)
    <2>1. PlaceTaken(H, R, K, H2, R2, K2, F, S, B, A, A2, c)
      BY <1>1, <1>2 DEF PlaceTaken
    <2> QED
      BY <2>1, PduArrives
  <1>4. \A b \in A2 : b[1] <= B => b \in A
    BY <1>3 DEF ArrivedAt
  <1> QED
    BY <1>3, <1>4, StepReached

(* What can be said before the members are known. *)
LEMMA PduComes ==
    ASSUME NEW A, NEW D, NEW m, NEW w, NEW H, NEW R, NEW K, NEW F, NEW S \in Nat, NEW B \in Nat,
           Reached(A, D, m, w, H, R, K, F, S, B), WindowAt(H, R, K), \A d \in 0..S : B < F[d][1],
           NEW c \in Nat, R <= c, c \notin K, NEW H2, H2 = HighAfter(H, c), H2 <= S,
           F[c] \in SduByte, NEW A2, A2 = AfterPdu(A, F, K, c, H2)
    PROVE  /\ \A d \in R..(H2 - 1) : d + UM_WINDOW < H2 => F[d] \notin A2
           /\ Progress(m, F, R, A2, Since(D, B))
  <1>1. R \in Nat /\ H \in Nat /\ R <= H2 /\ H2 \in Nat
    BY DEF WindowAt, HighAfter
  <1>2. PlacesRise(F, S) /\ ArrivedAt(A, H, R, K, F, S, B) /\ Progress(m, F, R, A, Since(D, B))
    BY DEF Reached
  <1>a. PICK R2 \in R..H2 : R2 \notin K \cup {c}
    <2>1. H2 \in R..H2 /\ H2 \notin K \cup {c}
      BY <1>1 DEF WindowAt, HighAfter
    <2> QED
      BY <2>1
  <1>b. PICK K2 : K2 = {d \in K \cup {c} : R2 < d}
    OBVIOUS
  <1>3. R2 \in Nat /\ R <= R2 /\ R2 <= H2
    BY <1>1
  <1>4. /\ \A d \in R..(H2 - 1) : d + UM_WINDOW < H2 => F[d] \notin A2
        /\ \A d \in 0..(R - 1) : F[d] \in A2 => F[d] \in A
    <2>1. PlaceTaken(H, R, K, H2, R2, K2, F, S, B, A, A2, c)
      BY <1>2, <1>3, <1>a, <1>b DEF PlaceTaken
    <2> QED
      BY <2>1, PduArrives
  <1>5. Progress(m, F, R, A2, Since(D, B))
    BY <1>1, <1>2, <1>4, ProgressLess
  <1> QED
    BY <1>4, <1>5

(* The reordering timer expires. *)
LEMMA ExpiryReached ==
    ASSUME NEW A, NEW D, NEW m, NEW w, NEW H, NEW R, NEW K, NEW F, NEW S \in Nat, NEW B \in Nat,
           Reached(A, D, m, w, H, R, K, F, S, B), \A n \in D : n \in Nat, WindowAt(H, R, K),
           NEW R2 \in R..H, R2 \notin K, NEW K2, K2 = {d \in K : R2 < d},
           NEW I, \A n \in I : n \in Nat /\ B < n,
           NEW m2, Progress(m2, F, R2, A, Since(D, B) \cup I)
    PROVE  Reached(A, D \cup I, m2, w, H, R2, K2, F, S, B)
  <1>1. R \in Nat /\ H \in Nat /\ R2 \in Nat /\ R <= R2
    BY DEF WindowAt
  <1>2. ArrivedAt(A, H, R, K, F, S, B)
    BY DEF Reached
  <1>3. \A d \in R2..(H - 1) : d \notin K2 => F[d] \notin A
    <2> SUFFICES ASSUME NEW d \in R2..(H - 1), d \notin K2 PROVE F[d] \notin A
      OBVIOUS
    <2>1. d \in R..(H - 1) /\ d \notin K
      BY <1>1
    <2> QED
      BY <1>2, <2>1 DEF ArrivedAt
  <1>4. ArrivedAt(A, H, R2, K2, F, S, B)
    BY <1>2, <1>3 DEF ArrivedAt
  <1> QED
    BY <1>4, StepReached

------------------------------------------------------------------------------
(* What is delivered *)

LEMMA DeliveredIds ==
    ASSUME NEW hi \in Nat, NEW d, OutIs(d, hi)
    PROVE  \A n \in DeliveredOf(d) : n \in Nat /\ n < hi
  <1> SUFFICES ASSUME NEW n \in DeliveredOf(d) PROVE n \in Nat /\ n < hi
    OBVIOUS
  <1>1. PICK i \in 1..Len(d) : n = Id(d[i])
    BY DEF DeliveredOf
  <1>2. n \in 1..(hi - 1)
    BY <1>1 DEF OutIs
  <1> QED
    BY <1>2

(* SDUs out are delivered. *)
LEMMA DeliveredGrow ==
    ASSUME NEW new, NEW old, NEW out, Grown(new, old, out), Len(old) \in Nat, Len(out) \in Nat
    PROVE  DeliveredOf(new) = DeliveredOf(old) \cup Ids(out)
  <1>a. PICK k, l, n : k = Len(old) /\ l = Len(out) /\ n = Len(new)
    OBVIOUS
  <1>1. /\ n = k + l /\ k \in Nat /\ l \in Nat
        /\ \A i \in 1..k : new[i] = old[i]
        /\ \A j \in 1..l : new[k + j].sdu = out[j]
    BY <1>a DEF Grown
  <1>2. ASSUME NEW x \in DeliveredOf(new) PROVE x \in DeliveredOf(old) \cup Ids(out)
    <2>1. PICK i \in 1..n : x = Id(new[i])
      BY <1>2, <1>a DEF DeliveredOf
    <2>2. CASE i <= k
      <3>1. i \in 1..k /\ x = Id(old[i])
        BY <1>1, <2>1, <2>2
      <3> QED
        BY <1>a, <3>1 DEF DeliveredOf
    <2>3. CASE k < i
      <3>1. PICK j \in 1..l : i = k + j
        <4>1. i - k \in 1..l /\ i = k + (i - k)
          BY <1>1, <2>3
        <4> QED
          BY <4>1
      <3>2. x = out[j][1][1]
        BY <1>1, <2>1, <3>1 DEF Id
      <3> QED
        BY <1>a, <3>2 DEF Ids
    <2> QED
      BY <1>1, <2>2, <2>3
  <1>3. ASSUME NEW x \in DeliveredOf(old) PROVE x \in DeliveredOf(new)
    <2>1. PICK i \in 1..k : x = Id(old[i])
      BY <1>3, <1>a DEF DeliveredOf
    <2>2. i \in 1..n /\ x = Id(new[i])
      BY <1>1, <2>1
    <2> QED
      BY <1>a, <2>2 DEF DeliveredOf
  <1>4. ASSUME NEW x \in Ids(out) PROVE x \in DeliveredOf(new)
    <2>1. PICK j \in 1..l : x = out[j][1][1]
      BY <1>4, <1>a DEF Ids
    <2>2. k + j \in 1..n
      BY <1>1
    <2>3. x = Id(new[k + j])
      BY <1>1, <2>1 DEF Id
    <2> QED
      BY <1>a, <2>2, <2>3 DEF DeliveredOf
  <1> QED
    BY <1>2, <1>3, <1>4

------------------------------------------------------------------------------
(* arrived by place *)

(* The numbers below the window that a PDU of place c moves up. *)
LEMMA PushedPlaces ==
    ASSUME NEW H, NEW R, NEW K, WindowAt(H, R, K), NEW c \in Nat, R <= c, c < H + UM_WINDOW,
           NEW d \in K, NEW H2, H2 = HighAfter(H, c)
    PROVE  RxModBase(c % UM_MOD, H % UM_MOD) >= UM_WINDOW
           /\ RxModBase(d % UM_MOD, Next1(c % UM_MOD)) >= UM_WINDOW
              <=> d + UM_WINDOW < H2
  <1>a. PICK W, M : W = UM_WINDOW /\ M = UM_MOD
    OBVIOUS
  <1>1. /\ H \in Nat /\ R \in Nat /\ R <= H /\ H <= R + W /\ d \in Nat /\ R < d /\ d < H
        /\ W \in Nat \ {0} /\ M = W + W
    BY <1>a, Modulus DEF WindowAt
  <1>2. H <= c + UM_WINDOW
    BY <1>1, <1>a
  <1>b. PICK x, y : x = RxModBase(c % UM_MOD, H % UM_MOD) /\ y = RxModBase(d % UM_MOD, Next1(c % UM_MOD))
    OBVIOUS
  <1>3. x = c + W - H
    BY <1>1, <1>2, <1>a, <1>b, PlaceInWindow
  <1>4. CASE c < H
    <2>1. H2 = H
      BY <1>4 DEF HighAfter
    <2>2. ~(x >= W) /\ ~(d + W < H2)
      BY <1>1, <1>3, <1>4, <2>1
    <2> QED
      BY <1>a, <1>b, <2>2
  <1>5. CASE ~(c < H)
    <2>1. H2 = c + 1
      BY <1>5 DEF HighAfter
    <2>2. x >= W
      BY <1>1, <1>3, <1>5
    <2>3. y = RxModBase(d % UM_MOD, (c + 1) % UM_MOD)
      BY <1>b, NumberNext
    <2>c. PICK h : h = c + 1
      OBVIOUS
    <2>4. h \in Nat
      BY <2>c
    <2>5. CASE h <= d + W
      <3>1. h <= d + UM_WINDOW /\ d < h + UM_WINDOW
        BY <1>1, <1>5, <1>a, <2>5, <2>c
      <3>2. y = d + UM_WINDOW - h
        BY <1>1, <2>3, <2>4, <2>c, <3>1, PlaceInWindow
      <3>3. ~(y >= W) /\ ~(d + W < H2)
        BY <1>1, <1>5, <1>a, <2>1, <2>5, <2>c, <3>2
      <3> QED
        BY <1>a, <1>b, <3>3
    <2>6. CASE ~(h <= d + W)
      <3>1. d < h + UM_WINDOW /\ h <= d + UM_WINDOW + UM_WINDOW /\ d + UM_WINDOW < h
        BY <1>1, <1>a, <2>6, <2>c
      <3>2. y = (d + UM_WINDOW - h) + UM_MOD
        BY <1>1, <2>3, <2>4, <2>c, <3>1, PlaceInWindow
      <3>3. y >= W /\ d + W < H2
        BY <1>1, <1>a, <2>1, <2>6, <2>c, <3>1, <3>2
      <3> QED
        BY <1>a, <1>b, <2>2, <3>3
    <2> QED
      BY <2>5, <2>6
  <1> QED
    BY <1>4, <1>5

(* What arrived becomes, of a PDU that is taken. *)
LEMMA ArrivedIs ==
    ASSUME NEW H, NEW R, NEW K, NEW F, RxAt(H, R, K, F), NEW c \in Nat, R <= c, c < H + UM_WINDOW,
           NEW H2, H2 = HighAfter(H, c), NEW pdu, pdu.sn = c % UM_MOD, Spans(pdu, F[c], F[c + 1]),
           NEW A
    PROVE  (A \cup Data(pdu)) \ PushedOut(pdu.sn) = AfterPdu(A, F, K, c, H2)
  <1>1. /\ WindowAt(H, R, K) /\ vr_uh = H % UM_MOD /\ DOMAIN rx_window = Numbers(K)
        /\ \A d \in K : Spans(rx_window[d % UM_MOD], F[d], F[d + 1])
    BY DEF RxAt, HeldPdus
  <1>2. Data(pdu) = PlaceBytes(F, c)
    BY DataIsBetween DEF PlaceBytes
  <1>3. \A d \in K : Data(rx_window[d % UM_MOD]) = PlaceBytes(F, d)
    BY <1>1, DataIsBetween DEF PlaceBytes
  <1>4. \A d \in K : /\ RxModBase(pdu.sn, vr_uh) >= UM_WINDOW
                     /\ RxModBase(d % UM_MOD, Next1(pdu.sn)) >= UM_WINDOW
                     <=> d + UM_WINDOW < H2
    BY <1>1, PushedPlaces
  <1>a. PICK P, Q : /\ P = {t \in DOMAIN rx_window : /\ RxModBase(pdu.sn, vr_uh) >= UM_WINDOW
                                                      /\ RxModBase(t, Next1(pdu.sn)) >= UM_WINDOW}
                    /\ Q = {k \in K : k + UM_WINDOW < H2}
    OBVIOUS
  <1>5. P = {d % UM_MOD : d \in Q}
    <2>1. ASSUME NEW s \in P PROVE s \in {d % UM_MOD : d \in Q}
      <3>1. PICK d \in K : s = d % UM_MOD
        BY <1>1, <1>a, <2>1 DEF Numbers
      <3>2. d + UM_WINDOW < H2
        BY <1>4, <1>a, <2>1, <3>1
      <3> QED
        BY <1>a, <3>1, <3>2
    <2>2. ASSUME NEW d \in Q PROVE d % UM_MOD \in P
      <3>1. d \in K /\ d + UM_WINDOW < H2
        BY <1>a, <2>2
      <3>2. d % UM_MOD \in DOMAIN rx_window
        BY <1>1, <3>1 DEF Numbers
      <3> QED
        BY <1>4, <1>a, <3>1, <3>2
    <2> QED
      BY <2>1, <2>2
  <1>6. Q \subseteq K
    BY <1>a
  <1>7. UNION {Data(rx_window[s]) : s \in P} = UNION {PlaceBytes(F, d) : d \in Q}
    <2>1. {Data(rx_window[s]) : s \in P} = {PlaceBytes(F, d) : d \in Q}
      <3>1. ASSUME NEW s \in P PROVE Data(rx_window[s]) \in {PlaceBytes(F, d) : d \in Q}
        <4>1. PICK d \in Q : s = d % UM_MOD
          BY <1>5, <3>1
        <4> QED
          BY <1>3, <1>6, <4>1
      <3>2. ASSUME NEW d \in Q PROVE PlaceBytes(F, d) \in {Data(rx_window[s]) : s \in P}
        <4>1. d % UM_MOD \in P
          BY <1>5, <3>2
        <4>2. PlaceBytes(F, d) = Data(rx_window[d % UM_MOD])
          BY <1>3, <1>6, <3>2
        <4> QED
          BY <4>1, <4>2
      <3> QED
        BY <3>1, <3>2
    <2> QED
      BY <2>1
  <1>8. PushedOut(pdu.sn) = UNION {PlaceBytes(F, d) : d \in Q}
    BY <1>7, <1>a DEF PushedOut
  <1> QED
    BY <1>2, <1>8, <1>a DEF AfterPdu

------------------------------------------------------------------------------
(* A window has one place, below a given VR(UH). *)

LEMMA SameWindow ==
    ASSUME NEW H, NEW R, NEW K, WindowAt(H, R, K), NEW R2, NEW K2, WindowAt(H, R2, K2),
           R % UM_MOD = R2 % UM_MOD, Numbers(K) = Numbers(K2)
    PROVE  R = R2 /\ K = K2
  <1>a. PICK W, M : W = UM_WINDOW /\ M = UM_MOD
    OBVIOUS
  <1>1. /\ H \in Nat /\ R \in Nat /\ R2 \in Nat /\ R <= H /\ R2 <= H /\ H <= R + W /\ H <= R2 + W
        /\ K \in SUBSET Nat /\ K2 \in SUBSET Nat
        /\ \A d \in K : R < d /\ d < H
        /\ \A d \in K2 : R2 < d /\ d < H
        /\ W \in Nat \ {0} /\ M = W + W
    BY <1>a, Modulus DEF WindowAt
  <1>2. R = R2
    <2>1. CASE R <= R2
      <3>1. R <= R /\ R < R + UM_MOD /\ R2 < R + UM_MOD
        BY <1>1, <1>a, <2>1
      <3> QED
        BY <1>1, <2>1, <3>1, NumberIsPlace
    <2>2. CASE R2 <= R
      <3>1. R2 <= R2 /\ R2 < R2 + UM_MOD /\ R < R2 + UM_MOD
        BY <1>1, <1>a, <2>2
      <3> QED
        BY <1>1, <2>2, <3>1, NumberIsPlace
    <2> QED
      BY <1>1, <2>1, <2>2
  <1>3. /\ \A d \in K : d \in Nat /\ R <= d /\ d < R + UM_MOD
        /\ \A d \in K2 : d \in Nat /\ R <= d /\ d < R + UM_MOD
    BY <1>1, <1>2, <1>a
  <1>4. \A d \in K : d \in K2
    <2> TAKE d \in K
    <2>1. d % UM_MOD \in Numbers(K2)
      BY DEF Numbers
    <2>2. \A k \in K2 : R <= k /\ k < R + UM_MOD
      BY <1>3
    <2> QED
      BY <1>1, <1>3, <2>1, <2>2, InNumbers
  <1>5. \A d \in K2 : d \in K
    <2> TAKE d \in K2
    <2>1. d % UM_MOD \in Numbers(K)
      BY DEF Numbers
    <2>2. \A k \in K : R <= k /\ k < R + UM_MOD
      BY <1>3
    <2> QED
      BY <1>1, <1>3, <2>1, <2>2, InNumbers
  <1> QED
    BY <1>2, <1>4, <1>5

------------------------------------------------------------------------------
(* Steps of the receiver *)

\* What has arrived and what is delivered of it.
AllAt(H, R, K, F, S, B) ==
    Reached(arrived, DeliveredOf(pdcp_delivered), Members, written, H, R, K, F, S, B)

\* VR(UR) stands at place R with places K held.
StandsAt(H, R, K) == WindowAt(H, R, K) /\ vr_ur = R % UM_MOD /\ DOMAIN rx_window = Numbers(K)

LEMMA PlacesKnown ==
    ASSUME NEW H, NEW R, NEW K, NEW F, NEW S, NEW B, NEW N, NEW t, UmAt(H, R, K, F, S, B, N, t)
    PROVE  /\ S \in Nat /\ B \in Nat /\ H \in 0..S /\ R \in 0..H /\ R \in 0..S
           /\ WindowAt(H, R, K) /\ StandsAt(H, R, K)
           /\ \A d \in 0..S : B < F[d][1] /\ F[d][1] \in Nat /\ F[d][1] <= Len(written) + 1
           /\ Len(written) \in Nat /\ B <= Len(written)
           /\ \A n \in DeliveredOf(pdcp_delivered) : n \in Nat /\ n < F[R][1]
           /\ rx_st \in PdcpState
  <1>1. RxAt(H, R, K, F) /\ SendAt(F, S, B, t) /\ CountAt(B) /\ FlightAt(F, S, H, N) /\ OutAt(F, R)
    BY DEF UmAt
  <1>2. Len(written) \in Nat
    BY <1>1, LenProperties DEF CountAt, SdusWritten
  <1>3. S \in Nat /\ B \in Nat /\ B <= Len(written)
    BY <1>1, <1>2 DEF SendAt, CountAt
  <1>4. WindowAt(H, R, K) /\ StandsAt(H, R, K)
    BY <1>1 DEF RxAt, HeldPdus, StandsAt
  <1>5. H \in 0..S /\ R \in 0..H /\ R \in 0..S
    <2>1. H \in Nat /\ R \in Nat /\ R <= H /\ H <= S
      BY <1>1, <1>4 DEF WindowAt, FlightAt
    <2> QED
      BY <1>3, <2>1
  <1>6. \A d \in 0..S : B < F[d][1] /\ F[d][1] \in Nat /\ F[d][1] <= Len(written) + 1
    BY <1>1 DEF SendAt, InOrderUpTo
  <1>7. rx_st \in PdcpState /\ OutIs(pdcp_delivered, F[R][1])
    BY <1>1 DEF OutAt
  <1>8. \A n \in DeliveredOf(pdcp_delivered) : n \in Nat /\ n < F[R][1]
    BY <1>5, <1>6, <1>7, DeliveredIds
  <1> QED
    BY <1>2, <1>3, <1>4, <1>5, <1>6, <1>7, <1>8

(* VR(UR) stands at one place. *)
LEMMA StandsOnceNext ==
    ASSUME NEW H, NEW R, NEW K, NEW R2, NEW K2, StandsAt(H, R, K)', StandsAt(H, R2, K2)'
    PROVE  R = R2 /\ K = K2
  <1>1. /\ WindowAt(H, R, K) /\ WindowAt(H, R2, K2)
        /\ R % UM_MOD = R2 % UM_MOD /\ Numbers(K) = Numbers(K2)
    BY DEF StandsAt
  <1> QED
    BY <1>1, SameWindow

LEMMA PlacesKnownNext ==
    ASSUME NEW CONSTANT H, NEW CONSTANT R, NEW CONSTANT K, NEW CONSTANT F, NEW CONSTANT S,
           NEW CONSTANT B, NEW CONSTANT N, NEW CONSTANT t
    PROVE  UmAt(H, R, K, F, S, B, N, t)' => StandsAt(H, R, K)'
  <1>1. UmAt(H, R, K, F, S, B, N, t) => StandsAt(H, R, K)
    BY PlacesKnown
  <1> QED
    BY <1>1, PTL

(* SDUs that go to the PDCP entity are delivered. *)
LEMMA MovesDelivered ==
    ASSUME NEW H, NEW R, NEW K, NEW F, NEW S, NEW B, NEW N, NEW t, UmAt(H, R, K, F, S, B, N, t),
           written' = written, NEW R2 \in R..S,
           NEW out, Handed(out, F[R][1], F[R2][1]), NEW st \in PdcpState, PdcpWritePdus(st, out)
    PROVE  /\ DeliveredOf(pdcp_delivered') = DeliveredOf(pdcp_delivered) \cup Ids(out)
           /\ \A n \in Ids(out) : n \in Nat /\ B < n
  <1>1. /\ SendAt(F, S, B, t) /\ CountAt(B) /\ OutAt(F, R) /\ R \in 0..S
        /\ S \in Nat /\ B \in Nat /\ \A d \in 0..S : B < F[d][1] /\ F[d][1] \in Nat
    BY PlacesKnown DEF UmAt
  <1>a. PICK lo, hi : lo = F[R][1] /\ hi = F[R2][1]
    OBVIOUS
  <1>3. Grown(pdcp_delivered', pdcp_delivered, out)
    BY <1>1, OutGoesOn
  <1>4. Len(pdcp_delivered) \in Nat /\ Len(out) \in Nat
    <2>1. pdcp_delivered \in Seq(PdcpOut) /\ out \in Seq(Seq(SduByte))
      BY <1>1 DEF OutAt, OutIs, Handed
    <2> QED
      BY <2>1, LenProperties
  <1>5. DeliveredOf(pdcp_delivered') = DeliveredOf(pdcp_delivered) \cup Ids(out)
    BY <1>3, <1>4, DeliveredGrow
  <1>6. lo \in Nat /\ hi \in Nat /\ B < lo
    <2>1. R2 \in 0..S
      BY <1>1
    <2> QED
      BY <1>1, <1>a, <2>1
  <1>7. \A n \in Ids(out) : n \in Nat /\ lo <= n
    BY <1>6, <1>a, IdsHanded
  <1> QED
    BY <1>1, <1>5, <1>6, <1>7

(* A PDU that is taken. *)
LEMMA AllOfTaken ==
    ASSUME NEW H, NEW R, NEW K, NEW F, NEW S, NEW B, NEW N, NEW t, UmAt(H, R, K, F, S, B, N, t),
           AllAt(H, R, K, F, S, B),
           NEW c, NEW pdu, NEW N2, Gets(H, F, S, c, pdu, N2), ~Discarded(pdu.sn),
           NEW H2, H2 = HighAfter(H, c)
    PROVE  \E R2, K2 : AllAt(H2, R2, K2, F, S, B)' /\ StandsAt(H2, R2, K2)'
  <1>1. /\ c \in Nat /\ H <= c + UM_WINDOW /\ c < H + UM_WINDOW /\ Receive(pdu) /\ FlightAt(F, S, H2, N2)'
        /\ pdu \in RxPdu /\ pdu.sn = c % UM_MOD /\ Spans(pdu, F[c], F[c + 1])
    BY DEF Gets, IsAt
  <1>2. /\ S \in Nat /\ B \in Nat /\ H \in 0..S /\ R \in 0..H /\ R \in 0..S /\ WindowAt(H, R, K)
        /\ \A d \in 0..S : B < F[d][1]
        /\ \A n \in DeliveredOf(pdcp_delivered) : n \in Nat
        /\ rx_st \in PdcpState
    BY PlacesKnown
  <1>3. RxAt(H, R, K, F) /\ InOrderUpTo(F, S)
    BY DEF UmAt, SendAt
  <1>4. H2 <= S
    BY <1>1 DEF FlightAt
  <1>5. R <= c /\ c \notin K
    <2>1. vr_uh = H % UM_MOD /\ vr_ur = R % UM_MOD /\ DOMAIN rx_window = Numbers(K)
      BY <1>3 DEF RxAt, HeldPdus
    <2>2. ~Discarded(c % UM_MOD)
      BY <1>1
    <2> QED
      BY <1>1, <1>2, <2>1, <2>2, DiscardedPlaces
  <1>a. PICK A, D, m, w : A = arrived /\ D = DeliveredOf(pdcp_delivered) /\ m = Members /\ w = written
    OBVIOUS
  <1>b. PICK A2 : A2 = AfterPdu(A, F, K, c, H2)
    OBVIOUS
  <1>6. Reached(A, D, m, w, H, R, K, F, S, B)
    BY <1>a DEF AllAt
  <1>7. PlacesRise(F, S)
    BY <1>6 DEF Reached
  <1>8. F[c] \in SduByte
    BY <1>1, DataIsBetween
  <1>9. /\ \A d \in R..(H2 - 1) : d + UM_WINDOW < H2 => F[d] \notin A2
        /\ Progress(m, F, R, A2, Since(D, B))
    BY <1>1, <1>2, <1>4, <1>5, <1>6, <1>8, <1>b, PduComes
  <1>10. HandleDataPdu(pdu) /\ written' = written
    BY <1>1 DEF Receive
  <1>c. PICK base : base = Since(D, B)
    OBVIOUS
  <1>11. Progress(Members, F, R, A2, base)
    BY <1>9, <1>a, <1>c
  <1>12. PICK R2, K2, out : /\ MovesTo(H2, R2, K2, F, R, A2, base, out)
                            /\ R \in 0..S /\ R2 \in R..H2 /\ R2 \notin K \cup {c}
                            /\ K2 = {d \in K \cup {c} : R2 < d}
    BY <1>1, <1>2, <1>3, <1>4, <1>7, <1>9, <1>10, <1>11, TakesProgress
  <1>d. PICK I, m2 : I = Ids(out) /\ m2 = Members'
    OBVIOUS
  <1>13. /\ WindowAt(H2, R2, K2) /\ vr_ur' = R2 % UM_MOD /\ DOMAIN rx_window' = Numbers(K2)
         /\ Handed(out, F[R][1], F[R2][1]) /\ PdcpWritePdus(rx_st, out)
         /\ Progress(m2, F, R2, A2, Since(D, B) \cup I)
    BY <1>12, <1>c, <1>d DEF MovesTo
  <1>14. R2 \in R..S
    BY <1>2, <1>4, <1>12, <1>13 DEF WindowAt
  <1>15. /\ DeliveredOf(pdcp_delivered') = D \cup I
         /\ \A n \in I : n \in Nat /\ B < n
    BY <1>2, <1>10, <1>13, <1>14, <1>a, <1>d, MovesDelivered
  <1>16. Reached(A2, D \cup I, m2, w, H2, R2, K2, F, S, B)
    <2>1. \A n \in D : n \in Nat
      BY <1>2, <1>a
    <2> QED
      BY <1>1, <1>2, <1>4, <1>5, <1>6, <1>8, <1>12, <1>13, <1>15, <1>b, <2>1, PduReached
  <1>17. arrived' = A2
    <2>1. arrived' = (A \cup Data(pdu)) \ PushedOut(pdu.sn)
      BY <1>1, <1>a DEF Receive
    <2>2. (A \cup Data(pdu)) \ PushedOut(pdu.sn) = A2
      BY <1>1, <1>3, <1>5, <1>b, ArrivedIs
    <2> QED
      BY <2>1, <2>2
  <1>18. AllAt(H2, R2, K2, F, S, B)'
    BY <1>10, <1>15, <1>16, <1>17, <1>a, <1>d DEF AllAt
  <1>19. StandsAt(H2, R2, K2)'
    BY <1>13 DEF StandsAt
  <1> QED
    BY <1>18, <1>19

------------------------------------------------------------------------------
(* Steps of the sender *)

(* Of the stream, the members know the places up to VR(UR). *)
LEMMA SameProgress ==
    ASSUME NEW F, NEW F2, NEW R \in Nat, \A c \in 0..R : F2[c] = F[c],
           NEW r, NEW A, NEW O, Progress(r, F, R, A, O)
    PROVE  Progress(r, F2, R, A, O)
  <1>1. F2[R] = F[R]
    OBVIOUS
  <1>2. \A d \in 0..(R - 1) : F2[d] = F[d] /\ F2[d + 1] = F[d + 1]
    OBVIOUS
  <1>3. ASSUME NEW id PROVE AllOf(F2, A, id, R) <=> AllOf(F, A, id, R)
    BY <1>2 DEF AllOf, CarriesOf
  <1>4. Done(F2, A, R, O)
    BY <1>1, <1>3 DEF Progress, Done
  <1>5. InAt(r.in, F2, R, R - 1, O)
    <2> SUFFICES ASSUME O # {}
                 PROVE  \E i \in (-1)..(R - 1) : /\ r.in = i % UM_MOD
                                                 /\ i + 2 <= R => \A n \in O : n < F2[i + 2][1]
      BY DEF InAt
    <2>1. PICK i \in (-1)..(R - 1) : /\ r.in = i % UM_MOD
                                     /\ i + 2 <= R => \A n \in O : n < F[i + 2][1]
      BY DEF Progress, InAt
    <2>2. i + 2 <= R => F2[i + 2] = F[i + 2]
      OBVIOUS
    <2> QED
      BY <2>1, <2>2
  <1>6. Part(F2[R]) = Part(F[R])
    BY <1>1
  <1>7. /\ F[R][2] > 1 /\ AllOf(F, A, F[R][1], R) => r.sdu = Part(F[R])
        /\ r.lost => FarOff(O, F[R][1])
    BY DEF Progress
  <1>8. /\ F2[R][2] > 1 /\ AllOf(F2, A, F2[R][1], R) => r.sdu = Part(F2[R])
        /\ r.lost => FarOff(O, F2[R][1])
    BY <1>1, <1>3, <1>7
  <1> QED
    BY <1>4, <1>5, <1>8 DEF Progress

(* A PDU that is built has not arrived. *)
LEMMA SentReached ==
    ASSUME NEW A, NEW D, NEW m, NEW w, NEW S \in Nat, NEW H \in 0..S, NEW R \in 0..H, NEW K, NEW F,
           NEW B \in Nat, Reached(A, D, m, w, H, R, K, F, S, B), \A d \in 0..S : B < F[d][1],
           NEW e, IsByte(e), Pos(F[S]) < Pos(e), NEW F2, F2 = OneMore(F, S, e)
    PROVE  Reached(A, D, m, w, H, R, K, F2, S + 1, B)
  <1>1. /\ PlacesRise(F, S) /\ ArrivedAt(A, H, R, K, F, S, B) /\ Progress(m, F, R, A, Since(D, B))
        /\ SettledAt(B, A, D, w)
    BY DEF Reached
  <1>2. (\A c \in 0..S : F2[c] = F[c]) /\ F2[S + 1] = e
    BY DEF OneMore
  <1>3. PlacesRise(F2, S + 1)
    BY <1>1, OneMoreRises
  <1>4. Progress(m, F2, R, A, Since(D, B))
    <2>1. R \in Nat /\ \A c \in 0..R : F2[c] = F[c]
      BY <1>2
    <2> QED
      BY <1>1, <2>1, SameProgress
  <1>5. /\ A \subseteq SduByte
        /\ \A b \in A : B < b[1] => Pos(b) < Pos(F[H])
        /\ \A d \in 0..(S - 1) : \A b \in PlaceBytes(F, d) : b \in A => F[d] \in A
        /\ \A d \in R..(H - 1) : d \notin K => F[d] \notin A
    BY <1>1 DEF ArrivedAt
  <1>6. \A b \in A : B < b[1] => Pos(b) < Pos(F2[H])
    BY <1>2, <1>5
  <1>7. ASSUME NEW d \in 0..S, NEW b \in PlaceBytes(F2, d), b \in A PROVE F2[d] \in A
    <2>1. CASE d # S
      <3>1. d \in 0..(S - 1) /\ d \in 0..S /\ d + 1 \in 0..S
        BY <2>1
      <3>2. F2[d] = F[d] /\ F2[d + 1] = F[d + 1]
        BY <1>2, <3>1
      <3>3. b \in PlaceBytes(F, d)
        BY <1>7, <3>2 DEF PlaceBytes
      <3> QED
        BY <1>5, <1>7, <3>1, <3>2, <3>3
    <2>2. CASE d = S
      <3>1. S \in 0..S /\ S \in H..S /\ H \in 0..S
        OBVIOUS
      <3>2. Pos(F[S]) <= Pos(b) /\ b \in SduByte
        BY <1>2, <1>7, <2>2, <3>1 DEF PlaceBytes, Between
      <3>3. IsByte(b) /\ IsByte(F[S]) /\ b[1] \in Nat
        BY <1>1, <3>1, <3>2, SduByteIsByte DEF PlacesRise, IsByte
      <3>4. F[S][1] <= b[1]
        BY <3>2, <3>3, PosOrder
      <3>5. B < F[S][1] /\ F[S][1] \in Nat
        BY <3>1, <3>3 DEF IsByte
      <3>6. Pos(b) < Pos(F[H])
        BY <1>5, <1>7, <3>3, <3>4, <3>5
      <3>7. Pos(F[H]) + (S - H) <= Pos(F[S]) /\ Pos(F[H]) \in Nat /\ Pos(F[S]) \in Nat
        BY <1>1, <3>1, PlaceOrder
      <3>8. Pos(b) \in Nat
        BY <3>3, PosIn
      <3> QED
        BY <3>2, <3>6, <3>7, <3>8
    <2> QED
      BY <2>1, <2>2
  <1>8. \A d \in R..(H - 1) : d \notin K => F2[d] \notin A
    <2> TAKE d \in R..(H - 1)
    <2>1. d \in 0..S
      OBVIOUS
    <2> QED
      BY <1>2, <1>5, <2>1
  <1>9. ArrivedAt(A, H, R, K, F2, S + 1, B)
    <2>1. (S + 1) - 1 = S
      OBVIOUS
    <2> QED
      BY <1>5, <1>6, <1>7, <1>8, <2>1 DEF ArrivedAt
  <1> QED
    BY <1>1, <1>3, <1>4, <1>9 DEF Reached

(* An SDU is written. *)
LEMMA WrittenReached ==
    ASSUME NEW A, NEW D, NEW m, NEW w, NEW H, NEW R, NEW K, NEW F, NEW S, NEW B \in Nat,
           Reached(A, D, m, w, H, R, K, F, S, B), \A n \in D : n \in Nat,
           NEW w2, \A i \in 1..B : w2[i] = w[i]
    PROVE  Reached(A, D, m, w2, H, R, K, F, S, B)
  <1>1. SettledAt(B, A, D, w)
    BY DEF Reached
  <1>2. /\ \A b \in A : b[1] <= B => b \in A
        /\ D \subseteq D /\ \A n \in D : n \in Nat /\ (n <= B => n \in D)
    OBVIOUS
  <1>3. SettledAt(B, A, D, w2)
    BY <1>1, <1>2, SettledOn
  <1> QED
    BY <1>3 DEF Reached

(* A stream begins after the first l SDUs, which are settled. *)
LEMMA BeginsReached ==
    ASSUME NEW A, A \subseteq SduByte, NEW l \in Nat, \A b \in A : b[1] <= l,
           NEW D, \A n \in D : n \in Nat /\ n <= l, NEW w, \A id \in 1..l : Kept(id, A, D, w),
           NEW F, F[0] = <<l + 1, 1>>, NEW m, ~m.lost
    PROVE  Reached(A, D, m, w, 0, 0, {}, F, 0, l)
  <1>1. IsByte(F[0]) /\ F[0][1] = l + 1 /\ F[0][2] = 1
    <2>1. l + 1 \in Nat \ {0} /\ 1 \in 1..SduLen
      BY SduAssumption
    <2> QED
      BY <2>1 DEF IsByte
  <1>2. PlacesRise(F, 0)
    <2>1. \A c \in 0..0 : c = 0
      OBVIOUS
    <2>2. Pos(F[0]) \in Nat
      BY <1>1, PosIn
    <2>3. \A c \in 0..0 : \A d \in c..0 : Pos(F[c]) + (d - c) <= Pos(F[d])
      <3> TAKE c \in 0..0
      <3> TAKE d \in c..0
      <3>1. c = 0 /\ d = 0
        OBVIOUS
      <3> QED
        BY <2>2, <3>1
    <2> QED
      BY <1>1, <2>1, <2>3 DEF PlacesRise
  <1>3. ArrivedAt(A, 0, 0, {}, F, 0, l)
    <2>1. \A b \in A : ~(l < b[1])
      <3> TAKE b \in A
      <3>1. b[1] \in Nat
        BY SduByteIsByte, SduAssumption
      <3> QED
        BY <3>1
    <2>2. 0..(0 - 1) = {}
      OBVIOUS
    <2> QED
      BY <2>1, <2>2 DEF ArrivedAt
  <1>4. Since(D, l) = {}
    BY DEF Since
  <1>5. Progress(m, F, 0, A, {})
    <2>1. Done(F, A, 0, {})
      BY DEF Done, Recent
    <2>2. ~(F[0][2] > 1)
      BY <1>1
    <2>3. InAt(m.in, F, 0, 0 - 1, {})
      BY DEF InAt
    <2> QED
      BY <2>1, <2>2, <2>3 DEF Progress
  <1> QED
    BY <1>2, <1>3, <1>4, <1>5 DEF Reached, SettledAt

------------------------------------------------------------------------------
(* The reordering timer runs for something *)

\* While the timer runs, something is held: no handover has left it running.
Waits == reordering_running => DOMAIN rx_window # {}

LEMMA WaitsAfterPdu ==
    ASSUME UmRxInv', Waits, NEW pdu, HandleDataPdu(pdu)
    PROVE  Waits'
  <1>1. CASE Discarded(pdu.sn)
    <2>1. UNCHANGED um_rx_vars
      BY <1>1 DEF HandleDataPdu
    <2> QED
      BY <2>1 DEF Waits, um_rx_vars
  <1>2. CASE ~Discarded(pdu.sn)
    <2> SUFFICES ASSUME reordering_running', DOMAIN rx_window' = {} PROVE FALSE
      BY DEF Waits
    <2>sn. PICK sn, D : sn = pdu.sn /\ D = DOMAIN rx_window \cup {sn}
      OBVIOUS
    <2>uh. PICK uh : uh = High(sn, vr_uh, D)
      OBVIOUS
    <2>n1. PICK n1, x, D1 : /\ n1 = CatchUp(vr_ur, uh, D) /\ x = (vr_ur + n1) % UM_MOD
                            /\ D1 = LeftAfter(D, vr_ur, n1)
      OBVIOUS
    <2>n2. PICK n2, ur2, W2 : /\ n2 = InSequence(x, D1) /\ ur2 = (x + n2) % UM_MOD
                              /\ W2 = LeftAfter(D1, x, n2)
      OBVIOUS
    <2>s. PICK still, start : /\ still = StillReordering(ur2, uh, W2)
                              /\ start = (~still /\ RxModBase(uh, uh) > RxModBase(ur2, uh))
      OBVIOUS
    <2>1. /\ vr_uh' = uh /\ vr_ur' = ur2 /\ reordering_running' = (still \/ start)
          /\ vr_ux' = IF start THEN uh ELSE vr_ux
      BY <1>2, <2>sn, <2>uh, <2>n1, <2>n2, <2>s DEF HandleDataPdu, High
    <2>2. ur2 = uh /\ uh \in UmSN /\ vr_ux' = ur2
      BY <2>1 DEF UmRxInv, UmRxTypeOK, UmWindowInv, IsWindow, HeldIsWaitedFor
    <2>3. RxModBase(uh, uh) = UM_WINDOW /\ UM_WINDOW \in Nat
      BY <2>2, EdgeOfWindow, UmSnAssumption
    <2>4. ~start
      <3>1. ~(RxModBase(uh, uh) > RxModBase(ur2, uh))
        BY <2>2, <2>3
      <3> QED
        BY <2>s, <3>1, Zenon
    <2>5. still
      BY <2>1, <2>4
    <2>6. vr_ux = uh
      BY <2>1, <2>2, <2>4
    <2>7. RxModBase(vr_ux, uh) > RxModBase(ur2, uh)
      BY <2>5, <2>s DEF StillReordering
    <2> QED
      BY <2>2, <2>3, <2>6, <2>7
  <1> QED
    BY <1>1, <1>2

LEMMA WaitsAfterExpiry ==
    ASSUME UmRxInv', ReorderingExpired
    PROVE  Waits'
  <1> SUFFICES ASSUME reordering_running', DOMAIN rx_window' = {} PROVE FALSE
    BY DEF Waits
  <1>a. PICK uh, ur : uh = vr_uh /\ ur = UrAtExpiry
    OBVIOUS
  <1>1. vr_ur' = ur /\ vr_uh' = uh /\ reordering_running' = (RxModBase(uh, uh) > RxModBase(ur, uh))
    BY <1>a DEF ReorderingExpired, AgainAtExpiry
  <1>2. ur = uh /\ uh \in UmSN
    BY <1>1 DEF UmRxInv, UmRxTypeOK, UmWindowInv, IsWindow
  <1>3. RxModBase(uh, uh) = UM_WINDOW /\ UM_WINDOW \in Nat
    BY <1>2, EdgeOfWindow, UmSnAssumption
  <1>4. RxModBase(uh, uh) > RxModBase(ur, uh)
    BY <1>1
  <1> QED
    BY <1>2, <1>3, <1>4

LEMMA UmAtInv ==
    ASSUME NEW CONSTANT H, NEW CONSTANT R, NEW CONSTANT K, NEW CONSTANT F, NEW CONSTANT S,
           NEW CONSTANT B, NEW CONSTANT N, NEW CONSTANT t
    PROVE  /\ UmAt(H, R, K, F, S, B, N, t) => UmRxInv
           /\ UmAt(H, R, K, F, S, B, N, t)' => UmRxInv'
  <1>1. UmAt(H, R, K, F, S, B, N, t) => UmRxInv
    BY DEF UmAt, RxAt
  <1> QED
    BY <1>1, PTL

(* While nothing is held, VR(UR) is VR(UH). *)
LEMMA NothingHeld ==
    ASSUME NEW H, NEW R, NEW K, StandsAt(H, R, K), DOMAIN rx_window = {}
    PROVE  K = {} /\ R = H
  <1>1. Numbers(K) = {} /\ WindowAt(H, R, K)
    BY DEF StandsAt
  <1>2. K = {}
    BY <1>1 DEF Numbers
  <1> QED
    BY <1>1, <1>2 DEF WindowAt

------------------------------------------------------------------------------
(* The steps of the bearer *)

LEMMA AllUntouched ==
    ASSUME NEW H, NEW R, NEW K, NEW F, NEW S, NEW B, AllAt(H, R, K, F, S, B),
           UNCHANGED um_rx_vars, UNCHANGED <<arrived, pdcp_delivered, written>>
    PROVE  AllAt(H, R, K, F, S, B)'
  <1>1. Members' = Members /\ arrived' = arrived /\ pdcp_delivered' = pdcp_delivered /\ written' = written
    BY DEF Members, um_rx_vars
  <1> QED
    BY <1>1 DEF AllAt

\* The bearer, with all of what arrives.
UmAllAt(H, R, K, F, S, B, N, t) == UmAt(H, R, K, F, S, B, N, t) /\ AllAt(H, R, K, F, S, B) /\ Waits
UmAllInv == \E H, R, K, F, S, B, N, t : UmAllAt(H, R, K, F, S, B, N, t)

(* A PDU is handed over. *)
LEMMA AllOfReceived ==
    ASSUME NEW H, NEW R, NEW K, NEW F, NEW S, NEW B, NEW N, NEW t, UmAllAt(H, R, K, F, S, B, N, t),
           NEW c, NEW pdu, NEW N2, Gets(H, F, S, c, pdu, N2)
    PROVE  UmAllInv'
  <1>0. UmAt(H, R, K, F, S, B, N, t) /\ AllAt(H, R, K, F, S, B) /\ Waits
    BY DEF UmAllAt
  <1>a. PICK H2 : H2 = HighAfter(H, c)
    OBVIOUS
  <1>1. PICK R2, K2 : UmAt(H2, R2, K2, F, S, B, N2, t)'
    <2>1. Comes(H, R, K, F, S, B, t, H2, N2)
      BY <1>0, <1>a, GetsKeeps
    <2> QED
      BY <2>1 DEF Comes
  <1>2. StandsAt(H2, R2, K2)' /\ UmRxInv'
    BY <1>1, PlacesKnownNext, UmAtInv
  <1>3. HandleDataPdu(pdu) /\ Receive(pdu) /\ pdu.sn = c % UM_MOD /\ c \in Nat
        /\ H <= c + UM_WINDOW /\ c < H + UM_WINDOW
    BY DEF Gets, IsAt, Receive
  <1>4. Waits'
    BY <1>0, <1>2, <1>3, WaitsAfterPdu
  <1>5. AllAt(H2, R2, K2, F, S, B)'
    <2>1. CASE Discarded(pdu.sn)
      <3>1. /\ UNCHANGED um_rx_vars /\ UNCHANGED <<arrived, pdcp_delivered, written>>
            /\ vr_ur' = vr_ur /\ rx_window' = rx_window
        BY <1>3, <2>1 DEF HandleDataPdu, Receive, um_rx_vars
      <3>2. AllAt(H, R, K, F, S, B)'
        BY <1>0, <3>1, AllUntouched
      <3>3. StandsAt(H, R, K) /\ WindowAt(H, R, K)
        BY <1>0, PlacesKnown
      <3>4. c < H
        <4>1. Discarded(c % UM_MOD) /\ vr_uh = H % UM_MOD
          BY <1>0, <1>3, <2>1 DEF UmAt, RxAt
        <4> QED
          BY <1>3, <3>3, <4>1, DiscardedPlaces DEF StandsAt
      <3>5. H2 = H
        BY <1>a, <3>4 DEF HighAfter
      <3>6. StandsAt(H, R, K)'
        BY <3>1, <3>3 DEF StandsAt
      <3>7. R = R2 /\ K = K2
        BY <1>2, <3>5, <3>6, StandsOnceNext
      <3> QED
        BY <3>2, <3>5, <3>7
    <2>2. CASE ~Discarded(pdu.sn)
      <3>1. PICK R3, K3 : AllAt(H2, R3, K3, F, S, B)' /\ StandsAt(H2, R3, K3)'
        BY <1>0, <1>a, <2>2, AllOfTaken
      <3>2. R2 = R3 /\ K2 = K3
        BY <1>2, <3>1, StandsOnceNext
      <3> QED
        BY <3>1, <3>2
    <2> QED
      BY <2>1, <2>2
  <1>6. UmAllAt(H2, R2, K2, F, S, B, N2, t)'
    BY <1>1, <1>4, <1>5 DEF UmAllAt
  <1> QED
    BY <1>6 DEF UmAllInv
(* An SDU is written. *)
LEMMA AllOfWritten ==
    ASSUME NEW H, NEW R, NEW K, NEW F, NEW S, NEW B, NEW N, NEW t, UmAllAt(H, R, K, F, S, B, N, t),
           Write
    PROVE  UmAllInv'
  <1>1. UmAt(H, R, K, F, S, B, N, t) /\ AllAt(H, R, K, F, S, B) /\ Waits
    BY DEF UmAllAt
  <1>2. UmAt(H, R, K, F, S, B, N, t)'
    BY <1>1, WriteKeeps
  <1>3. /\ UNCHANGED um_rx_vars /\ arrived' = arrived /\ pdcp_delivered' = pdcp_delivered
        /\ \E count : written' = Append(written, count)
    BY DEF Write, PdcpWriteSdu, mac_vars
  <1>4. Members' = Members /\ Waits'
    BY <1>1, <1>3 DEF Members, um_rx_vars, Waits
  <1>a. PICK w, w2, D, m : w = written /\ w2 = written' /\ D = DeliveredOf(pdcp_delivered) /\ m = Members
    OBVIOUS
  <1>5. B \in Nat /\ B <= Len(w) /\ (\A n \in D : n \in Nat) /\ w \in Seq(Nat)
    <2>1. w \in Seq(Nat)
      BY <1>1, <1>a DEF UmAt, CountAt, SdusWritten
    <2> QED
      BY <1>1, <1>a, <2>1, PlacesKnown
  <1>6. \A i \in 1..B : w2[i] = w[i]
    BY <1>3, <1>5, <1>a
  <1>7. Reached(arrived, D, m, w, H, R, K, F, S, B)
    BY <1>1, <1>a DEF AllAt
  <1>8. Reached(arrived, D, m, w2, H, R, K, F, S, B)
    BY <1>5, <1>6, <1>7, WrittenReached
  <1>9. AllAt(H, R, K, F, S, B)'
    BY <1>3, <1>4, <1>8, <1>a DEF AllAt
  <1> QED
    BY <1>2, <1>4, <1>9 DEF UmAllAt, UmAllInv

(* A PDU is built. *)
LEMMA AllOfRead ==
    ASSUME NEW H, NEW R, NEW K, NEW F, NEW S, NEW B, NEW N, NEW t, UmAllAt(H, R, K, F, S, B, N, t),
           NEW g \in Grants, Read(g)
    PROVE  UmAllInv'
  <1>1. UmAt(H, R, K, F, S, B, N, t) /\ AllAt(H, R, K, F, S, B) /\ Waits
    BY DEF UmAllAt
  <1>2. PICK F2, S2, t2 : UmAt(H, R, K, F2, S2, B, N, t2)' /\ OneSent(F, S, F2, S2)
    BY <1>1, ReadKeeps
  <1>3. /\ UNCHANGED um_rx_vars /\ arrived' = arrived /\ pdcp_delivered' = pdcp_delivered
        /\ written' = written
    BY DEF Read, pdcp_vars, mac_vars
  <1>4. Members' = Members /\ Waits'
    BY <1>1, <1>3 DEF Members, um_rx_vars, Waits
  <1>5. PICK e, pdu : Spans(pdu, F[S], e) /\ F2 = OneMore(F, S, e) /\ S2 = S + 1
    BY <1>2 DEF OneSent
  <1>6. IsByte(e) /\ Pos(F[S]) < Pos(e)
    BY <1>5, DataIsBetween
  <1>a. PICK A, w, D, m : A = arrived /\ w = written /\ D = DeliveredOf(pdcp_delivered) /\ m = Members
    OBVIOUS
  <1>7. S \in Nat /\ H \in 0..S /\ R \in 0..H /\ B \in Nat /\ \A d \in 0..S : B < F[d][1]
    BY <1>1, PlacesKnown
  <1>8. Reached(A, D, m, w, H, R, K, F, S, B)
    BY <1>1, <1>a DEF AllAt
  <1>9. Reached(A, D, m, w, H, R, K, F2, S2, B)
    BY <1>5, <1>6, <1>7, <1>8, SentReached
  <1>10. AllAt(H, R, K, F2, S2, B)'
    BY <1>3, <1>4, <1>9, <1>a DEF AllAt
  <1> QED
    BY <1>2, <1>4, <1>10 DEF UmAllAt, UmAllInv

(* A PDU is lost. *)
LEMMA AllOfLost ==
    ASSUME FewLost, NEW H, NEW R, NEW K, NEW F, NEW S, NEW B, NEW N, NEW t, UmAllAt(H, R, K, F, S, B, N, t),
           Lose
    PROVE  UmAllInv'
  <1>1. UmAt(H, R, K, F, S, B, N, t) /\ AllAt(H, R, K, F, S, B) /\ Waits
    BY DEF UmAllAt
  <1>2. PICK N2 : UmAt(H, R, K, F, S, B, N2, t)'
    BY <1>1, LoseKeeps
  <1>3. UNCHANGED um_rx_vars /\ UNCHANGED <<arrived, pdcp_delivered, written>>
    BY DEF Lose, pdcp_vars
  <1>4. Waits'
    BY <1>1, <1>3 DEF um_rx_vars, Waits
  <1>5. AllAt(H, R, K, F, S, B)'
    BY <1>1, <1>3, AllUntouched
  <1> QED
    BY <1>2, <1>4, <1>5 DEF UmAllAt, UmAllInv

(* The reordering timer expires. *)
LEMMA AllOfExpired ==
    ASSUME NEW H, NEW R, NEW K, NEW F, NEW S, NEW B, NEW N, NEW t, UmAllAt(H, R, K, F, S, B, N, t),
           Reordering
    PROVE  UmAllInv'
  <1>1. UmAt(H, R, K, F, S, B, N, t) /\ AllAt(H, R, K, F, S, B) /\ Waits
    BY DEF UmAllAt
  <1>2. /\ ReorderingExpired /\ written' = written /\ arrived' = arrived
    BY DEF Reordering, mac_vars
  <1>3. PICK R2, K2 : UmAt(H, R2, K2, F, S, B, N, t)'
    <2>1. Comes(H, R, K, F, S, B, t, H, N)
      BY <1>1, ReorderingKeeps
    <2> QED
      BY <2>1 DEF Comes
  <1>4. StandsAt(H, R2, K2)' /\ UmRxInv'
    BY <1>3, PlacesKnownNext, UmAtInv
  <1>5. Waits'
    BY <1>2, <1>4, WaitsAfterExpiry
  <1>6. /\ S \in Nat /\ B \in Nat /\ H \in 0..S /\ R \in 0..H /\ R \in 0..S /\ WindowAt(H, R, K)
        /\ \A n \in DeliveredOf(pdcp_delivered) : n \in Nat
        /\ rx_st \in PdcpState
    BY <1>1, PlacesKnown
  <1>7. RxAt(H, R, K, F) /\ InOrderUpTo(F, S) /\ H <= S
    BY <1>1, <1>6 DEF UmAt, SendAt
  <1>8. DOMAIN rx_window # {}
    BY <1>1, <1>2 DEF Waits, ReorderingExpired
  <1>a. PICK A, D, m, w : A = arrived /\ D = DeliveredOf(pdcp_delivered) /\ m = Members /\ w = written
    OBVIOUS
  <1>b. PICK base : base = Since(D, B)
    OBVIOUS
  <1>9. Reached(A, D, m, w, H, R, K, F, S, B)
    BY <1>1, <1>a DEF AllAt
  <1>10. /\ PlacesRise(F, S) /\ \A d \in R..(H - 1) : d \notin K => F[d] \notin A
         /\ Progress(Members, F, R, A, base)
    BY <1>9, <1>a, <1>b DEF Reached, ArrivedAt
  <1>11. PICK R3, K3, out : /\ MovesTo(H, R3, K3, F, R, A, base, out)
                            /\ R \in 0..S /\ R3 \in R..H /\ R3 \notin K
                            /\ K3 = {d \in K : R3 < d}
    BY <1>2, <1>6, <1>7, <1>8, <1>10, ExpiresProgress
  <1>c. PICK I, m2 : I = Ids(out) /\ m2 = Members'
    OBVIOUS
  <1>12. /\ WindowAt(H, R3, K3) /\ vr_ur' = R3 % UM_MOD /\ DOMAIN rx_window' = Numbers(K3)
         /\ Handed(out, F[R][1], F[R3][1]) /\ PdcpWritePdus(rx_st, out)
         /\ Progress(m2, F, R3, A, Since(D, B) \cup I)
    BY <1>11, <1>b, <1>c DEF MovesTo
  <1>13. R3 \in R..S
    BY <1>6, <1>11
  <1>14. /\ DeliveredOf(pdcp_delivered') = D \cup I
         /\ \A n \in I : n \in Nat /\ B < n
    BY <1>1, <1>2, <1>6, <1>12, <1>13, <1>a, <1>c, MovesDelivered
  <1>15. Reached(A, D \cup I, m2, w, H, R3, K3, F, S, B)
    <2>1. \A n \in D : n \in Nat
      BY <1>6, <1>a
    <2> QED
      BY <1>6, <1>9, <1>11, <1>12, <1>14, <2>1, ExpiryReached
  <1>16. AllAt(H, R3, K3, F, S, B)'
    BY <1>2, <1>14, <1>15, <1>a, <1>c DEF AllAt
  <1>17. StandsAt(H, R3, K3)'
    BY <1>12 DEF StandsAt, ReorderingExpired
  <1>18. R2 = R3 /\ K2 = K3
    BY <1>4, <1>17, StandsOnceNext
  <1> QED
    BY <1>3, <1>5, <1>16, <1>18 DEF UmAllAt, UmAllInv

(* Nothing arrives that is not written. *)
LEMMA ArrivedWritten ==
    ASSUME NEW H, NEW R, NEW K, NEW F, NEW S, NEW B, NEW N, NEW t, UmAt(H, R, K, F, S, B, N, t),
           AllAt(H, R, K, F, S, B), NEW b \in arrived
    PROVE  b \in SduByte /\ b[1] <= Len(written)
  <1>1. /\ S \in Nat /\ B \in Nat /\ H \in 0..S /\ B <= Len(written) /\ Len(written) \in Nat
        /\ F[S][1] <= Len(written) + 1
    <2>1. S \in Nat => S \in 0..S
      OBVIOUS
    <2> QED
      BY <2>1, PlacesKnown
  <1>2. PlacesRise(F, S) /\ b \in SduByte /\ (B < b[1] => Pos(b) < Pos(F[H]))
    BY DEF AllAt, Reached, ArrivedAt
  <1>3. IsByte(b) /\ b[1] \in Nat /\ b[2] \in 1..SduLen
    BY <1>2, SduByteIsByte DEF IsByte
  <1>4. CASE b[1] <= B
    BY <1>1, <1>2, <1>3, <1>4
  <1>5. CASE B < b[1]
    <2>1. H \in 0..S /\ S \in H..S
      BY <1>1
    <2>2. /\ IsByte(F[S]) /\ Pos(F[H]) \in Nat /\ Pos(F[S]) \in Nat
          /\ Pos(F[H]) + (S - H) <= Pos(F[S])
      BY <1>1, <1>2, <2>1, PlaceOrder
    <2>3. Pos(b) \in Nat
      BY <1>3, PosIn
    <2>4. Pos(b) < Pos(F[S]) /\ Pos(b) <= Pos(F[S])
      BY <1>1, <1>2, <1>5, <2>2, <2>3
    <2>5. b[1] <= F[S][1]
      BY <1>3, <2>2, <2>4, PosOrder
    <2>6. F[S][1] \in Nat /\ F[S][2] \in 1..SduLen
      BY <2>2 DEF IsByte
    <2>7. CASE b[1] <= Len(written)
      BY <1>2, <2>7
    <2>8. CASE ~(b[1] <= Len(written))
      <3>1. b[1] = F[S][1] /\ F[S][1] = Len(written) + 1
        BY <1>1, <1>3, <2>5, <2>6, <2>8
      <3>2. b[2] < F[S][2]
        BY <1>3, <2>2, <2>4, <3>1, PosOrder
      <3>3. F[S] = NextByte(tx_sdu, t) /\ IsStream(tx_sdu, tx_sdu_queue, t)
            /\ t + Len(tx_sdu_queue) = Len(written)
        BY DEF UmAt, SendAt
      <3>4. t \in Nat /\ Len(tx_sdu_queue) \in Nat
        BY <3>3, LenProperties DEF IsStream
      <3>5. CASE tx_sdu # << >>
        <4>1. F[S][1] = t
          BY <3>3, <3>5 DEF IsStream, NextByte
        <4> QED
          BY <3>1, <3>3, <3>4, <4>1
      <3>6. CASE tx_sdu = << >>
        <4>1. F[S][2] = 1
          BY <3>3, <3>6 DEF NextByte
        <4> QED
          BY <1>3, <3>2, <4>1, SduAssumption
      <3> QED
        BY <3>5, <3>6
    <2> QED
      BY <2>7, <2>8
  <1> QED
    BY <1>1, <1>3, <1>4, <1>5
(* While nothing is held, what is not delivered is lost. *)
LEMMA AllSettled ==
    ASSUME NEW H, NEW R, NEW K, NEW F, NEW S, NEW B, NEW N, NEW t, UmAt(H, R, K, F, S, B, N, t),
           AllAt(H, R, K, F, S, B), DOMAIN rx_window = {}
    PROVE  \A id \in 1..Len(written) : Kept(id, arrived, DeliveredOf(pdcp_delivered), written)
  <1>1. /\ S \in Nat /\ B \in Nat /\ H \in 0..S /\ R \in 0..H /\ StandsAt(H, R, K)
        /\ \A c \in 0..S : B < F[c][1]
        /\ Len(written) \in Nat
    BY PlacesKnown
  <1>2. K = {} /\ R = H /\ R \in Nat /\ R <= S
    BY <1>1, NothingHeld
  <1>a. PICK A, D, m, w, l : /\ A = arrived /\ D = DeliveredOf(pdcp_delivered) /\ m = Members
                             /\ w = written /\ l = Len(written)
    OBVIOUS
  <1>3. Reached(A, D, m, w, R, R, {}, F, S, B)
    BY <1>2, <1>a DEF AllAt
  <1>4. /\ l \in Nat /\ l <= MaxSdus /\ w \in Seq(Nat) /\ l = Len(w)
        /\ \A i \in (B + 1)..l : w[i] = (i - B) - 1
    BY <1>1, <1>a DEF UmAt, CountAt, SdusWritten
  <1>5. \A i \in 1..l : w[i] \in Nat
    BY <1>4
  <1>6. \A id \in 1..l : Kept(id, A, D, w)
    BY <1>1, <1>2, <1>3, <1>4, <1>5, AllSeenTo
  <1> QED
    BY <1>6, <1>a

(* A handover, while the reordering timer does not run. *)
LEMMA AllOfReestablished ==
    ASSUME NEW H, NEW R, NEW K, NEW F, NEW S, NEW B, NEW N, NEW t, UmAllAt(H, R, K, F, S, B, N, t),
           Reestablish, ~reordering_running
    PROVE  UmAllInv'
  <1>1. UmAt(H, R, K, F, S, B, N, t) /\ AllAt(H, R, K, F, S, B) /\ Waits
    BY DEF UmAllAt
  <1>2. PICK F2, m, R2, out :
            /\ UmAt(0, 0, {}, F2, 0, m, 0, m)' /\ m = Len(written)
            /\ R2 \in R..S /\ Handed(out, F[R][1], F[R2][1]) /\ PdcpWritePdus(PdcpReset, out)
            /\ out = << >>
    BY <1>1, ReestablishKeeps
  <1>3. /\ written' = written /\ arrived' = arrived /\ tx_sdu' = << >> /\ UmRxReestablish(PdcpReset)
    BY DEF Reestablish, UmTxReestablish
  <1>4. DOMAIN rx_window = {}
    BY <1>1, UmAtInv DEF UmRxInv, HeldIsWaitedFor
  <1>a. PICK A, D, w, m2 : A = arrived /\ D = DeliveredOf(pdcp_delivered) /\ w = written /\ m2 = Members'
    OBVIOUS
  <1>5. /\ m \in Nat /\ \A id \in 1..m : Kept(id, A, D, w)
    <2>1. Len(written) \in Nat
      BY <1>1, PlacesKnown
    <2> QED
      BY <1>1, <1>2, <1>4, <1>a, <2>1, AllSettled
  <1>6. DeliveredOf(pdcp_delivered') = D
    <2>1. PdcpReset \in PdcpState
      BY PdcpAssumption DEF PdcpReset, PdcpState
    <2>2. DeliveredOf(pdcp_delivered') = D \cup Ids(out)
      BY <1>1, <1>2, <1>3, <1>a, <2>1, MovesDelivered
    <2>3. Ids(out) = {}
      <3>1. Len(out) = 0 /\ 1..0 = {}
        BY <1>2, EmptySeq
      <3> QED
        BY <3>1 DEF Ids
    <2> QED
      BY <2>2, <2>3
  <1>7. \A n \in D : n \in Nat /\ n <= m
    <2>1. /\ R \in 0..S /\ \A d \in 0..S : F[d][1] \in Nat /\ F[d][1] <= Len(written) + 1
          /\ \A n \in DeliveredOf(pdcp_delivered) : n \in Nat /\ n < F[R][1]
      BY <1>1, PlacesKnown
    <2>b. PICK hi : hi = F[R][1]
      OBVIOUS
    <2>2. hi \in Nat /\ hi <= m + 1 /\ \A n \in D : n \in Nat /\ n < hi
      BY <1>2, <1>a, <2>1, <2>b
    <2> QED
      BY <1>5, <2>2
  <1>8. A \subseteq SduByte /\ \A b \in A : b[1] <= m
    BY <1>1, <1>2, <1>a, ArrivedWritten
  <1>9. F2[0] = <<m + 1, 1>>
    <2>1. SendAt(F2, 0, m, m)'
      BY <1>2 DEF UmAt
    <2>2. F2[0] = NextByte(tx_sdu', m)
      BY <2>1 DEF SendAt
    <2> QED
      BY <1>3, <2>2 DEF NextByte
  <1>10. ~m2.lost
    <2>1. pdu_lost' = FALSE
      BY <1>3 DEF UmRxReestablish, Reassembled
    <2>2. m2.lost = pdu_lost'
      BY <1>a DEF Members
    <2> QED
      BY <2>1, <2>2, Zenon
  <1>11. Reached(A, D, m2, w, 0, 0, {}, F2, 0, m)
    BY <1>5, <1>7, <1>8, <1>9, <1>10, BeginsReached
  <1>12. AllAt(0, 0, {}, F2, 0, m)'
    BY <1>3, <1>6, <1>11, <1>a DEF AllAt
  <1>13. Waits'
    <2>1. ~reordering_running'
      BY <1>3 DEF UmRxReestablish
    <2> QED
      BY <2>1 DEF Waits
  <1> QED
    BY <1>2, <1>12, <1>13 DEF UmAllAt, UmAllInv

LEMMA AllStarts == Init => UmAllInv
  <1> SUFFICES ASSUME Init PROVE UmAllInv
    OBVIOUS
  <1>1. PICK F : UmAt(0, 0, {}, F, 0, 0, 0, 0)
    BY InitAt
  <1>2. /\ tx_sdu = << >> /\ pdcp_delivered = << >> /\ arrived = {} /\ pdu_lost = FALSE
        /\ reordering_running = FALSE /\ written = << >>
    BY DEF Init, UmTxInit, UmRxInit, PdcpInit
  <1>3. F[0] = <<0 + 1, 1>>
    <2>1. F[0] = NextByte(tx_sdu, 0)
      BY <1>1 DEF UmAt, SendAt
    <2> QED
      BY <1>2, <2>1 DEF NextByte
  <1>4. DeliveredOf(<< >>) = {}
    <2>1. Len(<< >>) = 0 /\ 1..0 = {}
      BY EmptySeq
    <2> QED
      BY <2>1 DEF DeliveredOf
  <1>a. PICK m, w : m = Members /\ w = written
    OBVIOUS
  <1>5. ~m.lost
    <2>1. m.lost = FALSE
      BY <1>2, <1>a DEF Members
    <2> QED
      BY <2>1, Zenon
  <1>6. Reached({}, {}, m, w, 0, 0, {}, F, 0, 0)
    <2>1. \A id \in 1..0 : Kept(id, {}, {}, w)
      OBVIOUS
    <2> QED
      BY <1>3, <1>5, <2>1, BeginsReached
  <1>7. AllAt(0, 0, {}, F, 0, 0)
    BY <1>2, <1>4, <1>6, <1>a DEF AllAt
  <1>8. Waits
    <2>1. ~reordering_running
      BY <1>2, Zenon
    <2> QED
      BY <2>1 DEF Waits
  <1> QED
    BY <1>1, <1>7, <1>8 DEF UmAllAt, UmAllInv

LEMMA AllStep ==
    ASSUME FewLost, ~ReestablishAnyTime, UmAllInv, [Next]_vars
    PROVE  UmAllInv'
  <1>1. PICK H, R, K, F, S, B, N, t : UmAllAt(H, R, K, F, S, B, N, t)
    BY DEF UmAllInv
  <1>2. CASE Write
    BY <1>1, <1>2, AllOfWritten
  <1>3. ASSUME NEW g \in Grants, Read(g)
        PROVE  UmAllInv'
    BY <1>1, <1>3, AllOfRead
  <1>4. CASE Deliver \/ Duplicate \/ Overtake
    <2>1. UmAt(H, R, K, F, S, B, N, t)
      BY <1>1 DEF UmAllAt
    <2>2. PICK c, pdu, N2 : Gets(H, F, S, c, pdu, N2)
      BY <1>4, <2>1, SomePduIsGiven
    <2> QED
      BY <1>1, <2>2, AllOfReceived
  <1>5. CASE Lose
    BY <1>1, <1>5, AllOfLost
  <1>6. CASE Reordering
    BY <1>1, <1>6, AllOfExpired
  <1>7. CASE Reestablish
    <2>1. ~reordering_running
      BY <1>7 DEF Reestablish
    <2> QED
      BY <1>1, <1>7, <2>1, AllOfReestablished
  <1>8. CASE UNCHANGED vars
    <2>1. /\ UNCHANGED um_rx_vars /\ UNCHANGED <<rx_st, pdcp_delivered>>
          /\ UNCHANGED <<tx_sdu_queue, tx_sdu, vt_us, written>>
          /\ UNCHANGED <<written, next_pdcp_tx_sn, tx_hfn>> /\ UNCHANGED <<pdu_list, overtaken, lost>>
          /\ UNCHANGED <<arrived, pdcp_delivered, written>>
          /\ reestablished' = reestablished
      BY <1>8 DEF vars, um_tx_vars, pdcp_vars, mac_vars
    <2>2. /\ RxAt(H, R, K, F) /\ SendAt(F, S, B, t) /\ CountAt(B) /\ FlightAt(F, S, H, N)
          /\ OutAt(F, R) /\ reestablished \in 0..MaxReestablish
          /\ AllAt(H, R, K, F, S, B) /\ Waits
      BY <1>1 DEF UmAllAt, UmAt
    <2>3. /\ RxAt(H, R, K, F)' /\ SendAt(F, S, B, t)' /\ CountAt(B)' /\ FlightAt(F, S, H, N)'
          /\ OutAt(F, R)'
      BY <2>1, <2>2, RxAtUntouched, SendAtUntouched, CountAtUntouched, FlightAtUntouched, OutAtUntouched
    <2>4. UmAt(H, R, K, F, S, B, N, t)'
      BY <2>1, <2>2, <2>3 DEF UmAt
    <2>5. AllAt(H, R, K, F, S, B)'
      BY <2>1, <2>2, AllUntouched
    <2>6. Waits'
      BY <2>1, <2>2 DEF Waits, um_rx_vars
    <2> QED
      BY <2>4, <2>5, <2>6 DEF UmAllAt, UmAllInv
  <1> QED
    BY <1>2, <1>3, <1>4, <1>5, <1>6, <1>7, <1>8 DEF Next

(* What is delivered, by number. *)
LEMMA DeliveredIs ==
    ASSUME NEW hi, OutIs(pdcp_delivered, hi), NEW id \in 1..MaxSdus
    PROVE  Delivered(id) <=> id \in DeliveredOf(pdcp_delivered)
  <1>a. PICK d : d = pdcp_delivered
    OBVIOUS
  <1>1. SduBytes(id)[1][1] = id
    BY PieceIsSdu
  <1>2. \A i \in 1..Len(d) : d[i].sdu = SduBytes(Id(d[i]))
    BY <1>a DEF OutIs
  <1>3. Delivered(id) <=> \E i \in 1..Len(d) : d[i].sdu = SduBytes(id)
    BY <1>a DEF Delivered
  <1>4. id \in DeliveredOf(d) <=> \E i \in 1..Len(d) : id = Id(d[i])
    BY DEF DeliveredOf
  <1>5. ASSUME NEW i \in 1..Len(d)
        PROVE  d[i].sdu = SduBytes(id) <=> id = Id(d[i])
    BY <1>1, <1>2 DEF Id
  <1> QED
    BY <1>3, <1>4, <1>5, <1>a

LEMMA AllIsOnlyTheLost == UmAllInv => OnlyTheLostIsLost
  <1> SUFFICES ASSUME UmAllInv, rx_window = << >>, NEW id \in 1..Len(written),
                      BytesIn(SduBytes(id)) \subseteq arrived,
                      NEW n \in 1..(id - 1), Delivered(n), written[id] - written[n] = id - n,
                      (id - n) * SduLen < UM_MOD
               PROVE  Delivered(id)
    BY DEF OnlyTheLostIsLost
  <1>1. PICK H, R, K, F, S, B, N, t : UmAt(H, R, K, F, S, B, N, t) /\ AllAt(H, R, K, F, S, B)
    BY DEF UmAllInv, UmAllAt
  <1>2. DOMAIN rx_window = {}
    OBVIOUS
  <1>3. \A i \in 1..Len(written) : Kept(i, arrived, DeliveredOf(pdcp_delivered), written)
    BY <1>1, <1>2, AllSettled
  <1>4. id \in 1..MaxSdus /\ n \in 1..MaxSdus
    <2>l. PICK l : l = Len(written)
      OBVIOUS
    <2>1. l \in Nat /\ l <= MaxSdus
      BY <1>1, <2>l, PlacesKnown DEF UmAt, CountAt, SdusWritten
    <2>2. id \in 1..l
      BY <2>l
    <2> QED
      BY <2>1, <2>2, SduAssumption
  <1>5. PICK hi : OutIs(pdcp_delivered, hi)
    BY <1>1 DEF UmAt, OutAt
  <1>6. n \in DeliveredOf(pdcp_delivered)
    BY <1>4, <1>5, DeliveredIs
  <1>7. id \in DeliveredOf(pdcp_delivered)
    BY <1>3, <1>6 DEF Kept
  <1> QED
    BY <1>4, <1>5, <1>7, DeliveredIs

(* Only what is lost is lost: whatever the MAC loses, repeats and reorders, an SDU all of
   whose bytes have arrived is delivered once the receiver holds nothing back, but for
   the three exceptions that OnlyTheLostIsLost names: for every window, length of SDUs
   and grants, as long as no handover falls into a running reordering timer. *)
THEOREM UmOnlyTheLostIsLost ==
    FewLost /\ ~ReestablishAnyTime => (Spec => []OnlyTheLostIsLost)
  <1> SUFFICES ASSUME FewLost, ~ReestablishAnyTime PROVE Spec => []OnlyTheLostIsLost
    OBVIOUS
  <1>1. UmAllInv /\ [Next]_vars => UmAllInv'
    BY AllStep
  <1> QED
    BY <1>1, AllStarts, AllIsOnlyTheLost, PTL DEF Spec
==============================================================================
