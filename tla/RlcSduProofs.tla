---------------------------- MODULE RlcSduProofs ----------------------------
(***************************************************************************)
(* What the proofs about both RLC modes rest on: folds, one element at a   *)
(* time; division by a modulus; and the stream of bytes.  The bytes of all *)
(* SDUs in their order are one stream (Successor), what a sender takes off *)
(* it for a PDU is a run of it (Run), and what it keeps is the rest        *)
(* (IsStream).  What a receiver without retransmissions makes of the PDUs  *)
(* comes last: the segments a run is cut into (Spans), the SDUs they end   *)
(* (Handed), where a byte stands in the stream (Pos), and with what byte   *)
(* each PDU begins (PlacesRise).                                           *)
(***************************************************************************)
EXTENDS RlcSdu, SequenceTheorems, FiniteSetTheorems, WellFoundedInduction, TLAPS

(* A non-empty set of natural numbers has a least element. *)
LEMMA LeastOfNaturals ==
    ASSUME NEW B \in SUBSET Nat, B # {}
    PROVE  \E b \in B : \A c \in B : b <= c
  <1> DEFINE R == {p \in Nat \X Nat : p[1] < p[2]}
  <1>1. IsWellFoundedOn(R, Nat)
    BY NatLessThanWellFounded DEF OpToRel, IsWellFoundedOn
  <1>2. \E b \in B : \A c \in B : ~(<<c, b>> \in R)
    <2> HIDE DEF R
    <2> QED
      BY <1>1, WFMin
  <1>3. PICK b \in B : \A c \in B : ~(<<c, b>> \in R)
    BY <1>2
  <1>4. \A c \in B : b <= c
    <2> TAKE c \in B
    <2>1. ~(c < b)
      BY <1>3
    <2> QED
      BY <2>1
  <1> QED
    BY <1>4

(* Induction over 1..n, for a set given by its members. *)
LEMMA UpTo ==
    ASSUME NEW n \in Nat, NEW T, n > 0 => 1 \in T,
           \A i \in 1..(n - 1) : i \in T => i + 1 \in T
    PROVE  \A i \in 1..n : i \in T
  <1> DEFINE Bad == {i \in 1..n : i \notin T}
  <1> SUFFICES ASSUME Bad # {} PROVE FALSE
    OBVIOUS
  <1>1. Bad \in SUBSET Nat
    OBVIOUS
  <1>2. PICK b \in Bad : \A c \in Bad : b <= c
    BY <1>1, LeastOfNaturals
  <1>3. b \in 1..n /\ b \notin T
    OBVIOUS
  <1>4. b # 1
    BY <1>3
  <1>5. b - 1 \in 1..(n - 1) /\ b - 1 \notin Bad
    BY <1>1, <1>2, <1>3, <1>4
  <1>6. b - 1 \in T
    BY <1>5
  <1>7. (b - 1) + 1 = b
    BY <1>3
  <1> QED
    BY <1>3, <1>5, <1>6, <1>7

(* A sequence of numbers that never falls from one to the next never falls. *)
LEMMA Ascending ==
    ASSUME NEW l \in Nat, NEW V \in [1..l -> Nat], \A d \in 1..(l - 1) : V[d] <= V[d + 1],
           NEW m \in 1..l, NEW n \in m..l
    PROVE  V[m] <= V[n]
  <1> DEFINE T == {d \in 1..(l - m + 1) : V[m] <= V[m + d - 1]}
  <1>1. 1 \in 1..(l - m + 1) => 1 \in T
    OBVIOUS
  <1>2. ASSUME NEW d \in 1..(l - m + 1 - 1), d \in T PROVE d + 1 \in T
    <2>1. m + d - 1 \in 1..(l - 1) /\ m + d - 1 \in 1..l /\ m + d \in 1..l
          /\ (m + d - 1) + 1 = m + d /\ m + (d + 1) - 1 = m + d /\ d + 1 \in 1..(l - m + 1)
      OBVIOUS
    <2>2. V[m + d - 1] <= V[m + d] /\ V[m] \in Nat /\ V[m + d - 1] \in Nat /\ V[m + d] \in Nat
      BY <2>1
    <2> QED
      BY <1>2, <2>1, <2>2
  <1>3. l - m + 1 \in Nat /\ l - m + 1 > 0
    OBVIOUS
  <1> HIDE DEF T
  <1>4. \A d \in 1..(l - m + 1) : d \in T
    <2> PICK k : k = l - m + 1
      OBVIOUS
    <2>1. k \in Nat /\ (k > 0 => 1 \in T) /\ \A d \in 1..(k - 1) : d \in T => d + 1 \in T
      BY <1>1, <1>2, <1>3
    <2>2. \A d \in 1..k : d \in T
      BY <2>1, UpTo
    <2> QED
      BY <2>2
  <1>5. n - m + 1 \in 1..(l - m + 1) /\ m + (n - m + 1) - 1 = n
    OBVIOUS
  <1>6. n - m + 1 \in T
    BY <1>4, <1>5
  <1> QED
    BY <1>5, <1>6 DEF T

(* The greatest of the first n numbers, less those above it. *)
LEMMA GreatestOf ==
    ASSUME NEW n \in Nat
    PROVE  /\ \A s \in SUBSET (1..n) : s # {} => Max(s) \in s /\ \A i \in s : i <= Max(s)
           /\ n > 0 => Max(1..n) = n
  <1>1. ASSUME NEW s \in SUBSET (1..n), s # {}
        PROVE  Max(s) \in s /\ \A i \in s : i <= Max(s)
    <2> DEFINE Up == {n - i : i \in s}
    <2>1. Up \in SUBSET Nat /\ Up # {}
      BY <1>1
    <2>2. PICK b \in Up : \A c \in Up : b <= c
      BY <2>1, LeastOfNaturals
    <2>3. PICK x \in s : b = n - x
      BY <2>2
    <2>4. \A y \in s : x >= y
      <3> TAKE y \in s
      <3>1. b <= n - y /\ x \in 1..n /\ y \in 1..n
        BY <2>2, <1>1
      <3> QED
        BY <2>3, <3>1
    <2>5. \E x1 \in s : \A y \in s : x1 >= y
      BY <2>4
    <2>6. Max(s) \in s /\ \A y \in s : Max(s) >= y
      BY <2>5 DEF Max
    <2> QED
      BY <2>6
  <1>2. n > 0 => Max(1..n) = n
    <2> SUFFICES ASSUME n > 0 PROVE Max(1..n) = n
      OBVIOUS
    <2>1. n \in 1..n /\ 1..n \in SUBSET (1..n)
      OBVIOUS
    <2>2. Max(1..n) \in 1..n /\ n <= Max(1..n)
      BY <1>1, <2>1
    <2> QED
      BY <2>2
  <1> QED
    BY <1>1, <1>2

-----------------------------------------------------------------------------
(* Sequences *)

(* FlattenSeq, one sequence at a time. *)
LEMMA FlattenSteps ==
    ASSUME NEW S, NEW seqs \in Seq(Seq(S)), seqs # << >>
    PROVE  \E f \in [1..Len(seqs) -> Seq(S)] :
              /\ f[1] = seqs[1]
              /\ \A i \in 1..(Len(seqs) - 1) : f[i + 1] = f[i] \o seqs[i + 1]
              /\ FlattenSeq(seqs) = f[Len(seqs)]
  <1> DEFINE n == Len(seqs)
             Steps(f, m) == f = [i \in 1..m |-> IF i = 1 THEN seqs[i] ELSE f[i - 1] \o seqs[i]]
             Can(m) == \E f : Steps(f, m)
  <1>1. n \in Nat \ {0} /\ \A i \in 1..n : seqs[i] \in Seq(S)
    BY EmptySeq, LenProperties, ElementOfSeq
  <1> HIDE DEF n
  <1>2. Can(1)
    <2>1. Steps([i \in 1..1 |-> seqs[i]], 1)
      OBVIOUS
    <2> QED
      BY <2>1
  <1>3. ASSUME NEW m \in 1..(n - 1), Can(m) PROVE Can(m + 1)
    <2>1. PICK g : Steps(g, m)
      BY <1>3
    <2> DEFINE f == [i \in 1..(m + 1) |-> IF i = m + 1 THEN g[m] \o seqs[m + 1] ELSE g[i]]
    <2>2. ASSUME NEW i \in 1..(m + 1)
          PROVE  f[i] = IF i = 1 THEN seqs[i] ELSE f[i - 1] \o seqs[i]
      <3>1. m \in Nat /\ m >= 1
        BY <1>1
      <3>2. CASE i = m + 1
        <4>1. i # 1 /\ i - 1 = m /\ m \in 1..(m + 1) /\ m # m + 1
          BY <3>1, <3>2
        <4> QED
          BY <3>2, <4>1
      <3>3. CASE i # m + 1
        <4>1. i \in 1..m /\ (i # 1 => i - 1 \in 1..(m + 1) /\ i - 1 # m + 1)
          BY <3>1, <3>3
        <4>2. g[i] = IF i = 1 THEN seqs[i] ELSE g[i - 1] \o seqs[i]
          BY <2>1, <4>1
        <4> QED
          BY <3>3, <4>1, <4>2
      <3> QED
        BY <3>2, <3>3
    <2>3. Steps(f, m + 1)
      BY <2>2
    <2> QED
      BY <2>3
  <1>4. Can(n)
    <2> DEFINE T == {m \in 1..n : Can(m)}
    <2> HIDE DEF Can
    <2>1. 1 \in T /\ \A i \in 1..(n - 1) : i \in T => i + 1 \in T
      BY <1>1, <1>2, <1>3
    <2> HIDE DEF T
    <2>2. \A i \in 1..n : i \in T
      BY <1>1, <2>1, UpTo
    <2>3. n \in T
      BY <1>1, <2>2
    <2> QED
      BY <2>3 DEF T
  <1>5. PICK f : Steps(f, n) /\ FlattenSeq(seqs) = f[n]
    <2>1. FlattenSeq(seqs) = (CHOOSE f : Steps(f, n))[n]
      BY <1>1 DEF FlattenSeq, n
    <2>2. Steps(CHOOSE f : Steps(f, n), n)
      <3>1. \E f : Steps(f, n)
        BY <1>4
      <3> HIDE DEF Steps
      <3> QED
        BY <3>1, Zenon
    <2> HIDE DEF Steps
    <2> QED
      BY <2>1, <2>2
  <1>6. \A i \in 1..n : f[i] = IF i = 1 THEN seqs[i] ELSE f[i - 1] \o seqs[i]
    BY <1>5
  <1>7. DOMAIN f = 1..n
    BY <1>5
  <1> HIDE DEF Steps
  <1>8. f[1] = seqs[1]
    BY <1>1, <1>6
  <1>9. ASSUME NEW i \in 1..(n - 1) PROVE f[i + 1] = f[i] \o seqs[i + 1]
    <2>1. i + 1 \in 1..n /\ i + 1 # 1 /\ (i + 1) - 1 = i
      BY <1>1
    <2> QED
      BY <1>6, <2>1
  <1>10. \A i \in 1..n : f[i] \in Seq(S)
    <2> DEFINE T == {i \in 1..n : f[i] \in Seq(S)}
    <2>1. 1 \in T
      BY <1>1, <1>8
    <2>2. ASSUME NEW i \in 1..(n - 1), i \in T PROVE i + 1 \in T
      <3>1. f[i] \in Seq(S) /\ i + 1 \in 1..n /\ seqs[i + 1] \in Seq(S)
        BY <1>1, <2>2
      <3>2. f[i] \o seqs[i + 1] \in Seq(S)
        BY <3>1, ConcatProperties
      <3> QED
        BY <1>9, <3>1, <3>2
    <2> HIDE DEF T
    <2>3. \A i \in 1..n : i \in T
      BY <1>1, <2>1, <2>2, UpTo
    <2> QED
      BY <2>3 DEF T
  <1>11. f \in [1..n -> Seq(S)]
    <2>1. f = [i \in 1..n |-> f[i]]
      BY <1>5, <1>7 DEF Steps
    <2> QED
      BY <1>10, <2>1
  <1> QED
    BY <1>5, <1>8, <1>9, <1>11 DEF n

(* RemoveAt(s, n) without a sum: what is before n stays, what follows moves down. *)
LEMMA RemoveAtProperties ==
    ASSUME NEW S, NEW s \in Seq(S), NEW n \in 1..Len(s)
    PROVE  /\ RemoveAt(s, n) \in Seq(S)
           /\ Len(RemoveAt(s, n)) = Len(s) - 1
           /\ \A i \in 1..(Len(s) - 1) : RemoveAt(s, n)[i] = IF i < n THEN s[i] ELSE s[i + 1]
  <1> DEFINE a == SubSeq(s, 1, n - 1)
             b == SubSeq(s, n + 1, Len(s))
  <1>1. Len(s) \in Nat /\ n \in Nat /\ n >= 1 /\ n <= Len(s)
    BY LenProperties
  <1>2. /\ a \in Seq(S) /\ Len(a) = n - 1
        /\ \A i \in 1..(n - 1) : a[i] = s[i]
    <2>1. \A i \in 1..(n - 1) : i \in 1..Len(s)
      BY <1>1
    <2>2. \A i \in 1..(n - 1) : s[i] \in S
      BY <2>1, ElementOfSeq
    <2>3. /\ a \in Seq(S)
          /\ Len(a) = IF 1 <= n - 1 THEN n - 1 - 1 + 1 ELSE 0
          /\ \A i \in 1..(n - 1 - 1 + 1) : a[i] = s[1 + i - 1]
      BY <1>1, <2>2, SubSeqProperties
    <2> HIDE DEF a
    <2>4. \A i \in 1..(n - 1) : i \in 1..(n - 1 - 1 + 1) /\ 1 + i - 1 = i
      BY <1>1
    <2>5. \A i \in 1..(n - 1) : a[i] = s[i]
      BY <2>3, <2>4
    <2> QED
      BY <1>1, <2>3, <2>5
  <1>3. /\ b \in Seq(S) /\ Len(b) = Len(s) - n
        /\ \A i \in 1..(Len(s) - n) : b[i] = s[n + i]
    <2>1. \A i \in (n + 1)..Len(s) : i \in 1..Len(s)
      BY <1>1
    <2>2. \A i \in (n + 1)..Len(s) : s[i] \in S
      BY <2>1, ElementOfSeq
    <2>3. /\ b \in Seq(S)
          /\ Len(b) = IF n + 1 <= Len(s) THEN Len(s) - (n + 1) + 1 ELSE 0
          /\ \A i \in 1..(Len(s) - (n + 1) + 1) : b[i] = s[(n + 1) + i - 1]
      BY <1>1, <2>2, SubSeqProperties
    <2> HIDE DEF b
    <2>4. \A i \in 1..(Len(s) - n) : i \in 1..(Len(s) - (n + 1) + 1) /\ (n + 1) + i - 1 = n + i
      BY <1>1
    <2>5. \A i \in 1..(Len(s) - n) : b[i] = s[n + i]
      BY <2>3, <2>4
    <2> QED
      BY <1>1, <2>3, <2>5
  <1>4. RemoveAt(s, n) = a \o b
    BY DEF RemoveAt
  <1> HIDE DEF a, b
  <1>5. /\ a \o b \in Seq(S) /\ Len(a \o b) = Len(a) + Len(b)
        /\ \A i \in 1..(Len(a) + Len(b)) : (a \o b)[i] = IF i <= Len(a) THEN a[i] ELSE b[i - Len(a)]
    BY <1>2, <1>3, ConcatProperties
  <1>6. Len(a) + Len(b) = Len(s) - 1
    BY <1>1, <1>2, <1>3
  <1>7. ASSUME NEW i \in 1..(Len(s) - 1)
        PROVE  (a \o b)[i] = IF i < n THEN s[i] ELSE s[i + 1]
    <2>1. CASE i < n
      BY <1>1, <1>2, <1>5, <1>6, <2>1
    <2>2. CASE ~(i < n)
      <3>1. i - (n - 1) \in 1..(Len(s) - n) /\ ~(i <= n - 1) /\ n + (i - (n - 1)) = i + 1
        BY <1>1, <2>2
      <3>2. (a \o b)[i] = b[i - (n - 1)]
        BY <1>2, <1>5, <1>6, <3>1
      <3>3. b[i - (n - 1)] = s[n + (i - (n - 1))]
        BY <1>3, <3>1
      <3> QED
        BY <2>2, <3>1, <3>2, <3>3
    <2> QED
      BY <2>1, <2>2
  <1> QED
    BY <1>4, <1>5, <1>6, <1>7

\* What MapThenFoldSet computes of a sequence, and the same one element at a time.
Folds(g, step, base, n, seq) ==
    \A s \in SUBSET (1..n) :
        g[s] = IF s = {} THEN base ELSE step[<<g[s \ {Max(s)}], seq[Max(s)]>>]
\* The same as far as the values stay in A.
FoldsIn(g, A, step, base, n, seq) ==
    /\ g[{}] = base
    /\ \A s \in SUBSET (1..n) : s # {} /\ g[s \ {Max(s)}] \in A =>
          g[s] = step[<<g[s \ {Max(s)}], seq[Max(s)]>>]
\* f is the fold, position after position.
Steps(f, g, step, base, n, seq) ==
    /\ f[0] = base /\ f[n] = g[1..n]
    /\ \A i \in 1..n : f[i] = step[<<f[i - 1], seq[i]>>]

(* The function that MapThenFoldSet computes exists. *)
LEMMA FoldExists ==
    ASSUME NEW A, NEW B, NEW step \in [A \X B -> A], NEW base \in A,
           NEW n \in Nat, NEW seq \in [1..n -> B]
    PROVE  \E g \in [SUBSET (1..n) -> A] : Folds(g, step, base, n, seq)
  <1> DEFINE Good(g, m) == \A s \in SUBSET (1..m) :
                g[s] = IF s = {} THEN base ELSE step[<<g[s \ {Max(s)}], seq[Max(s)]>>]
             Can == {m \in 0..n : \E g \in [SUBSET (1..m) -> A] : Good(g, m)}
  <1>1. 0 \in Can
    <2> DEFINE g == [s \in SUBSET (1..0) |-> base]
    <2>1. \A s \in SUBSET (1..0) : s = {}
      OBVIOUS
    <2>2. g \in [SUBSET (1..0) -> A]
      OBVIOUS
    <2>3. Good(g, 0)
      BY <2>1
    <2> HIDE DEF g, Good
    <2>4. \E g1 \in [SUBSET (1..0) -> A] : Good(g1, 0)
      BY <2>2, <2>3
    <2>5. 0 \in 0..n
      OBVIOUS
    <2> QED
      BY <2>4, <2>5
  <1>2. ASSUME NEW m \in 0..(n - 1), m \in Can
        PROVE  m + 1 \in Can
    <2>1. PICK g \in [SUBSET (1..m) -> A] : Good(g, m)
      BY <1>2
    <2> DEFINE up(s) == s \cap (1..m)
               h == [s \in SUBSET (1..(m + 1)) |->
                       IF m + 1 \in s THEN step[<<g[up(s)], seq[m + 1]>>] ELSE g[up(s)]]
    <2>2. \A s : up(s) \in SUBSET (1..m) /\ g[up(s)] \in A
      BY <2>1
    <2>3. seq[m + 1] \in B /\ m + 1 \in 0..n
      BY <1>2
    <2>4. h \in [SUBSET (1..(m + 1)) -> A]
      <3> SUFFICES ASSUME NEW s \in SUBSET (1..(m + 1))
                   PROVE  (IF m + 1 \in s THEN step[<<g[up(s)], seq[m + 1]>>] ELSE g[up(s)]) \in A
        OBVIOUS
      <3> HIDE DEF up
      <3> QED
        BY <2>2, <2>3
    <2>5. Good(h, m + 1)
      <3> SUFFICES ASSUME NEW s \in SUBSET (1..(m + 1))
                   PROVE  h[s] = IF s = {} THEN base
                                 ELSE step[<<h[s \ {Max(s)}], seq[Max(s)]>>]
        OBVIOUS
      <3>1. CASE m + 1 \in s
        <4>1. m + 1 \in Nat /\ s # {} /\ s \in SUBSET (1..(m + 1))
          BY <3>1
        <4>2. Max(s) \in s /\ \A i \in s : i <= Max(s)
          BY <4>1, GreatestOf
        <4>3. Max(s) = m + 1
          <5>1. Max(s) \in 1..(m + 1) /\ m + 1 <= Max(s)
            BY <3>1, <4>2
          <5> QED
            BY <5>1
        <4>4. s \ {m + 1} \in SUBSET (1..(m + 1)) /\ up(s \ {m + 1}) = up(s)
          OBVIOUS
        <4>5. h[s \ {m + 1}] = g[up(s)]
          BY <4>4
        <4> QED
          BY <3>1, <4>1, <4>3, <4>5
      <3>2. CASE m + 1 \notin s
        <4>1. s \in SUBSET (1..m) /\ up(s) = s
          <5>1. \A x \in s : x \in 1..(m + 1) /\ x # m + 1
            BY <3>2
          <5>2. \A x \in s : x \in 1..m
            BY <5>1
          <5> QED
            BY <5>2
        <4>2. h[s] = g[s]
          BY <3>2, <4>1
        <4>3. s \ {Max(s)} \in SUBSET (1..m) /\ up(s \ {Max(s)}) = s \ {Max(s)}
              /\ m + 1 \notin s \ {Max(s)} /\ s \ {Max(s)} \in SUBSET (1..(m + 1))
          BY <3>2, <4>1
        <4>4. h[s \ {Max(s)}] = g[s \ {Max(s)}]
          BY <4>3
        <4>5. g[s] = IF s = {} THEN base ELSE step[<<g[s \ {Max(s)}], seq[Max(s)]>>]
          BY <2>1, <4>1
        <4> QED
          BY <4>2, <4>4, <4>5
      <3> QED
        BY <3>1, <3>2
    <2> HIDE DEF Good, h
    <2> QED
      BY <2>3, <2>4, <2>5
  <1> HIDE DEF Can
  <1>3. \A i \in 1..(n + 1) : i - 1 \in Can
    <2> DEFINE T == {i \in 1..(n + 1) : i - 1 \in Can}
    <2>1. 1 \in T
      BY <1>1
    <2>2. ASSUME NEW i \in 1..(n + 1 - 1), i \in T PROVE i + 1 \in T
      <3>1. i - 1 \in 0..(n - 1) /\ i - 1 \in Can /\ (i - 1) + 1 = i /\ i + 1 - 1 = i
            /\ i + 1 \in 1..(n + 1)
        BY <2>2
      <3>2. i \in Can
        BY <1>2, <3>1
      <3> QED
        BY <3>1, <3>2
    <2> HIDE DEF T
    <2> PICK k : k = n + 1
      OBVIOUS
    <2>3. \A i \in 1..k : i \in T
      <3>1. k \in Nat /\ (\A i \in 1..(k - 1) : i \in T => i + 1 \in T)
        BY <2>2
      <3> QED
        BY <2>1, <3>1, UpTo
    <2> QED
      BY <2>3 DEF T
  <1>4. n \in Can
    <2>1. n + 1 \in 1..(n + 1) /\ n + 1 - 1 = n
      OBVIOUS
    <2> QED
      BY <1>3, <2>1
  <1> QED
    BY <1>4 DEF Can, Folds

(* It computes the fold one element at a time. *)
LEMMA FoldSteps ==
    ASSUME NEW A, NEW B, NEW step \in [A \X B -> A], NEW base \in A,
           NEW n \in Nat, NEW seq \in [1..n -> B], NEW g,
           FoldsIn(g, A, step, base, n, seq)
    PROVE  \E f \in [0..n -> A] : Steps(f, g, step, base, n, seq)
  <1> DEFINE f == [i \in 0..n |-> g[1..i]]
             T == {i \in 1..n : f[i] \in A /\ f[i] = step[<<f[i - 1], seq[i]>>]}
  <1>0. f[0] = base
    <2>1. 1..0 = {}
      OBVIOUS
    <2> QED
      BY <2>1 DEF FoldsIn
  <1>1. ASSUME NEW i \in 1..n, f[i - 1] \in A
        PROVE  i \in T
    <2>1. 1..i \in SUBSET (1..n) /\ 1..i # {} /\ i \in Nat /\ i > 0 /\ i - 1 \in 0..n
      <3>1. i \in Nat /\ i > 0 /\ i - 1 \in 0..n /\ i \in 1..i
        OBVIOUS
      <3>2. \A x \in 1..i : x \in 1..n
        OBVIOUS
      <3> QED
        BY <3>1, <3>2
    <2>2. Max(1..i) = i
      BY <2>1, GreatestOf
    <2>3. (1..i) \ {i} = 1..(i - 1)
      OBVIOUS
    <2>4. f[i - 1] = g[(1..i) \ {Max(1..i)}]
      BY <2>1, <2>2, <2>3
    <2>5. g[1..i] = step[<<f[i - 1], seq[i]>>]
      BY <1>1, <2>1, <2>2, <2>4 DEF FoldsIn
    <2>6. f[i] = g[1..i]
      OBVIOUS
    <2>7. <<f[i - 1], seq[i]>> \in A \X B
      BY <1>1
    <2> HIDE DEF f
    <2> QED
      BY <2>5, <2>6, <2>7
  <1> HIDE DEF f
  <1>2. n > 0 => 1 \in T
    BY <1>0, <1>1
  <1>3. ASSUME NEW i \in 1..(n - 1), i \in T PROVE i + 1 \in T
    <2>1. i + 1 \in 1..n /\ (i + 1) - 1 = i /\ f[i] \in A
      BY <1>3
    <2> HIDE DEF T
    <2> QED
      BY <1>1, <2>1
  <1>4. \A i \in 1..n : i \in T
    <2> HIDE DEF T
    <2> QED
      BY <1>2, <1>3, UpTo
  <1>5. \A i \in 0..n : f[i] \in A
    <2> TAKE i \in 0..n
    <2>1. i = 0 \/ i \in 1..n
      OBVIOUS
    <2> QED
      BY <1>0, <1>4, <2>1
  <1>6. f \in [0..n -> A] /\ f[n] = g[1..n]
    <2>1. f = [i \in 0..n |-> f[i]] /\ n \in 0..n
      BY DEF f
    <2> QED
      BY <1>5, <2>1 DEF f
  <1> QED
    BY <1>0, <1>4, <1>6 DEF Steps

(* A fold named by what the function that MapThenFoldSet computes satisfies. *)
LEMMA FoldRuns ==
    ASSUME NEW A, NEW B, NEW step \in [A \X B -> A], NEW base \in A,
           NEW n \in Nat, NEW seq \in [1..n -> B], NEW it,
           \A g \in [SUBSET (1..n) -> A] :
              Folds(g, step, base, n, seq) => FoldsIn(it, A, step, base, n, seq)
    PROVE  \E f \in [0..n -> A] : Steps(f, it, step, base, n, seq)
  BY FoldExists, FoldSteps

LEMMA LastOfSet ==
    ASSUME NEW n \in Nat, NEW s \in SUBSET (1..n), s # {}
    PROVE  Max(s) \in 1..n /\ s \ {Max(s)} \in SUBSET (1..n)
  BY GreatestOf

-----------------------------------------------------------------------------
(* Division *)

(* A number without its remainder is a multiple of the modulus, *)
LEMMA QuotientAndRemainder ==
    ASSUME NEW M \in Nat \ {0}, NEW X \in Nat
    PROVE  /\ X = M * (X \div M) + (X % M)
           /\ X % M \in 0..(M - 1) /\ X \div M \in Nat
  OBVIOUS

(* and only the remainder leaves one. *)
LEMMA RemainderIsUnique ==
    ASSUME NEW M \in Nat \ {0}, NEW X \in Nat, NEW q \in Nat, NEW r \in 0..(M - 1), X = M * q + r
    PROVE  X % M = r
  OBVIOUS

(* The remainder of a sum, from that of the first of the two. *)
LEMMA RemainderOfSum ==
    ASSUME NEW M \in Nat \ {0}, NEW X \in Nat, NEW d \in 0..M
    PROVE  ((X % M) + d) % M = (X + d) % M
  <1> DEFINE r == X % M
             q == X \div M
             Z == X + d
  <1>0. /\ X = M * (X \div M) + (X % M)
        /\ X % M \in 0..(M - 1) /\ X \div M \in Nat
    BY QuotientAndRemainder
  <1>1. X = M * q + r /\ r \in 0..(M - 1) /\ q \in Nat /\ Z \in Nat /\ Z = X + d
    BY <1>0
  <1> HIDE DEF r, q, Z
  <1>2. CASE r + d < M
    <2>1. r + d \in 0..(M - 1) /\ Z = M * q + (r + d)
      BY <1>1, <1>2
    <2>2. Z % M = r + d
      BY <1>1, <2>1, RemainderIsUnique
    <2> QED
      BY <1>1, <1>2, <2>1, <2>2 DEF r, Z
  <1>3. CASE r + d >= M
    <2>1. r + d - M \in 0..(M - 1) /\ M * (q + 1) = M * q + M
      BY <1>1, <1>3
    <2> PICK q1, r1 : q1 = q + 1 /\ r1 = r + d - M
      OBVIOUS
    <2>2. Z = M * q1 + r1 /\ q1 \in Nat /\ r1 \in 0..(M - 1)
      BY <1>1, <2>1
    <2>3. Z % M = r1
      BY <2>2, RemainderIsUnique
    <2>4. (r + d) % M = r + d - M
      BY <1>1, <1>3, <2>1
    <2> QED
      BY <2>3, <2>4 DEF r, Z
  <1> QED
    BY <1>1, <1>2, <1>3

(* Numbers less than M apart have different remainders. *)
LEMMA RemaindersDiffer ==
    ASSUME NEW M \in Nat \ {0}, NEW c \in Nat, NEW d \in Nat, c < d, d < c + M
    PROVE  c % M # d % M
  <1>b. PICK r, q : r = c % M /\ q = c \div M
    OBVIOUS
  <1>1. c = M * q + r /\ r \in 0..(M - 1) /\ q \in Nat
    BY <1>b, QuotientAndRemainder
  <1>c. PICK e : e = d - c
    OBVIOUS
  <1>2. e \in 1..(M - 1) /\ d = c + e
    BY <1>1, <1>c
  <1>3. CASE r + e < M
    <2>1. d = M * q + (r + e) /\ r + e \in 0..(M - 1)
      BY <1>1, <1>2, <1>3
    <2>2. d % M = r + e
      BY <1>1, <2>1, RemainderIsUnique
    <2> QED
      BY <1>1, <1>2, <1>b, <2>2
  <1>4. CASE ~(r + e < M)
    <2>1. d = M * q + M + (r + e - M) /\ r + e - M \in 0..(M - 1) /\ q + 1 \in Nat
      BY <1>1, <1>2, <1>4
    <2>2. M * q + M = M * (q + 1)
      BY <1>1
    <2>3. d = M * (q + 1) + (r + e - M)
      BY <2>1, <2>2
    <2>4. d % M = r + e - M
      BY <1>1, <2>1, <2>3, RemainderIsUnique
    <2> QED
      BY <1>1, <1>2, <1>b, <2>4
  <1> QED
    BY <1>3, <1>4

(* How far a number is ahead of another, from their remainders. *)
LEMMA DifferenceOfRemainders ==
    ASSUME NEW M \in Nat \ {0}, NEW R \in Nat, NEW d \in Nat, R <= d, d < R + M
    PROVE  ((d % M) - (R % M)) % M = d - R
  <1>a. PICK a, b, e : a = R % M /\ b = d % M /\ e = d - R
    OBVIOUS
  <1>1. a \in 0..(M - 1) /\ e \in 0..(M - 1) /\ R + e = d
    BY <1>a
  <1>2. e \in 0..M
    BY <1>1
  <1>3. ((R % M) + e) % M = (R + e) % M
    BY <1>2, RemainderOfSum
  <1>4. (a + e) % M = b
    BY <1>1, <1>3, <1>a
  <1>5. b = IF a + e < M THEN a + e ELSE a + e - M
    BY <1>1, <1>4
  <1>6. (b - a) % M = e
    BY <1>1, <1>5
  <1> QED
    BY <1>6, <1>a

(* A number is known by its remainder once one less than M before it is known: a COUNT
   by its SN. *)
LEMMA CountRebuilt ==
    ASSUME NEW M \in Nat \ {0}, NEW h \in Nat, NEW n \in 0..(M - 1), NEW y \in Nat,
           h * M + n <= y, y < h * M + n + M
    PROVE  y = (IF y % M < n THEN h + 1 ELSE h) * M + (y % M)
  <1>a. PICK q, s, x : q = y \div M /\ s = y % M /\ x = h * M
    OBVIOUS
  <1>1. y = M * q + s /\ s \in 0..(M - 1) /\ q \in Nat
    BY <1>a, QuotientAndRemainder
  <1>2. (h + 1) * M = x + M /\ (h + 2) * M = x + M + M /\ x \in Nat
    BY <1>a
  <1>3. M * q = q * M
    BY <1>1
  <1>4. q >= h
    <2> SUFFICES ASSUME q < h PROVE FALSE
      BY <1>1
    <2>1. PICK d \in Nat : h = q + 1 + d
      <3>1. h - (q + 1) \in Nat /\ h = q + 1 + (h - (q + 1))
        BY <1>1
      <3> QED
        BY <3>1
    <2>2. x = q * M + M + d * M /\ d * M \in Nat
      BY <1>1, <1>a, <2>1
    <2> QED
      BY <1>1, <1>2, <1>3, <1>a, <2>2
  <1>5. q < h + 2
    <2> SUFFICES ASSUME q >= h + 2 PROVE FALSE
      BY <1>1
    <2>1. PICK d \in Nat : q = h + 2 + d
      <3>1. q - (h + 2) \in Nat /\ q = h + 2 + (q - (h + 2))
        BY <1>1
      <3> QED
        BY <3>1
    <2>2. q * M = x + M + M + d * M /\ d * M \in Nat
      BY <1>2, <2>1
    <2> QED
      BY <1>1, <1>2, <1>3, <1>a, <2>2
  <1>6. q = h \/ q = h + 1
    BY <1>1, <1>4, <1>5
  <1>7. CASE q = h
    <2>1. y = x + s
      BY <1>1, <1>3, <1>7, <1>a
    <2>2. ~(s < n)
      BY <1>1, <1>2, <1>a, <2>1
    <2> QED
      BY <1>a, <2>1, <2>2
  <1>8. CASE q = h + 1
    <2>1. y = x + M + s
      BY <1>1, <1>2, <1>3, <1>8
    <2>2. s < n
      BY <1>1, <1>2, <1>a, <2>1
    <2> QED
      BY <1>2, <1>a, <2>1, <2>2
  <1> QED
    BY <1>6, <1>7, <1>8

-----------------------------------------------------------------------------
(* The stream of bytes *)

\* A byte of an SDU.
SduByte == (1..MaxSdus) \X (1..SduLen)

(* The bytes of an SDU. *)
LEMMA SduBytesType ==
    ASSUME NEW id \in 1..MaxSdus
    PROVE  /\ SduBytes(id) \in Seq(SduByte) /\ Len(SduBytes(id)) = SduLen
           /\ \A k \in 1..SduLen : SduBytes(id)[k] = <<id, k>>
  BY SduAssumption DEF SduBytes, SduByte

\* The byte after b.
Successor(b) == IF b[2] = SduLen THEN <<b[1] + 1, 1>> ELSE <<b[1], b[2] + 1>>

\* Bytes of the stream, one after the other.
Run(d) ==
    /\ d \in Seq(SduByte) /\ d # << >>
    /\ \A k \in 1..(Len(d) - 1) : d[k + 1] = Successor(d[k])

\* The byte after a run.
NextOf(d) == Successor(d[Len(d)])

(* What a run is made of. *)
LEMMA RunTypes ==
    ASSUME NEW d, Run(d)
    PROVE  /\ Len(d) \in Nat \ {0} /\ d \in Seq(SduByte)
           /\ \A k \in 1..Len(d) : d[k] \in SduByte /\ d[k][1] \in 1..MaxSdus /\ d[k][2] \in 1..SduLen
           /\ NextOf(d)[1] \in 1..(MaxSdus + 1) /\ NextOf(d)[2] \in 1..SduLen
  <1>1. Len(d) \in Nat \ {0} /\ d \in Seq(SduByte)
    BY EmptySeq, LenProperties DEF Run
  <1>2. \A k \in 1..Len(d) : d[k] \in SduByte
    BY <1>1, ElementOfSeq
  <1>3. \A b \in SduByte : b[1] \in 1..MaxSdus /\ b[2] \in 1..SduLen
    BY DEF SduByte
  <1>4. \A b \in SduByte : Successor(b)[1] \in 1..(MaxSdus + 1) /\ Successor(b)[2] \in 1..SduLen
    <2> TAKE b \in SduByte
    <2>1. b[1] \in 1..MaxSdus /\ b[2] \in 1..SduLen
      BY <1>3
    <2> QED
      BY <2>1, SduAssumption DEF Successor
  <1>5. Len(d) \in 1..Len(d)
    BY <1>1
  <1> QED
    BY <1>1, <1>2, <1>3, <1>4, <1>5 DEF NextOf

(* A run and the one that follows it. *)
LEMMA RunsJoin ==
    ASSUME NEW a, NEW b, Run(a), Run(b), b[1] = NextOf(a)
    PROVE  Run(a \o b) /\ (a \o b)[1] = a[1] /\ NextOf(a \o b) = NextOf(b)
  <1> PICK m, n : m = Len(a) /\ n = Len(b)
    OBVIOUS
  <1>1. /\ m \in Nat \ {0} /\ n \in Nat \ {0} /\ a \in Seq(SduByte) /\ b \in Seq(SduByte)
    BY RunTypes
  <1>2. /\ a \o b \in Seq(SduByte) /\ Len(a \o b) = m + n
        /\ \A k \in 1..(m + n) : (a \o b)[k] = IF k <= m THEN a[k] ELSE b[k - m]
    BY <1>1, ConcatProperties
  <1>3. ASSUME NEW k \in 1..(m + n - 1)
        PROVE  (a \o b)[k + 1] = Successor((a \o b)[k])
    <2>0. k \in 1..(m + n) /\ k + 1 \in 1..(m + n)
      BY <1>1
    <2>1. CASE k < m
      <3>1. k <= m /\ k + 1 <= m /\ k \in 1..(m - 1)
        BY <1>1, <2>1
      <3>2. a[k + 1] = Successor(a[k])
        BY <3>1 DEF Run
      <3> QED
        BY <1>2, <2>0, <3>1, <3>2
    <2>2. CASE k = m
      <3>1. ~(k + 1 <= m) /\ (k + 1) - m = 1
        BY <1>1, <2>2
      <3>2. (a \o b)[k + 1] = b[1] /\ (a \o b)[k] = a[m]
        BY <1>1, <1>2, <2>0, <2>2, <3>1
      <3> QED
        BY <3>2 DEF NextOf
    <2>3. CASE k > m
      <3>1. ~(k + 1 <= m) /\ ~(k <= m) /\ (k + 1) - m = (k - m) + 1 /\ k - m \in 1..(n - 1)
        BY <1>1, <2>3
      <3>2. b[(k - m) + 1] = Successor(b[k - m])
        BY <3>1 DEF Run
      <3> QED
        BY <1>2, <2>0, <3>1, <3>2
    <2> QED
      BY <1>1, <2>1, <2>2, <2>3
  <1>4. (a \o b)[1] = a[1] /\ (a \o b)[m + n] = b[n] /\ a \o b # << >>
    <2>1. 1 \in 1..(m + n) /\ 1 <= m /\ m + n \in 1..(m + n) /\ ~(m + n <= m) /\ (m + n) - m = n
      BY <1>1
    <2>2. Len(a \o b) # 0
      BY <1>1, <1>2
    <2> QED
      BY <1>2, <2>1, <2>2, EmptySeq
  <1> QED
    BY <1>2, <1>3, <1>4 DEF Run, NextOf

(* Runs that follow one another make one run. *)
LEMMA FlattenRuns ==
    ASSUME NEW seqs \in Seq(Seq(SduByte)), seqs # << >>,
           \A i \in 1..Len(seqs) : Run(seqs[i]),
           \A i \in 1..(Len(seqs) - 1) : seqs[i + 1][1] = NextOf(seqs[i])
    PROVE  LET all == FlattenSeq(seqs)
           IN Run(all) /\ all[1] = seqs[1][1] /\ NextOf(all) = NextOf(seqs[Len(seqs)])
  <1> PICK n : n = Len(seqs)
    OBVIOUS
  <1>0. n \in Nat \ {0}
    BY EmptySeq, LenProperties
  <1>1. PICK f \in [1..n -> Seq(SduByte)] :
              /\ f[1] = seqs[1]
              /\ \A i \in 1..(n - 1) : f[i + 1] = f[i] \o seqs[i + 1]
              /\ FlattenSeq(seqs) = f[n]
    BY FlattenSteps
  <1> DEFINE Ok(i) == Run(f[i]) /\ f[i][1] = seqs[1][1] /\ NextOf(f[i]) = NextOf(seqs[i])
             T == {i \in 1..n : Ok(i)}
  <1>2. 1 \in T
    BY <1>0, <1>1
  <1>3. ASSUME NEW i \in 1..(n - 1), i \in T PROVE i + 1 \in T
    <2>1. i + 1 \in 1..n /\ Run(seqs[i + 1]) /\ seqs[i + 1][1] = NextOf(f[i]) /\ Run(f[i])
      <3>1. i + 1 \in 1..n /\ i \in 1..n /\ Ok(i)
        BY <1>0, <1>3
      <3> QED
        BY <3>1
    <2>2. Run(f[i] \o seqs[i + 1]) /\ (f[i] \o seqs[i + 1])[1] = f[i][1]
          /\ NextOf(f[i] \o seqs[i + 1]) = NextOf(seqs[i + 1])
      BY <2>1, RunsJoin
    <2>3. f[i + 1] = f[i] \o seqs[i + 1]
      BY <1>1
    <2> QED
      BY <1>3, <2>1, <2>2, <2>3
  <1> HIDE DEF Ok, T
  <1>4. \A i \in 1..n : i \in T
    BY <1>0, <1>2, <1>3, UpTo
  <1>5. Ok(n)
    BY <1>0, <1>4 DEF T
  <1> QED
    BY <1>1, <1>5 DEF Ok

(* The first bytes of a run. *)
LEMMA RunPrefix ==
    ASSUME NEW d, Run(d), NEW n \in 1..Len(d)
    PROVE  LET p == SubSeq(d, 1, n)
           IN Run(p) /\ Len(p) = n /\ p[1] = d[1] /\ p[n] = d[n] /\ NextOf(p) = Successor(d[n])
  <1>1. Len(d) \in Nat \ {0} /\ d \in Seq(SduByte)
    BY RunTypes
  <1> PICK p : p = SubSeq(d, 1, n)
    OBVIOUS
  <1>2. p \in Seq(SduByte) /\ Len(p) = n /\ \A i \in 1..n : p[i] = d[i]
    <2>1. \A i \in 1..n : d[i] \in SduByte
      BY <1>1, ElementOfSeq
    <2> QED
      BY <1>1, <2>1
  <1>3. \A k \in 1..(n - 1) : p[k + 1] = Successor(p[k])
    <2> TAKE k \in 1..(n - 1)
    <2>1. k \in 1..(Len(d) - 1) /\ k \in 1..n /\ k + 1 \in 1..n
      BY <1>1
    <2> QED
      BY <1>2, <2>1 DEF Run
  <1>4. p # << >>
    BY <1>2, EmptySeq
  <1>5. 1 \in 1..n /\ n \in 1..n
    OBVIOUS
  <1> QED
    BY <1>2, <1>3, <1>4, <1>5 DEF Run, NextOf

-----------------------------------------------------------------------------
(* The order of the stream *)

\* The order of the stream.
Precedes(b, c) == b[1] < c[1] \/ (b[1] = c[1] /\ b[2] < c[2])

(* Nothing lies between a byte and the one after it. *)
LEMMA SuccessorIsNext ==
    ASSUME NEW b, NEW c, b[1] \in Nat, b[2] \in 1..SduLen, c[1] \in Nat, c[2] \in 1..SduLen
    PROVE  Precedes(b, Successor(c)) <=> Precedes(b, c) \/ (b[1] = c[1] /\ b[2] = c[2])
  BY SduAssumption DEF Precedes, Successor

(* The byte after another is not before it. *)
LEMMA SuccessorIsAfter ==
    ASSUME NEW c, c[1] \in Nat, c[2] \in 1..SduLen
    PROVE  /\ ~Precedes(Successor(c), c) /\ Successor(c)[1] \in Nat /\ Successor(c)[2] \in 1..SduLen
           /\ c[1] <= Successor(c)[1]
  BY SduAssumption DEF Precedes, Successor

(* The order of the bytes is one. *)
LEMMA PrecedesOrder ==
    ASSUME NEW b, NEW c, NEW d, b[1] \in Nat, b[2] \in Nat, c[1] \in Nat, c[2] \in Nat,
           d[1] \in Nat, d[2] \in Nat
    PROVE  /\ ~Precedes(b, c) /\ ~Precedes(c, d) => ~Precedes(b, d)
           /\ ~Precedes(b, c) => c[1] <= b[1]
           /\ ~Precedes(b, b)
  BY DEF Precedes

(* A run holds every byte from its first to the one after it. *)
LEMMA RunCovers ==
    ASSUME NEW d, Run(d)
    PROVE  /\ \A b \in SduByte : ~Precedes(b, d[1]) /\ Precedes(b, NextOf(d)) => b \in BytesIn(d)
           /\ \A k \in 1..Len(d) : ~Precedes(d[k], d[1]) /\ ~Precedes(d[Len(d)], d[k])
           /\ ~Precedes(NextOf(d), d[1])
  <1> PICK n : n = Len(d)
    OBVIOUS
  <1>0. /\ n \in Nat \ {0} /\ \A k \in 1..n : d[k] \in SduByte
        /\ \A k \in 1..n : d[k][1] \in Nat /\ d[k][2] \in 1..SduLen /\ d[k][2] \in Nat
    <2>1. n \in Nat \ {0} /\ \A k \in 1..n : d[k] \in SduByte /\ d[k][1] \in 1..MaxSdus /\ d[k][2] \in 1..SduLen
      BY RunTypes
    <2> QED
      BY <2>1, SduAssumption
  <1>1. \A k \in 1..(n - 1) : d[k + 1] = Successor(d[k])
    BY DEF Run
  <1>2. \A b \in SduByte : b[1] \in Nat /\ b[2] \in 1..SduLen /\ b = <<b[1], b[2]>>
    BY DEF SduByte
  <1>3. \A b \in SduByte : ~Precedes(b, d[1]) =>
           \A k \in 1..n : Precedes(b, Successor(d[k])) => b \in BytesIn(d)
    <2> SUFFICES ASSUME NEW b \in SduByte, ~Precedes(b, d[1])
                 PROVE  \A k \in 1..n : Precedes(b, Successor(d[k])) => b \in BytesIn(d)
      OBVIOUS
    <2> DEFINE T == {k \in 1..n : Precedes(b, Successor(d[k])) => b \in BytesIn(d)}
    <2>1. ASSUME NEW k \in 1..n, Precedes(b, Successor(d[k])), ~Precedes(b, d[k])
          PROVE  b \in BytesIn(d)
      <3>1. b[1] = d[k][1] /\ b[2] = d[k][2]
        BY <1>0, <1>2, <2>1, SuccessorIsNext
      <3>2. b = d[k]
        BY <1>0, <1>2, <3>1
      <3> QED
        BY <3>2 DEF BytesIn
    <2>2. 1 \in T
      BY <1>0, <2>1
    <2>3. ASSUME NEW k \in 1..(n - 1), k \in T PROVE k + 1 \in T
      <3>1. k + 1 \in 1..n /\ d[k + 1] = Successor(d[k])
        BY <1>0, <1>1
      <3> QED
        BY <2>1, <2>3, <3>1
    <2> HIDE DEF T
    <2>4. \A k \in 1..n : k \in T
      BY <1>0, <2>2, <2>3, UpTo
    <2> QED
      BY <2>4 DEF T
  <1>4. \A k \in 1..n : ~Precedes(d[k], d[1])
    <2> DEFINE T == {k \in 1..n : ~Precedes(d[k], d[1])}
    <2>1. 1 \in T
      BY <1>0, PrecedesOrder
    <2>2. ASSUME NEW k \in 1..(n - 1), k \in T PROVE k + 1 \in T
      <3>1. k + 1 \in 1..n /\ k \in 1..n /\ d[k + 1] = Successor(d[k]) /\ 1 \in 1..n
        BY <1>0, <1>1
      <3>2. ~Precedes(d[k + 1], d[k])
        BY <1>0, <3>1, SuccessorIsAfter
      <3>3. ~Precedes(d[k + 1], d[1])
        BY <1>0, <2>2, <3>1, <3>2, PrecedesOrder
      <3> QED
        BY <3>1, <3>3
    <2> HIDE DEF T
    <2>3. \A k \in 1..n : k \in T
      BY <1>0, <2>1, <2>2, UpTo
    <2> QED
      BY <2>3 DEF T
  <1>5. \A k \in 1..n : ~Precedes(d[n], d[k])
    <2> DEFINE T == {i \in 1..n : ~Precedes(d[n], d[n + 1 - i])}
    <2>1. 1 \in T
      BY <1>0, PrecedesOrder
    <2>2. ASSUME NEW i \in 1..(n - 1), i \in T PROVE i + 1 \in T
      <3> PICK k : k = n + 1 - (i + 1)
        OBVIOUS
      <3>1. k \in 1..(n - 1) /\ k + 1 = n + 1 - i /\ k \in 1..n /\ k + 1 \in 1..n /\ n \in 1..n
            /\ i + 1 \in 1..n
        BY <1>0
      <3>2. ~Precedes(d[k + 1], d[k])
        <4>1. d[k + 1] = Successor(d[k]) /\ d[k][1] \in Nat /\ d[k][2] \in 1..SduLen
          BY <1>0, <1>1, <3>1
        <4> QED
          BY <4>1, SuccessorIsAfter
      <3>3. ~Precedes(d[n], d[k + 1])
        BY <2>2, <3>1
      <3>4. ~Precedes(d[n], d[k])
        BY <1>0, <3>1, <3>2, <3>3, PrecedesOrder
      <3> QED
        BY <3>1, <3>4
    <2> HIDE DEF T
    <2>3. \A i \in 1..n : i \in T
      BY <1>0, <2>1, <2>2, UpTo
    <2>4. \A k \in 1..n : n + 1 - k \in 1..n /\ n + 1 - (n + 1 - k) = k
      BY <1>0
    <2> QED
      BY <2>3, <2>4 DEF T
  <1>6. ~Precedes(NextOf(d), d[1])
    <2>1. n \in 1..n /\ 1 \in 1..n
      BY <1>0
    <2>2. ~Precedes(Successor(d[n]), d[n]) /\ Successor(d[n])[1] \in Nat /\ Successor(d[n])[2] \in 1..SduLen
      BY <1>0, <2>1, SuccessorIsAfter
    <2>3. Successor(d[n])[2] \in Nat
      BY <2>2, SduAssumption
    <2>4. ~Precedes(d[n], d[1])
      BY <1>4, <2>1
    <2>5. ~Precedes(Successor(d[n]), d[1])
      BY <1>0, <2>1, <2>2, <2>3, <2>4, PrecedesOrder
    <2> QED
      BY <2>5 DEF NextOf
  <1> QED
    BY <1>0, <1>3, <1>4, <1>5, <1>6 DEF NextOf

-----------------------------------------------------------------------------
(* What a sender has of the stream *)

(* An SDU is a run. *)
LEMMA SduIsRun ==
    ASSUME NEW id \in 1..MaxSdus
    PROVE  /\ Run(SduBytes(id)) /\ SduBytes(id)[1] = <<id, 1>>
           /\ NextOf(SduBytes(id)) = <<id + 1, 1>>
  <1>1. /\ SduBytes(id) \in Seq(SduByte) /\ Len(SduBytes(id)) = SduLen
        /\ \A k \in 1..SduLen : SduBytes(id)[k] = <<id, k>>
    BY SduBytesType
  <1>2. SduBytes(id) # << >> /\ 1 \in 1..SduLen /\ SduLen \in 1..SduLen
    BY <1>1, SduAssumption, EmptySeq
  <1>3. \A k \in 1..(SduLen - 1) : SduBytes(id)[k + 1] = Successor(SduBytes(id)[k])
    <2> TAKE k \in 1..(SduLen - 1)
    <2>1. k \in 1..SduLen /\ k + 1 \in 1..SduLen /\ k # SduLen
      BY SduAssumption
    <2>2. SduBytes(id)[k] = <<id, k>> /\ SduBytes(id)[k + 1] = <<id, k + 1>>
      BY <1>1, <2>1
    <2> QED
      BY <2>1, <2>2 DEF Successor
  <1>4. NextOf(SduBytes(id)) = <<id + 1, 1>>
    BY <1>1, <1>2 DEF NextOf, Successor
  <1> QED
    BY <1>1, <1>2, <1>3, <1>4 DEF Run

(* What is left of an SDU that was cut. *)
LEMMA RestOfSdu ==
    ASSUME NEW id \in 1..MaxSdus, NEW k \in 1..SduLen
    PROVE  LET rest == SubSeq(SduBytes(id), k + 1, SduLen)
           IN IF k = SduLen THEN rest = << >>
              ELSE /\ Run(rest) /\ rest[1] = <<id, k + 1>> /\ rest[1][1] = id
                   /\ NextOf(rest) = <<id + 1, 1>>
  <1>1. /\ SduBytes(id) \in Seq(SduByte) /\ Len(SduBytes(id)) = SduLen
        /\ \A j \in 1..SduLen : SduBytes(id)[j] = <<id, j>> /\ SduBytes(id)[j] \in SduByte
    BY SduBytesType, ElementOfSeq
  <1>2. SduLen \in Nat \ {0}
    BY SduAssumption
  <1>3. SubSeq(SduBytes(id), SduLen + 1, SduLen) = << >>
    BY <1>1, <1>2
  <1> PICK rest : rest = SubSeq(SduBytes(id), k + 1, SduLen)
    OBVIOUS
  <1> PICK h : h = SduLen - k
    OBVIOUS
  <1>4. h \in Nat /\ k + h = SduLen
    BY <1>2
  <1>5. /\ rest \in Seq(SduByte) /\ Len(rest) = h
        /\ \A j \in 1..h : rest[j] = SduBytes(id)[k + j]
    BY <1>1, <1>2, <1>4
  <1>6. \A j \in 1..h : rest[j] = <<id, k + j>>
    <2> TAKE j \in 1..h
    <2>1. k + j \in 1..SduLen
      BY <1>2, <1>4
    <2> QED
      BY <1>1, <1>5, <2>1
  <1>7. ASSUME k # SduLen
        PROVE  /\ Run(rest) /\ rest[1] = <<id, k + 1>> /\ rest[1][1] = id
               /\ NextOf(rest) = <<id + 1, 1>>
    <2>0. h # 0 /\ 1 \in 1..h /\ h \in 1..h
      BY <1>2, <1>4, <1>7
    <2>1. \A j \in 1..(h - 1) : rest[j + 1] = Successor(rest[j])
      <3> TAKE j \in 1..(h - 1)
      <3>1. j \in 1..h /\ j + 1 \in 1..h /\ k + j # SduLen /\ k + (j + 1) = (k + j) + 1
        BY <1>2, <1>4
      <3>2. rest[j] = <<id, k + j>> /\ rest[j + 1] = <<id, (k + j) + 1>>
        BY <1>6, <3>1
      <3>3. \A b : b = <<id, k + j>> => Successor(b) = <<id, (k + j) + 1>>
        BY <3>1 DEF Successor
      <3> QED
        BY <3>2, <3>3
    <2>2. rest[h] = <<id, SduLen>>
      BY <1>4, <1>6, <2>0
    <2>3. NextOf(rest) = <<id + 1, 1>>
      <3>1. \A b : b = <<id, SduLen>> => Successor(b) = <<id + 1, 1>>
        BY DEF Successor
      <3>2. rest[Len(rest)] = <<id, SduLen>>
        BY <1>5, <2>2
      <3> QED
        BY <3>1, <3>2 DEF NextOf
    <2>4. rest # << >>
      BY <1>5, <2>0, EmptySeq
    <2>5. rest[1] = <<id, k + 1>>
      BY <1>6, <2>0
    <2>6. \A b : b = <<id, k + 1>> => b[1] = id
      OBVIOUS
    <2>7. rest[1][1] = id
      BY <2>5, <2>6
    <2> QED
      BY <1>5, <2>1, <2>3, <2>4, <2>5, <2>7 DEF Run
  <1> QED
    BY <1>3, <1>7

(* What is left of a queue is a queue, and what is left of an SDU are bytes of it. *)
LEMMA LeftOfType ==
    ASSUME NEW queue \in Seq(1..MaxSdus), NEW id
    PROVE  LeftOf(queue, id) \in Seq(1..MaxSdus)
  <1>b. PICK l : l = Len(queue)
    OBVIOUS
  <1>1. l \in Nat
    BY <1>b, LenProperties
  <1> DEFINE from == Cardinality({i \in 1..Len(queue) : queue[i] <= id}) + 1
  <1>2. LeftOf(queue, id) = SubSeq(queue, from, l)
    BY <1>b DEF LeftOf
  <1>3. from \in Nat \ {0}
    <2>1. IsFiniteSet(1..l)
      BY <1>1, FS_Interval
    <2>2. {i \in 1..l : queue[i] <= id} \subseteq 1..l
      OBVIOUS
    <2>3. IsFiniteSet({i \in 1..Len(queue) : queue[i] <= id})
      BY <1>b, <2>1, <2>2, FS_Subset
    <2> QED
      BY <2>3, FS_CardinalityType
  <1> HIDE DEF from
  <1>4. \A i \in from..l : i \in 1..Len(queue)
    BY <1>1, <1>b, <1>3
  <1>5. \A i \in from..l : queue[i] \in 1..MaxSdus
    BY <1>4, ElementOfSeq
  <1> QED
    BY <1>1, <1>2, <1>3, <1>5

LEMMA RestType ==
    ASSUME NEW id \in 1..MaxSdus, NEW k \in 1..SduLen
    PROVE  Rest(id, k) \in Seq(SduByte) /\ (k = SduLen => Rest(id, k) = << >>)
  BY RestOfSdu, EmptySeq DEF Rest, Run

(* sdu is what is left of the t-th SDU, and queue the SDUs after it. *)
IsStream(sdu, queue, t) ==
    /\ t \in Nat /\ sdu \in Seq(SduByte) /\ queue \in Seq(1..MaxSdus)
    /\ \A i \in 1..Len(queue) : queue[i] = t + i
    /\ sdu # << >> => /\ Run(sdu) /\ sdu[1][1] = t
                      /\ NextOf(sdu) = <<t + 1, 1>>

\* The first byte not yet sent.
NextByte(sdu, t) == IF sdu # << >> THEN sdu[1] ELSE <<t + 1, 1>>

(* What is left of the queue once the SDUs up to id are taken. *)
LEMMA QueueAfter ==
    ASSUME NEW sdu, NEW q, NEW t, IsStream(sdu, q, t),
           NEW id \in Nat, t <= id, id <= t + Len(q)
    PROVE  /\ Len(LeftOf(q, id)) = (t + Len(q)) - id
           /\ \A i \in 1..((t + Len(q)) - id) : LeftOf(q, id)[i] = id + i
  <1>0. /\ q \in Seq(1..MaxSdus) /\ t \in Nat
        /\ \A i \in 1..Len(q) : q[i] = t + i
    BY DEF IsStream
  <1>a. PICK l, m : l = Len(q) /\ m = id - t
    OBVIOUS
  <1>1. l \in Nat /\ m \in 0..l /\ t + m = id /\ (t + l) - id = l - m
    BY <1>0, <1>a, LenProperties
  <1>2. {i \in 1..l : q[i] <= id} = 1..m
    <2>1. \A i \in 1..l : q[i] <= id <=> i <= m
      BY <1>0, <1>1, <1>a
    <2> QED
      BY <1>1, <2>1
  <1>3. Cardinality(1..m) = m
    <2>1. 1 \in Int /\ m \in Int /\ 1 <= m + 1 /\ m - 1 + 1 = m
      BY <1>1
    <2>2. Cardinality(1..m) = IF 1 > m THEN 0 ELSE m - 1 + 1
      BY <2>1, FS_Interval
    <2> QED
      BY <1>1, <2>2
  <1>4. Cardinality({i \in 1..l : q[i] <= id}) = m
    BY <1>2, <1>3
  <1>b. PICK left : left = SubSeq(q, m + 1, l)
    OBVIOUS
  <1>5. Len(left) = l - m /\ \A i \in 1..(l - m) : left[i] = q[m + i]
    BY <1>0, <1>1, <1>a, <1>b
  <1>6. \A i \in 1..(l - m) : left[i] = id + i
    <2> TAKE i \in 1..(l - m)
    <2>1. m + i \in 1..l /\ t + (m + i) = id + i
      BY <1>0, <1>1
    <2>2. q[m + i] = t + (m + i)
      BY <1>0, <1>a, <2>1
    <2> QED
      BY <1>5, <2>1, <2>2
  <1>7. (t + Len(q)) - id = l - m
    BY <1>1, <1>a
  <1>8. left = LeftOf(q, id)
    BY <1>4, <1>a, <1>b DEF LeftOf
  <1> QED
    BY <1>5, <1>6, <1>7, <1>8, Zenon

(* The bytes of a queue. *)
LEMMA QueueType ==
    ASSUME NEW queue \in Seq(1..MaxSdus)
    PROVE  LET sdus == [i \in 1..Len(queue) |-> SduBytes(queue[i])]
           IN /\ sdus \in Seq(Seq(SduByte)) /\ Len(sdus) = Len(queue)
              /\ FlattenSeq(sdus) \in Seq(SduByte)
              /\ Len(queue) = 0 => FlattenSeq(sdus) = << >>
  <1> DEFINE sdus == [i \in 1..Len(queue) |-> SduBytes(queue[i])]
  <1>1. /\ Len(queue) \in Nat
        /\ \A i \in 1..Len(queue) : queue[i] \in 1..MaxSdus
    BY LenProperties, ElementOfSeq
  <1>2. \A i \in 1..Len(queue) : SduBytes(queue[i]) \in Seq(SduByte)
    BY <1>1, SduBytesType
  <1>3. sdus \in Seq(Seq(SduByte)) /\ Len(sdus) = Len(queue)
    BY <1>1, <1>2
  <1> HIDE DEF sdus
  <1>4. sdus = << >> => FlattenSeq(sdus) = << >>
    BY DEF FlattenSeq
  <1>5. FlattenSeq(sdus) \in Seq(SduByte)
    <2>1. CASE sdus = << >>
      BY <1>4, <2>1, EmptySeq
    <2>2. CASE sdus # << >>
      <3>1. PICK f \in [1..Len(sdus) -> Seq(SduByte)] : FlattenSeq(sdus) = f[Len(sdus)]
        BY <1>3, <2>2, FlattenSteps
      <3>2. Len(sdus) \in 1..Len(sdus)
        BY <1>3, <2>2, EmptySeq
      <3> QED
        BY <3>1, <3>2
    <2> QED
      BY <2>1, <2>2
  <1>6. Len(queue) = 0 => sdus = << >>
    BY <1>3, EmptySeq
  <1> QED
    BY <1>3, <1>4, <1>5, <1>6 DEF sdus

(* The bytes that wait. *)
LEMMA PendingType ==
    ASSUME NEW sdu \in Seq(SduByte), NEW queue \in Seq(1..MaxSdus)
    PROVE  Pending(sdu, queue) \in Seq(SduByte)
  BY QueueType, ConcatProperties DEF Pending

(* What waits to be sent is a run up to the last byte accepted. *)
LEMMA PendingIsRun ==
    ASSUME NEW sdu, NEW queue, NEW t, IsStream(sdu, queue, t), Pending(sdu, queue) # << >>
    PROVE  /\ Run(Pending(sdu, queue)) /\ Pending(sdu, queue)[1] = NextByte(sdu, t)
           /\ NextOf(Pending(sdu, queue)) = <<t + Len(queue) + 1, 1>>
  <1> PICK l : l = Len(queue)
    OBVIOUS
  <1> DEFINE sdus == [i \in 1..l |-> SduBytes(queue[i])]
             all == FlattenSeq(sdus)
             wait == Pending(sdu, queue)
  <1>0. /\ l \in Nat /\ t \in Nat /\ queue \in Seq(1..MaxSdus) /\ sdu \in Seq(SduByte)
        /\ \A i \in 1..l : queue[i] = t + i /\ queue[i] \in 1..MaxSdus
    <2>1. queue \in Seq(1..MaxSdus) /\ t \in Nat /\ sdu \in Seq(SduByte)
      BY DEF IsStream
    <2>2. l \in Nat /\ \A i \in 1..l : queue[i] \in 1..MaxSdus
      BY <2>1, LenProperties, ElementOfSeq
    <2>3. \A i \in 1..l : queue[i] = t + i
      BY DEF IsStream
    <2> QED
      BY <2>1, <2>2, <2>3
  <1>1. /\ sdus \in Seq(Seq(SduByte)) /\ Len(sdus) = l
        /\ \A i \in 1..l : /\ Run(sdus[i]) /\ sdus[i][1] = <<t + i, 1>>
                           /\ NextOf(sdus[i]) = <<t + i + 1, 1>>
    <2>1. \A i \in 1..l : /\ Run(SduBytes(queue[i]))
                          /\ SduBytes(queue[i])[1] = <<t + i, 1>>
                          /\ NextOf(SduBytes(queue[i])) = <<t + i + 1, 1>>
      BY <1>0, SduIsRun
    <2>2. sdus \in Seq(Seq(SduByte)) /\ Len(sdus) = l
      BY <1>0, QueueType
    <2>3. \A i \in 1..l : sdus[i] = SduBytes(queue[i])
      OBVIOUS
    <2> HIDE DEF sdus
    <2> QED
      BY <2>1, <2>2, <2>3
  <1>2. wait = sdu \o all /\ (l = 0 => all = << >>)
    BY <1>0, QueueType DEF Pending
  <1> HIDE DEF sdus
  <1>3. l # 0 => Run(all) /\ all[1] = <<t + 1, 1>> /\ NextOf(all) = <<t + l + 1, 1>>
    <2> SUFFICES ASSUME l # 0
                 PROVE  Run(all) /\ all[1] = <<t + 1, 1>> /\ NextOf(all) = <<t + l + 1, 1>>
      OBVIOUS
    <2>1. sdus # << >> /\ 1 \in 1..l /\ l \in 1..l
      BY <1>0, <1>1, EmptySeq
    <2>2. \A i \in 1..(Len(sdus) - 1) : sdus[i + 1][1] = NextOf(sdus[i])
      <3> TAKE i \in 1..(Len(sdus) - 1)
      <3>1. i \in 1..l /\ i + 1 \in 1..l /\ t + (i + 1) = t + i + 1
        BY <1>0, <1>1
      <3> QED
        BY <1>1, <3>1
    <2>3. Run(all) /\ all[1] = sdus[1][1] /\ NextOf(all) = NextOf(sdus[l])
      BY <1>1, <2>1, <2>2, FlattenRuns
    <2> QED
      BY <1>1, <2>1, <2>3
  <1> HIDE DEF all, wait
  <1>4. CASE sdu = << >>
    <2>1. wait = all
      <3>1. l # 0 => all \in Seq(SduByte)
        BY <1>3 DEF Run
      <3>2. all \in Seq(SduByte)
        BY <1>2, <3>1, EmptySeq
      <3> QED
        BY <1>2, <1>4, <3>2, ConcatEmptySeq
    <2>2. l # 0
      BY <1>2, <2>1 DEF wait
    <2> QED
      BY <1>3, <1>4, <2>1, <2>2 DEF NextByte, wait
  <1>5. CASE sdu # << >>
    <2>1. Run(sdu) /\ NextOf(sdu) = <<t + 1, 1>>
      BY <1>5 DEF IsStream
    <2>2. CASE l = 0
      <3>1. wait = sdu
        BY <1>0, <1>2, <2>2, ConcatEmptySeq
      <3>2. t + l + 1 = t + 1
        BY <1>0, <2>2
      <3> QED
        BY <1>5, <2>1, <3>1, <3>2 DEF NextByte, wait
    <2>3. CASE l # 0
      <3>1. Run(sdu \o all) /\ (sdu \o all)[1] = sdu[1] /\ NextOf(sdu \o all) = NextOf(all)
        BY <1>3, <2>1, <2>3, RunsJoin
      <3>2. wait = sdu \o all /\ NextByte(sdu, t) = sdu[1]
        BY <1>2, <1>5 DEF NextByte
      <3>3. Run(wait) /\ wait[1] = NextByte(sdu, t) /\ NextOf(wait) = <<t + l + 1, 1>>
        BY <1>3, <2>3, <3>1, <3>2
      <3> QED
        BY <3>3 DEF wait
    <2> QED
      BY <2>2, <2>3
  <1> QED
    BY <1>4, <1>5

(* build_data_pdu takes a run off the bytes that wait. *)
LEMMA PendingTaken ==
    ASSUME NEW sdu, NEW queue, NEW t, IsStream(sdu, queue, t),
           NEW n \in 1..Len(Pending(sdu, queue))
    PROVE  LET wait == Pending(sdu, queue)
           IN /\ Run(SubSeq(wait, 1, n)) /\ SubSeq(wait, 1, n)[1] = NextByte(sdu, t)
              /\ Len(SubSeq(wait, 1, n)) = n /\ SubSeq(wait, 1, n)[n] = wait[n]
              /\ NextOf(SubSeq(wait, 1, n)) = Successor(wait[n])
              /\ wait[n][1] \in 1..MaxSdus /\ wait[n][2] \in 1..SduLen
              /\ t <= wait[n][1] /\ wait[n][1] <= t + Len(queue)
  <1> PICK wait : wait = Pending(sdu, queue)
    OBVIOUS
  <1> PICK l, top : l = Len(queue) /\ top = t + l
    OBVIOUS
  <1>0. l \in Nat /\ t \in Nat /\ top \in Nat /\ wait \in Seq(SduByte)
    BY LenProperties, PendingType DEF IsStream
  <1>1. Run(wait) /\ wait[1] = NextByte(sdu, t) /\ NextOf(wait) = <<top + 1, 1>>
    <2>1. wait # << >>
      BY <1>0, EmptySeq
    <2> QED
      BY <2>1, PendingIsRun
  <1> PICK m : m = Len(wait)
    OBVIOUS
  <1>2. /\ m \in Nat \ {0} /\ m \in 1..m /\ 1 \in 1..m /\ n \in 1..m
        /\ \A i \in 1..m : wait[i][1] \in 1..MaxSdus /\ wait[i][2] \in 1..SduLen
    BY <1>1, RunTypes
  <1>3. \A i \in 1..m : wait[i][1] \in Nat /\ wait[i][2] \in Nat
    BY <1>2, SduAssumption
  <1>4. ~Precedes(wait[n], wait[1]) /\ ~Precedes(wait[m], wait[n])
    BY <1>1, <1>2, RunCovers
  <1>5. wait[1][1] <= wait[n][1] /\ wait[n][1] <= wait[m][1]
    BY <1>2, <1>3, <1>4, PrecedesOrder
  <1>6. t <= wait[1][1]
    <2>1. wait[1] = IF sdu # << >> THEN sdu[1] ELSE <<t + 1, 1>>
      BY <1>1 DEF NextByte
    <2>2. sdu # << >> => sdu[1][1] = t
      BY DEF IsStream
    <2> QED
      BY <1>0, <2>1, <2>2
  <1>7. wait[m][1] = top
    <2> PICK b : b = wait[m]
      OBVIOUS
    <2>1. Successor(b) = <<top + 1, 1>>
      BY <1>1 DEF NextOf
    <2>2. b[1] \in Nat /\ b[2] \in 1..SduLen
      BY <1>2, <1>3
    <2>3. b[2] = SduLen
      BY <2>1, <2>2, SduAssumption DEF Successor
    <2>4. b[1] + 1 = top + 1
      BY <2>1, <2>3 DEF Successor
    <2> QED
      BY <1>0, <2>2, <2>4
  <1>8. /\ Run(SubSeq(wait, 1, n)) /\ SubSeq(wait, 1, n)[1] = wait[1]
        /\ Len(SubSeq(wait, 1, n)) = n /\ SubSeq(wait, 1, n)[n] = wait[n]
        /\ NextOf(SubSeq(wait, 1, n)) = Successor(wait[n])
    BY <1>1, <1>2, RunPrefix
  <1>9. t <= wait[n][1] /\ wait[n][1] <= top
    BY <1>0, <1>2, <1>3, <1>5, <1>6, <1>7
  <1> QED
    BY <1>1, <1>2, <1>8, <1>9

(* What is left after that goes on where the PDU ends. *)
LEMMA StreamLeft ==
    ASSUME NEW sdu, NEW queue, NEW t, IsStream(sdu, queue, t),
           NEW id \in 1..MaxSdus, NEW k \in 1..SduLen, t <= id, id <= t + Len(queue)
    PROVE  /\ IsStream(Rest(id, k), LeftOf(queue, id), id)
           /\ id + Len(LeftOf(queue, id)) = t + Len(queue)
           /\ NextByte(Rest(id, k), id) = Successor(<<id, k>>)
  <1>0. /\ Len(LeftOf(queue, id)) = (t + Len(queue)) - id
        /\ \A i \in 1..((t + Len(queue)) - id) : LeftOf(queue, id)[i] = id + i
    <2>1. id \in Nat
      OBVIOUS
    <2> QED
      BY <2>1, QueueAfter
  <1>a. PICK left, rest : left = LeftOf(queue, id) /\ rest = Rest(id, k)
    OBVIOUS
  <1>b. PICK l : l = Len(queue)
    OBVIOUS
  <1>c. PICK top : top = t + l
    OBVIOUS
  <1>1. /\ queue \in Seq(1..MaxSdus) /\ t \in Nat /\ l \in Nat /\ id \in Nat /\ top \in Nat
        /\ \A i \in 1..Len(queue) : queue[i] = t + i
    BY <1>b, <1>c, LenProperties DEF IsStream
  <1>2. Len(left) = top - id /\ \A i \in 1..(top - id) : left[i] = id + i
    BY <1>0, <1>a, <1>b, <1>c
  <1>3. id + Len(left) = top
    BY <1>1, <1>2
  <1>4. left \in Seq(1..MaxSdus)
    BY <1>1, <1>a, LeftOfType
  <1>5. IF k = SduLen THEN rest = << >>
        ELSE /\ Run(rest) /\ rest[1] = <<id, k + 1>> /\ rest[1][1] = id
             /\ NextOf(rest) = <<id + 1, 1>>
    BY <1>a, RestOfSdu DEF Rest
  <1>6. IsStream(rest, left, id)
    <2>1. rest \in Seq(SduByte)
      BY <1>5, EmptySeq DEF Run
    <2>2. rest # << >> => Run(rest) /\ rest[1][1] = id /\ NextOf(rest) = <<id + 1, 1>>
      BY <1>5
    <2>3. \A i \in 1..Len(left) : left[i] = id + i
      BY <1>2
    <2> QED
      BY <1>1, <1>4, <2>1, <2>2, <2>3 DEF IsStream
  <1>7. NextByte(rest, id) = Successor(<<id, k>>)
    <2>1. k # SduLen => rest # << >>
      BY <1>5 DEF Run
    <2> QED
      BY <1>5, <2>1 DEF NextByte, Successor
  <1> QED
    BY <1>3, <1>6, <1>7, <1>a, <1>b, <1>c

(* One SDU more in the queue. *)
LEMMA StreamGrows ==
    ASSUME NEW sdu, NEW queue, NEW t, IsStream(sdu, queue, t),
           NEW id \in 1..MaxSdus, id = t + Len(queue) + 1
    PROVE  IsStream(sdu, Append(queue, id), t)
  <1>1. queue \in Seq(1..MaxSdus) /\ t \in Nat /\ Len(queue) \in Nat
    BY LenProperties DEF IsStream
  <1>2. /\ Append(queue, id) \in Seq(1..MaxSdus) /\ Len(Append(queue, id)) = Len(queue) + 1
        /\ \A i \in 1..Len(queue) : Append(queue, id)[i] = queue[i]
        /\ Append(queue, id)[Len(queue) + 1] = id
    BY <1>1, AppendProperties
  <1>3. \A i \in 1..(Len(queue) + 1) : Append(queue, id)[i] = t + i
    <2> TAKE i \in 1..(Len(queue) + 1)
    <2>1. CASE i \in 1..Len(queue)
      <3>1. queue[i] = t + i
        BY <2>1 DEF IsStream
      <3> QED
        BY <1>2, <2>1, <3>1
    <2>2. CASE i = Len(queue) + 1
      BY <1>1, <1>2, <2>2
    <2> QED
      BY <1>1, <2>1, <2>2
  <1> QED
    BY <1>2, <1>3 DEF IsStream

-----------------------------------------------------------------------------
(* What a PDU carries *)

\* Bytes j to k of SDU id.
Piece(id, j, k) == [i \in 1..(k - j + 1) |-> <<id, j + i - 1>>]

\* What is reassembled of the SDU of byte e before e comes.
Part(e) == Piece(e[1], 1, e[2] - 1)

\* The segment that is number i of those with the bytes from e to b.
PieceOf(e, b, i) ==
    Piece(e[1] + i - 1, IF i = 1 THEN e[2] ELSE 1,
          IF i = b[1] - e[1] + 1 THEN b[2] ELSE SduLen)

\* A PDU carries the bytes from e to b, as its header says.
CarriesTo(pdu, e, b) ==
    /\ e \in SduByte /\ b \in SduByte
    /\ e[1] <= b[1] /\ (e[1] = b[1] => e[2] <= b[2])
    /\ pdu.start_aligned = (e[2] = 1) /\ pdu.end_aligned = (b[2] = SduLen)
    /\ pdu.segments = [i \in 1..(b[1] - e[1] + 1) |-> PieceOf(e, b, i)]

\* A PDU carries the stream from e up to the byte before next.
Spans(pdu, e, next) == \E b : CarriesTo(pdu, e, b) /\ next = Successor(b)

(* A sequence given by its elements. *)
LEMMA IsSeqOf ==
    ASSUME NEW S, NEW n \in Nat, NEW f, DOMAIN f = 1..n, f = [i \in DOMAIN f |-> f[i]],
           \A i \in 1..n : f[i] \in S
    PROVE  f \in Seq(S) /\ Len(f) = n
  <1>1. f \in [1..n -> S]
    OBVIOUS
  <1> QED
    BY <1>1

(* A piece of an SDU. *)
LEMMA PieceType ==
    ASSUME NEW id \in 1..MaxSdus, NEW j \in 1..SduLen, NEW k \in 0..SduLen, j <= k + 1
    PROVE  /\ Piece(id, j, k) \in Seq(SduByte) /\ Len(Piece(id, j, k)) = k - j + 1
           /\ \A i \in 1..(k - j + 1) : Piece(id, j, k)[i] = <<id, j + i - 1>>
  <1>a. PICK f : f = Piece(id, j, k)
    OBVIOUS
  <1>b. PICK n : n = k - j + 1
    OBVIOUS
  <1>1. f = [i \in 1..n |-> <<id, j + i - 1>>]
    BY <1>a, <1>b DEF Piece
  <1>2. DOMAIN f = 1..n /\ f = [i \in DOMAIN f |-> f[i]] /\ \A i \in 1..n : f[i] = <<id, j + i - 1>>
    BY <1>1
  <1>3. \A i \in 1..n : <<id, j + i - 1>> \in SduByte
    <2> TAKE i \in 1..n
    <2>1. j + i - 1 \in 1..SduLen
      BY <1>b, SduAssumption
    <2> QED
      BY <2>1 DEF SduByte
  <1>4. n \in Nat
    BY <1>b, SduAssumption
  <1>5. f \in Seq(SduByte) /\ Len(f) = n
    <2>1. \A i \in 1..n : f[i] \in SduByte
      BY <1>2, <1>3
    <2> QED
      BY <1>2, <1>4, <2>1, IsSeqOf
  <1> QED
    BY <1>2, <1>5, <1>a, <1>b

(* A piece of an SDU and the one that follows it. *)
LEMMA PiecesJoin ==
    ASSUME NEW id \in 1..MaxSdus, NEW j \in 1..SduLen, NEW k \in j..SduLen
    PROVE  Piece(id, 1, j - 1) \o Piece(id, j, k) = Piece(id, 1, k)
  <1>1. SduLen \in Nat /\ 1 \in 1..SduLen /\ j - 1 \in 0..SduLen /\ k \in 0..SduLen
        /\ k - j + 1 \in Nat /\ j - 1 \in Nat /\ j - 1 = (j - 1) - 1 + 1 /\ 1 <= (j - 1) + 1
        /\ k \in Nat /\ k = k - 1 + 1
    BY SduAssumption
  <1>a. PICK m : m = j - 1
    OBVIOUS
  <1>b. PICK n : n = k - j + 1
    OBVIOUS
  <1>c. PICK a, b, c : a = Piece(id, 1, j - 1) /\ b = Piece(id, j, k) /\ c = Piece(id, 1, k)
    OBVIOUS
  <1>2. m \in Nat /\ n \in Nat /\ m + n = k
    BY <1>1, <1>a, <1>b
  <1>3. a \in Seq(SduByte) /\ Len(a) = m /\ \A i \in 1..m : a[i] = <<id, 1 + i - 1>>
    <2>1. /\ Piece(id, 1, j - 1) \in Seq(SduByte) /\ Len(Piece(id, 1, j - 1)) = (j - 1) - 1 + 1
          /\ \A i \in 1..((j - 1) - 1 + 1) : Piece(id, 1, j - 1)[i] = <<id, 1 + i - 1>>
      BY <1>1, PieceType
    <2>2. (j - 1) - 1 + 1 = m
      BY <1>a
    <2> QED
      BY <2>1, <2>2, <1>c
  <1>4. b \in Seq(SduByte) /\ Len(b) = n /\ \A i \in 1..n : b[i] = <<id, j + i - 1>>
    <2>1. id \in 1..MaxSdus /\ j \in 1..SduLen /\ k \in 0..SduLen /\ j <= k + 1
      BY <1>1
    <2>2. /\ Piece(id, j, k) \in Seq(SduByte) /\ Len(Piece(id, j, k)) = k - j + 1
          /\ \A i \in 1..(k - j + 1) : Piece(id, j, k)[i] = <<id, j + i - 1>>
      BY <2>1, PieceType
    <2> QED
      BY <2>2, <1>b, <1>c
  <1>5. c \in Seq(SduByte) /\ Len(c) = k /\ \A i \in 1..k : c[i] = <<id, 1 + i - 1>>
    <2>1. /\ Piece(id, 1, k) \in Seq(SduByte) /\ Len(Piece(id, 1, k)) = k - 1 + 1
          /\ \A i \in 1..(k - 1 + 1) : Piece(id, 1, k)[i] = <<id, 1 + i - 1>>
      BY <1>1, PieceType
    <2>2. k - 1 + 1 = k
      BY <1>1
    <2> QED
      BY <2>1, <2>2, <1>c
  <1>6. /\ a \o b \in Seq(SduByte) /\ Len(a \o b) = m + n
        /\ \A i \in 1..(m + n) : (a \o b)[i] = IF i <= m THEN a[i] ELSE b[i - m]
    BY <1>3, <1>4, ConcatProperties
  <1>7. \A i \in 1..k : (a \o b)[i] = c[i]
    <2> TAKE i \in 1..k
    <2>0. i \in 1..(m + n)
      BY <1>2
    <2>1. CASE i <= m
      <3>1. i \in 1..m
        BY <1>2, <2>1
      <3> QED
        BY <1>3, <1>5, <1>6, <2>0, <2>1, <3>1
    <2>2. CASE ~(i <= m)
      <3>1. i - m \in 1..n /\ j + (i - m) - 1 = 1 + i - 1
        BY <1>2, <1>a, <2>2
      <3>2. (a \o b)[i] = b[i - m] /\ b[i - m] = <<id, j + (i - m) - 1>>
        BY <1>4, <1>6, <2>0, <2>2, <3>1
      <3> QED
        BY <1>5, <3>1, <3>2
    <2> QED
      BY <2>1, <2>2
  <1>8. a \o b = c
    BY <1>2, <1>5, <1>6, <1>7, SeqEqual
  <1> QED
    BY <1>8, <1>c

(* An SDU is one piece. *)
LEMMA PieceIsSdu ==
    ASSUME NEW id \in 1..MaxSdus
    PROVE  /\ Piece(id, 1, SduLen) = SduBytes(id) /\ SduBytes(id) \in Seq(SduByte)
           /\ SduBytes(id)[1][1] = id /\ Piece(id, 1, 0) = << >>
  <1>1. SduLen \in Nat \ {0} /\ (SduLen - 1) + 1 = SduLen
    BY SduAssumption
  <1>2. SduBytes(id) \in Seq(SduByte) /\ \A k \in 1..SduLen : SduBytes(id)[k] = <<id, k>>
    BY SduBytesType
  <1>3. SduBytes(id)[1][1] = id
    BY <1>1, <1>2
  <1>4. Piece(id, 1, SduLen) = SduBytes(id)
    BY <1>1 DEF Piece, SduBytes
  <1>5. Piece(id, 1, 0) = << >>
    BY DEF Piece
  <1> QED
    BY <1>2, <1>3, <1>4, <1>5

(* What is reassembled before a byte. *)
LEMMA PartType ==
    ASSUME NEW e \in SduByte
    PROVE  /\ Part(e) \in Seq(SduByte) /\ (e[2] = 1 => Part(e) = << >>)
           /\ e[1] \in 1..MaxSdus /\ e[2] \in 1..SduLen
           /\ \A k \in e[2]..SduLen : Part(e) \o Piece(e[1], e[2], k) = Piece(e[1], 1, k)
  <1>1. e[1] \in 1..MaxSdus /\ e[2] \in 1..SduLen
    BY DEF SduByte
  <1>2. 1 \in 1..SduLen /\ e[2] - 1 \in 0..SduLen /\ 1 <= (e[2] - 1) + 1
    BY <1>1, SduAssumption
  <1>3. Part(e) \in Seq(SduByte)
    <2>1. e[2] - 1 \in Nat /\ e[2] - 1 = (e[2] - 1) - 1 + 1
      BY <1>1
    <2> QED
      BY <1>1, <1>2, <2>1, PieceType DEF Part
  <1>4. e[2] = 1 => Part(e) = << >>
    <2>1. e[2] = 1 => e[2] - 1 = 0
      OBVIOUS
    <2> QED
      BY <1>1, <2>1, PieceIsSdu DEF Part
  <1> QED
    BY <1>1, <1>3, <1>4, PiecesJoin DEF Part


-----------------------------------------------------------------------------
(* What a run of bytes is cut into *)

\* How many bytes of d are of SDUs up to id.
BytesUpTo(d, id) == Cardinality({k \in 1..Len(d) : d[k][1] <= id})

(* The bytes of a run are in the order of their SDUs. *)
LEMMA RunOrder ==
    ASSUME NEW d, Run(d), NEW n \in Nat, n = Len(d)
    PROVE  /\ n > 0 /\ d \in Seq(SduByte)
           /\ \A k \in 1..n : /\ d[k][1] \in 1..MaxSdus /\ d[k][2] \in 1..SduLen
                              /\ d[k][1] \in Nat /\ d[k][2] \in Nat /\ d[k] = <<d[k][1], d[k][2]>>
           /\ \A k \in 1..(n - 1) :
                 \/ d[k + 1][1] = d[k][1] /\ d[k + 1][2] = d[k][2] + 1
                 \/ d[k + 1][1] = d[k][1] + 1 /\ d[k + 1][2] = 1 /\ d[k][2] = SduLen
           /\ \A k \in 1..n : \A m \in k..n : d[k][1] <= d[m][1]
           /\ \A k \in 1..n : d[1][1] <= d[k][1] /\ d[k][1] <= d[n][1]
  <1>1. /\ n > 0 /\ d \in Seq(SduByte)
        /\ \A k \in 1..n : d[k] \in SduByte /\ d[k][1] \in 1..MaxSdus /\ d[k][2] \in 1..SduLen
    BY RunTypes
  <1>2. \A k \in 1..n : d[k][1] \in Nat /\ d[k][2] \in Nat /\ d[k] = <<d[k][1], d[k][2]>>
    BY <1>1, SduAssumption DEF SduByte
  <1>3. ASSUME NEW k \in 1..(n - 1)
        PROVE  \/ d[k + 1][1] = d[k][1] /\ d[k + 1][2] = d[k][2] + 1
               \/ d[k + 1][1] = d[k][1] + 1 /\ d[k + 1][2] = 1 /\ d[k][2] = SduLen
    <2>1. d[k + 1] = Successor(d[k])
      BY DEF Run
    <2>2. \A b : \/ b[2] = SduLen /\ Successor(b)[1] = b[1] + 1 /\ Successor(b)[2] = 1
                 \/ Successor(b)[1] = b[1] /\ Successor(b)[2] = b[2] + 1
      BY DEF Successor
    <2> QED
      BY <2>1, <2>2
  <1>a. PICK V : V = [k \in 1..n |-> d[k][1]]
    OBVIOUS
  <1>b. V \in [1..n -> Nat] /\ \A k \in 1..n : V[k] = d[k][1]
    BY <1>a, <1>2
  <1>4. \A k \in 1..(n - 1) : V[k] <= V[k + 1]
    <2> TAKE k \in 1..(n - 1)
    <2>1. k \in 1..n /\ k + 1 \in 1..n
      OBVIOUS
    <2>2. V[k] = d[k][1] /\ V[k + 1] = d[k + 1][1] /\ d[k][1] \in Nat
      BY <1>2, <1>b, <2>1
    <2> QED
      BY <1>3, <2>2
  <1>5. ASSUME NEW k \in 1..n, NEW m \in k..n PROVE d[k][1] <= d[m][1]
    <2>1. V[k] <= V[m]
      BY <1>b, <1>4, Ascending
    <2>2. m \in 1..n
      OBVIOUS
    <2> QED
      BY <1>b, <2>1, <2>2
  <1>6. \A k \in 1..n : d[1][1] <= d[k][1] /\ d[k][1] <= d[n][1]
    <2> TAKE k \in 1..n
    <2>1. 1 \in 1..n /\ k \in 1..n /\ n \in k..n
      BY <1>1
    <2> QED
      BY <1>5, <2>1
  <1> QED
    BY <1>1, <1>2, <1>3, <1>5, <1>6

(* They are the first ones. *)
LEMMA FirstBytes ==
    ASSUME NEW d, Run(d), NEW n \in Nat, n = Len(d), NEW id \in Nat
    PROVE  /\ BytesUpTo(d, id) \in 0..n
           /\ \A k \in 1..n : d[k][1] <= id <=> k <= BytesUpTo(d, id)
  <1>1. /\ \A k \in 1..n : d[k][1] \in Nat
        /\ \A k \in 1..n : \A m \in k..n : d[k][1] <= d[m][1]
    BY RunOrder
  <1>a. PICK s : s = {k \in 1..n : d[k][1] <= id}
    OBVIOUS
  <1>2. s \in SUBSET (1..n)
    BY <1>a
  <1>3. PICK q \in 0..n : s = 1..q
    <2>1. CASE s = {}
      BY <2>1
    <2>2. CASE s # {}
      <3>0. PICK g : g = Max(s)
        OBVIOUS
      <3>1. g \in s /\ \A i \in s : i <= g
        BY <1>2, <2>2, <3>0, GreatestOf
      <3>2. g \in 1..n /\ d[g][1] <= id
        BY <1>a, <3>1
      <3>3. \A k \in 1..n : k <= g => k \in s
        <4> SUFFICES ASSUME NEW k \in 1..n, k <= g PROVE k \in s
          OBVIOUS
        <4>1. g \in k..n
          BY <3>2
        <4>2. d[k][1] <= d[g][1] /\ d[k][1] \in Nat /\ d[g][1] \in Nat
          BY <1>1, <3>2, <4>1
        <4> QED
          BY <1>a, <3>2, <4>2
      <3>4. \A k : k \in s <=> k \in 1..g
        <4> TAKE k
        <4>1. k \in s => k \in 1..n /\ k <= g
          BY <1>a, <3>1
        <4>2. k \in 1..g => k \in 1..n /\ k <= g
          BY <3>2
        <4>3. k \in 1..n /\ k <= g => k \in 1..g
          BY <3>2
        <4> QED
          BY <3>3, <4>1, <4>2, <4>3
      <3>5. s = 1..g
        BY <3>4
      <3>6. g \in 0..n
        BY <3>2
      <3> QED
        BY <3>5, <3>6
    <2> QED
      BY <2>1, <2>2
  <1>4. Cardinality(1..q) = q
    <2>1. 1 \in Int /\ q \in Int /\ q - 1 + 1 = q
      OBVIOUS
    <2>2. Cardinality(1..q) = IF 1 > q THEN 0 ELSE q - 1 + 1
      BY <2>1, FS_Interval
    <2> QED
      BY <2>2
  <1>5. BytesUpTo(d, id) = q
    BY <1>3, <1>4, <1>a DEF BytesUpTo
  <1>6. \A k \in 1..n : d[k][1] <= id <=> k <= q
    BY <1>3, <1>a
  <1> QED
    BY <1>5, <1>6

(* Where the bytes of one SDU lie in a run, and what they are. *)
LEMMA BytesOfSdu ==
    ASSUME NEW d, Run(d), NEW n \in Nat, n = Len(d), NEW id \in d[1][1]..d[n][1],
           NEW p, p = BytesUpTo(d, id - 1), NEW q, q = BytesUpTo(d, id)
    PROVE  /\ p \in 0..n /\ q \in (p + 1)..n
           /\ \A k \in (p + 1)..q : d[k][1] = id
           /\ IF id = d[1][1] THEN p = 0 ELSE d[p + 1][2] = 1
           /\ IF id = d[n][1] THEN q = n ELSE d[q][2] = SduLen
  <1>1. /\ n > 0
        /\ \A k \in 1..n : d[k][1] \in Nat \ {0}
        /\ \A k \in 1..(n - 1) :
              \/ d[k + 1][1] = d[k][1]
              \/ d[k + 1][1] = d[k][1] + 1 /\ d[k + 1][2] = 1 /\ d[k][2] = SduLen
        /\ \A k \in 1..n : \A m \in k..n : d[k][1] <= d[m][1]
        /\ \A k \in 1..n : d[1][1] <= d[k][1] /\ d[k][1] <= d[n][1]
    <2>1. \A k \in 1..n : d[k][1] \in 1..MaxSdus
      BY RunOrder
    <2>2. /\ n > 0
          /\ \A k \in 1..(n - 1) :
                \/ d[k + 1][1] = d[k][1]
                \/ d[k + 1][1] = d[k][1] + 1 /\ d[k + 1][2] = 1 /\ d[k][2] = SduLen
          /\ \A k \in 1..n : \A m \in k..n : d[k][1] <= d[m][1]
          /\ \A k \in 1..n : d[1][1] <= d[k][1] /\ d[k][1] <= d[n][1]
      BY RunOrder
    <2> QED
      BY <2>1, <2>2
  <1>2. 1 \in 1..n /\ n \in 1..n /\ id \in Nat /\ id - 1 \in Nat
    BY <1>1
  <1>3. p \in 0..n /\ \A k \in 1..n : d[k][1] <= id - 1 <=> k <= p
    BY <1>2, FirstBytes
  <1>4. q \in 0..n /\ \A k \in 1..n : d[k][1] <= id <=> k <= q
    BY <1>2, FirstBytes
  <1>5. q >= 1
    BY <1>2, <1>4
  <1>6. q = n \/ (q + 1 \in 1..n /\ q \in 1..(n - 1) /\ d[q + 1][1] > id)
    BY <1>1, <1>2, <1>4, <1>5
  <1>7. d[q][1] = id
    <2>1. q \in 1..n /\ d[q][1] <= id /\ d[q][1] \in Nat
      BY <1>1, <1>4, <1>5
    <2>2. CASE q = n
      BY <1>2, <2>1, <2>2
    <2>3. CASE q # n
      <3>1. q \in 1..(n - 1) /\ d[q + 1][1] > id
        BY <1>6, <2>3
      <3>2. d[q + 1][1] = d[q][1] \/ d[q + 1][1] = d[q][1] + 1
        BY <1>1, <3>1
      <3> QED
        BY <1>2, <2>1, <3>1, <3>2
    <2> QED
      BY <2>2, <2>3
  <1>8. p < q
    <2>1. q \in 1..n /\ ~(d[q][1] <= id - 1)
      BY <1>2, <1>4, <1>5, <1>7
    <2> QED
      BY <1>3, <2>1
  <1>9. \A k \in (p + 1)..q : d[k][1] = id
    <2> TAKE k \in (p + 1)..q
    <2>1. k \in 1..n /\ k <= q /\ ~(k <= p)
      BY <1>3, <1>4
    <2>2. d[k][1] <= id /\ ~(d[k][1] <= id - 1) /\ d[k][1] \in Nat
      BY <1>1, <1>3, <1>4, <2>1
    <2> QED
      BY <1>2, <2>2
  <1>10. IF id = d[1][1] THEN p = 0 ELSE d[p + 1][2] = 1
    <2>1. CASE id = d[1][1]
      <3>1. ~(d[1][1] <= id - 1)
        BY <1>2, <2>1
      <3> QED
        BY <1>2, <1>3, <2>1, <3>1
    <2>2. CASE id # d[1][1]
      <3>1. d[1][1] <= id - 1
        BY <1>1, <1>2, <2>2
      <3>2. p >= 1 /\ p \in 1..(n - 1) /\ p \in 1..n /\ p + 1 \in (p + 1)..q
        BY <1>2, <1>3, <1>4, <1>8, <3>1
      <3>3. d[p + 1][1] = id /\ d[p][1] <= id - 1
        BY <1>3, <1>9, <3>2
      <3>4. d[p + 1][1] # d[p][1]
        BY <1>1, <1>2, <3>2, <3>3
      <3> QED
        BY <1>1, <2>2, <3>2, <3>4
    <2> QED
      BY <2>1, <2>2
  <1>11. IF id = d[n][1] THEN q = n ELSE d[q][2] = SduLen
    <2>1. CASE id = d[n][1]
      BY <1>2, <1>4, <2>1
    <2>2. CASE id # d[n][1]
      <3>1. q # n
        BY <1>7, <2>2
      <3>2. q \in 1..(n - 1) /\ d[q + 1][1] > id
        BY <1>6, <3>1
      <3>3. d[q + 1][1] # d[q][1]
        BY <1>2, <1>7, <3>2
      <3> QED
        BY <1>1, <2>2, <3>2, <3>3
    <2> QED
      BY <2>1, <2>2
  <1> QED
    BY <1>3, <1>4, <1>8, <1>9, <1>10, <1>11

(* Bytes of one SDU that follow one another are a piece of it. *)
LEMMA BytesArePiece ==
    ASSUME NEW d, Run(d), NEW n \in Nat, n = Len(d), NEW id \in 1..MaxSdus,
           NEW p \in 0..n, NEW q \in (p + 1)..n, \A k \in (p + 1)..q : d[k][1] = id
    PROVE  SubSeq(d, p + 1, q) = Piece(id, d[p + 1][2], d[q][2])
  <1>1. /\ d \in Seq(SduByte)
        /\ \A k \in 1..n : d[k][2] \in 1..SduLen /\ d[k][2] \in Nat /\ d[k] = <<d[k][1], d[k][2]>>
        /\ \A k \in 1..(n - 1) :
              \/ d[k + 1][1] = d[k][1] /\ d[k + 1][2] = d[k][2] + 1
              \/ d[k + 1][1] = d[k][1] + 1
    BY RunOrder
  <1>a. PICK m : m = q - p
    OBVIOUS
  <1>b. PICK j : j = d[p + 1][2]
    OBVIOUS
  <1>2. m \in Nat \ {0} /\ p + m = q /\ p + 1 \in 1..n /\ j \in Nat /\ j \in 1..SduLen
    <2>1. q - p \in Nat \ {0} /\ p + (q - p) = q /\ p + 1 \in 1..n
      OBVIOUS
    <2>2. d[p + 1][2] \in Nat /\ d[p + 1][2] \in 1..SduLen
      BY <1>1, <2>1
    <2> QED
      BY <2>1, <2>2, <1>a, <1>b
  <1>3. \A i \in 1..m : d[p + i] = <<id, j + i - 1>>
    <2> DEFINE T == {i \in 1..m : d[p + i] = <<id, j + i - 1>>}
    <2>1. 1 \in T
      <3>1. p + 1 \in (p + 1)..q /\ j + 1 - 1 = j /\ 1 \in 1..m
        BY <1>2
      <3> QED
        BY <1>1, <1>2, <1>b, <3>1
    <2>2. ASSUME NEW i \in 1..(m - 1), i \in T PROVE i + 1 \in T
      <3>1. /\ p + i \in 1..(n - 1) /\ p + (i + 1) = (p + i) + 1 /\ i + 1 \in 1..m
            /\ p + i \in (p + 1)..q /\ (p + i) + 1 \in (p + 1)..q /\ (p + i) + 1 \in 1..n
            /\ (j + i - 1) + 1 = j + (i + 1) - 1
        BY <1>2
      <3>2. d[p + i] = <<id, j + i - 1>>
        BY <2>2
      <3>3. d[(p + i) + 1][1] = id /\ d[p + i][1] = id /\ d[p + i][2] = j + i - 1
        BY <3>1, <3>2
      <3>4. d[(p + i) + 1][2] = (j + i - 1) + 1
        <4> PICK k : k = p + i
          OBVIOUS
        <4>1. k \in 1..(n - 1)
          BY <3>1
        <4>2. \/ d[k + 1][1] = d[k][1] /\ d[k + 1][2] = d[k][2] + 1
              \/ d[k + 1][1] = d[k][1] + 1
          BY <1>1, <4>1
        <4>3. d[k][1] = id /\ d[k + 1][1] = id /\ d[k][2] = j + i - 1 /\ id \in Nat
          BY <3>3
        <4> QED
          BY <4>2, <4>3
      <3>5. d[(p + i) + 1] = <<id, j + (i + 1) - 1>>
        BY <1>1, <3>1, <3>3, <3>4
      <3> QED
        BY <3>1, <3>5
    <2> HIDE DEF T
    <2>3. \A i \in 1..m : i \in T
      BY <1>2, <2>1, <2>2, UpTo
    <2> QED
      BY <2>3 DEF T
  <1>c. PICK k : k = d[q][2]
    OBVIOUS
  <1>4. k = j + m - 1 /\ k \in 0..SduLen /\ j <= k + 1 /\ k - j + 1 = m
    <2>1. m \in 1..m
      BY <1>2
    <2>a. d[p + m] = <<id, j + m - 1>>
      BY <1>3, <2>1
    <2>2. k = j + m - 1
      BY <1>2, <1>c, <2>a
    <2>3. k \in 1..SduLen
      BY <1>1, <1>2, <1>c
    <2> QED
      BY <1>2, <2>2, <2>3, SduAssumption
  <1>d. PICK f, g : f = SubSeq(d, p + 1, q) /\ g = Piece(id, j, k)
    OBVIOUS
  <1>5. g \in Seq(SduByte) /\ Len(g) = m /\ \A i \in 1..m : g[i] = <<id, j + i - 1>>
    <2>1. /\ Piece(id, j, k) \in Seq(SduByte) /\ Len(Piece(id, j, k)) = k - j + 1
          /\ \A i \in 1..(k - j + 1) : Piece(id, j, k)[i] = <<id, j + i - 1>>
      BY <1>2, <1>4, PieceType
    <2> QED
      BY <1>4, <1>d, <2>1
  <1>6. f \in Seq(SduByte) /\ Len(f) = m /\ \A i \in 1..m : f[i] = d[p + i]
    <2>a. PICK a : a = p + 1
      OBVIOUS
    <2>1. a \in Int /\ q \in Int /\ a <= q /\ q - a + 1 = m /\ a..q \subseteq 1..n
      BY <1>2, <2>a
    <2>2. \A i \in a..q : d[i] \in SduByte
      BY <1>1, <2>1, ElementOfSeq
    <2>3. /\ SubSeq(d, a, q) \in Seq(SduByte)
          /\ Len(SubSeq(d, a, q)) = IF a <= q THEN q - a + 1 ELSE 0
          /\ \A i \in 1..(q - a + 1) : SubSeq(d, a, q)[i] = d[a + i - 1]
      BY <2>1, <2>2, SubSeqProperties
    <2>4. f \in Seq(SduByte) /\ Len(f) = m /\ \A i \in 1..m : f[i] = d[a + i - 1]
      BY <1>d, <2>1, <2>3, <2>a
    <2>5. \A i \in 1..m : a + i - 1 = p + i
      BY <1>2, <2>a
    <2> QED
      BY <2>4, <2>5
  <1>7. f = g
    BY <1>3, <1>5, <1>6, SeqEqual
  <1> QED
    BY <1>7, <1>b, <1>c, <1>d


(* The bytes of a run, cut where an SDU ends, are what lies between its ends. *)
LEMMA CutRun ==
    ASSUME NEW d, Run(d)
    PROVE  LET e == d[1]
               b == d[Len(d)]
               m == b[1] - e[1] + 1
           IN /\ d \in Seq(SduByte) /\ e \in SduByte /\ b \in SduByte
              /\ e[1] <= b[1] /\ (e[1] = b[1] => e[2] <= b[2])
              /\ [i \in 1..m |-> SubSeq(d, BytesUpTo(d, e[1] + i - 2) + 1, BytesUpTo(d, e[1] + i - 1))]
                   = [i \in 1..m |-> PieceOf(e, b, i)]
  <1>a. PICK n : n = Len(d)
    OBVIOUS
  <1>b. PICK e, b : e = d[1] /\ b = d[n]
    OBVIOUS
  <1>0. n \in Nat /\ n > 0
    BY <1>a, RunTypes
  <1>1. /\ d \in Seq(SduByte)
        /\ \A k \in 1..n : d[k][1] \in 1..MaxSdus /\ d[k][1] \in Nat
        /\ \A k \in 1..(n - 1) : \/ d[k + 1][1] = d[k][1] /\ d[k + 1][2] = d[k][2] + 1
                                 \/ d[k + 1][1] = d[k][1] + 1
        /\ \A k \in 1..n : d[k][2] \in Nat
        /\ \A k \in 1..n : d[1][1] <= d[k][1] /\ d[k][1] <= d[n][1]
    BY <1>0, <1>a, RunOrder
  <1>2. 1 \in 1..n /\ n \in 1..n
    BY <1>0
  <1>3. /\ e \in SduByte /\ b \in SduByte /\ e[1] \in Nat /\ b[1] \in Nat /\ e[1] <= b[1]
        /\ e[2] \in Nat /\ b[2] \in Nat /\ e[1] \in 1..MaxSdus /\ b[1] \in 1..MaxSdus
    BY <1>1, <1>2, <1>a, <1>b, ElementOfSeq
  <1>c. PICK m : m = b[1] - e[1] + 1
    OBVIOUS
  <1>4. ASSUME NEW i \in 1..m
        PROVE  SubSeq(d, BytesUpTo(d, e[1] + i - 2) + 1, BytesUpTo(d, e[1] + i - 1)) = PieceOf(e, b, i)
    <2>a. PICK id : id = e[1] + i - 1
      OBVIOUS
    <2>b. PICK p, q : p = BytesUpTo(d, id - 1) /\ q = BytesUpTo(d, id)
      OBVIOUS
    <2>1. /\ id \in d[1][1]..d[n][1] /\ id \in 1..MaxSdus
          /\ (id = e[1] <=> i = 1) /\ (id = b[1] <=> i = m) /\ e[1] + i - 2 = id - 1
      <3>1. e[1] \in Nat /\ b[1] \in Nat /\ e[1] <= b[1] /\ e[1] >= 1 /\ b[1] <= MaxSdus
        BY <1>3
      <3>2. /\ id \in e[1]..b[1] /\ id >= 1 /\ id <= MaxSdus /\ id \in Nat
            /\ (id = e[1] <=> i = 1) /\ (id = b[1] <=> i = m) /\ e[1] + i - 2 = id - 1
        BY <3>1, <1>c, <2>a, SduAssumption
      <3> QED
        BY <3>2, <1>b, SduAssumption
    <2>2. /\ p \in 0..n /\ q \in (p + 1)..n
          /\ \A k \in (p + 1)..q : d[k][1] = id
          /\ IF id = d[1][1] THEN p = 0 ELSE d[p + 1][2] = 1
          /\ IF id = d[n][1] THEN q = n ELSE d[q][2] = SduLen
      <3>1. id \in d[1][1]..d[n][1] /\ n \in Nat /\ n = Len(d) /\ Run(d)
        BY <1>0, <1>a, <2>1
      <3> QED
        BY <3>1, <2>b, BytesOfSdu
    <2>3. SubSeq(d, p + 1, q) = Piece(id, d[p + 1][2], d[q][2])
      <3>1. Run(d) /\ n \in Nat /\ n = Len(d) /\ id \in 1..MaxSdus
        BY <1>0, <1>a, <2>1
      <3> QED
        BY <2>2, <3>1, BytesArePiece
    <2>4. d[p + 1][2] = IF i = 1 THEN e[2] ELSE 1
      <3>1. p = 0 => p + 1 = 1
        OBVIOUS
      <3> QED
        BY <1>b, <2>1, <2>2, <3>1
    <2>5. d[q][2] = IF i = m THEN b[2] ELSE SduLen
      BY <1>b, <2>1, <2>2
    <2>6. PieceOf(e, b, i) = Piece(id, d[p + 1][2], d[q][2])
      BY <1>c, <2>a, <2>4, <2>5 DEF PieceOf
    <2> QED
      BY <2>1, <2>3, <2>6, <2>a, <2>b
  <1>5. e[1] = b[1] => e[2] <= b[2]
    <2> SUFFICES ASSUME e[1] = b[1] PROVE e[2] <= b[2]
      OBVIOUS
    <2>a. PICK V : V = [k \in 1..n |-> d[k][2]]
      OBVIOUS
    <2>1. V \in [1..n -> Nat] /\ \A k \in 1..n : V[k] = d[k][2]
      BY <1>1, <2>a
    <2>2. \A k \in 1..(n - 1) : V[k] <= V[k + 1]
      <3> TAKE k \in 1..(n - 1)
      <3>1. k \in 1..n /\ k + 1 \in 1..n
        BY <1>0
      <3>2. d[k + 1][1] = d[k][1]
        BY <1>1, <1>3, <1>b, <3>1
      <3>3. d[k][1] \in Nat /\ d[k][1] # d[k][1] + 1 /\ d[k][2] \in Nat
        BY <1>1, <3>1
      <3>4. d[k + 1][2] = d[k][2] + 1
        BY <1>1, <3>2, <3>3
      <3> QED
        BY <2>1, <3>1, <3>3, <3>4
    <2>3. V[1] <= V[n]
      BY <1>0, <1>2, <2>1, <2>2, Ascending
    <2> QED
      BY <1>2, <1>b, <2>1, <2>3
  <1>6. [i \in 1..m |-> SubSeq(d, BytesUpTo(d, e[1] + i - 2) + 1, BytesUpTo(d, e[1] + i - 1))]
          = [i \in 1..m |-> PieceOf(e, b, i)]
    BY <1>4
  <1> QED
    BY <1>1, <1>3, <1>5, <1>6, <1>a, <1>b, <1>c

-----------------------------------------------------------------------------
(* SDUs handed over *)

\* SDUs out, in their order, of the places from lo to below hi.
Handed(out, lo, hi) ==
    /\ out \in Seq(Seq(SduByte))
    /\ \A i \in 1..Len(out) : /\ out[i] = SduBytes(out[i][1][1])
                              /\ out[i][1][1] \in lo..(hi - 1)
    /\ \A i \in 1..Len(out), j \in 1..Len(out) : i < j => out[i][1][1] < out[j][1][1]

LEMMA HandedNone ==
    ASSUME NEW lo \in Nat, NEW hi \in Nat
    PROVE  Handed(<< >>, lo, hi)
  BY EmptySeq DEF Handed

(* One SDU more. *)
LEMMA HandedOneMore ==
    ASSUME NEW lo \in Nat, NEW hi \in Nat, NEW out, Handed(out, lo, hi),
           NEW id \in 1..MaxSdus, lo <= id, hi <= id
    PROVE  Handed(Append(out, SduBytes(id)), lo, id + 1)
  <1>1. SduBytes(id) \in Seq(SduByte) /\ SduBytes(id)[1][1] = id
    BY PieceIsSdu
  <1>a. PICK n : n = Len(out)
    OBVIOUS
  <1>b. PICK new : new = Append(out, SduBytes(id))
    OBVIOUS
  <1>2. /\ out \in Seq(Seq(SduByte)) /\ n \in Nat
        /\ \A i \in 1..n : out[i] = SduBytes(out[i][1][1]) /\ out[i][1][1] \in lo..(hi - 1)
        /\ \A i \in 1..n, j \in 1..n : i < j => out[i][1][1] < out[j][1][1]
    BY <1>a, LenProperties DEF Handed
  <1>3. /\ new \in Seq(Seq(SduByte)) /\ Len(new) = n + 1
        /\ \A i \in 1..n : new[i] = out[i]
        /\ new[n + 1] = SduBytes(id)
    BY <1>1, <1>2, <1>a, <1>b, AppendProperties
  <1>4. ASSUME NEW i \in 1..(n + 1)
        PROVE  new[i] = SduBytes(new[i][1][1]) /\ new[i][1][1] \in lo..((id + 1) - 1)
    <2>1. CASE i = n + 1
      BY <1>1, <1>3, <2>1
    <2>2. CASE i # n + 1
      <3>1. i \in 1..n
        BY <1>2, <2>2
      <3>2. new[i] = out[i] /\ out[i] = SduBytes(out[i][1][1]) /\ out[i][1][1] \in lo..(hi - 1)
        BY <1>2, <1>3, <3>1
      <3> QED
        BY <3>2
    <2> QED
      BY <2>1, <2>2
  <1>5. ASSUME NEW i \in 1..(n + 1), NEW j \in 1..(n + 1), i < j
        PROVE  new[i][1][1] < new[j][1][1]
    <2>1. i \in 1..n /\ (j = n + 1 \/ j \in 1..n)
      BY <1>2, <1>5
    <2>2. CASE j = n + 1
      <3>1. new[i][1][1] \in lo..(hi - 1) /\ new[j][1][1] = id
        BY <1>1, <1>2, <1>3, <2>1, <2>2
      <3> QED
        BY <3>1
    <2>3. CASE j \in 1..n
      BY <1>2, <1>3, <1>5, <2>1, <2>3
    <2> QED
      BY <2>1, <2>2, <2>3
  <1>6. (id + 1) - 1 = id
    OBVIOUS
  <1>7. Handed(new, lo, id + 1)
    BY <1>3, <1>4, <1>5 DEF Handed
  <1> QED
    BY <1>7, <1>b

LEMMA HandedUpTo ==
    ASSUME NEW lo \in Nat, NEW hi \in Nat, NEW top \in Nat, hi <= top,
           NEW out, Handed(out, lo, hi)
    PROVE  Handed(out, lo, top)
  <1>1. lo..(hi - 1) \subseteq lo..(top - 1)
    OBVIOUS
  <1> QED
    BY <1>1 DEF Handed

\* A segment that ends an SDU is taken: the SDU goes out, or is dropped.
Ends(acc, next, seg) ==
    next.sdu = << >> /\ (next.out = acc.out \/ next.out = Append(acc.out, acc.sdu \o seg))

\* The segments end the SDUs from x on, the first with what was reassembled of it.
EndSdus(sdu, segs, x) ==
    \A i \in 1..Len(segs) :
        /\ x + i - 1 \in 1..MaxSdus
        /\ (IF i = 1 THEN sdu \o segs[i] ELSE segs[i]) = SduBytes(x + i - 1)

(* What goes out of segments each of which ends an SDU. *)
LEMMA SegmentsHanded ==
    ASSUME NEW n \in Nat, NEW f, NEW segs \in Seq(Seq(SduByte)), n = Len(segs),
           \A i \in 1..n : Ends(f[i - 1], f[i], segs[i]),
           NEW lo \in Nat, NEW x \in Nat, lo <= x, Handed(f[0].out, lo, x),
           EndSdus(f[0].sdu, segs, x)
    PROVE  (n > 0 => f[n].sdu = << >>) /\ Handed(f[n].out, lo, x + n)
  <1> DEFINE Ok(i) == f[i].sdu = << >> /\ Handed(f[i].out, lo, x + i)
             T == {i \in 1..n : Ok(i)}
  <1>1. ASSUME NEW i \in 1..n, Handed(f[i - 1].out, lo, x + i - 1),
               f[i - 1].sdu \o segs[i] = SduBytes(x + i - 1)
        PROVE  Ok(i)
    <2>a. PICK id : id = x + i - 1
      OBVIOUS
    <2>1. id \in 1..MaxSdus /\ lo <= id /\ id \in Nat /\ id + 1 = x + i /\ id <= id + 1 /\ id + 1 \in Nat
      BY <2>a DEF EndSdus
    <2>2. Handed(f[i - 1].out, lo, id)
      BY <1>1, <2>a
    <2>3. Handed(f[i - 1].out, lo, id + 1) /\ Handed(Append(f[i - 1].out, SduBytes(id)), lo, id + 1)
      BY <2>1, <2>2, HandedOneMore, HandedUpTo
    <2>4. /\ f[i].sdu = << >>
          /\ f[i].out = f[i - 1].out \/ f[i].out = Append(f[i - 1].out, SduBytes(id))
      BY <1>1, <2>a DEF Ends
    <2> QED
      BY <2>1, <2>3, <2>4
  <1>2. n > 0 => 1 \in T
    <2> SUFFICES ASSUME n > 0 PROVE 1 \in T
      OBVIOUS
    <2>1. 1 \in 1..n /\ 1 - 1 = 0 /\ x + 1 - 1 = x
      OBVIOUS
    <2>2. f[0].sdu \o segs[1] = SduBytes(x + 1 - 1)
      BY <2>1 DEF EndSdus
    <2> HIDE DEF Ok
    <2> QED
      BY <1>1, <2>1, <2>2
  <1>3. ASSUME NEW i \in 1..(n - 1), i \in T PROVE i + 1 \in T
    <2>1. i + 1 \in 1..n /\ (i + 1) - 1 = i /\ i + 1 # 1 /\ x + (i + 1) - 1 = x + i
      OBVIOUS
    <2>2. f[i].sdu = << >> /\ Handed(f[i].out, lo, x + i)
      BY <1>3
    <2>3. segs[i + 1] = SduBytes(x + (i + 1) - 1) /\ segs[i + 1] \in Seq(SduByte)
      BY <2>1, ElementOfSeq DEF EndSdus
    <2>4. << >> \o segs[i + 1] = segs[i + 1]
      BY <2>3, ConcatEmptySeq
    <2>5. f[(i + 1) - 1].sdu \o segs[i + 1] = SduBytes(x + (i + 1) - 1)
      BY <2>1, <2>2, <2>3, <2>4
    <2>6. Handed(f[(i + 1) - 1].out, lo, x + (i + 1) - 1)
      BY <2>1, <2>2
    <2> HIDE DEF Ok
    <2> QED
      BY <1>1, <2>1, <2>5, <2>6
  <1> HIDE DEF T
  <1>4. \A i \in 1..n : i \in T
    BY <1>2, <1>3, UpTo
  <1>5. n > 0 => Ok(n)
    BY <1>4 DEF T
  <1>6. n = 0 => x + n = x
    OBVIOUS
  <1> QED
    BY <1>5, <1>6


-----------------------------------------------------------------------------
(* The segments of a PDU *)

(* A sequence without its last element. *)
LEMMA FrontOf ==
    ASSUME NEW S, NEW s \in Seq(S), s # << >>
    PROVE  /\ Front(s) \in Seq(S) /\ Len(Front(s)) = Len(s) - 1
           /\ \A i \in 1..(Len(s) - 1) : Front(s)[i] = s[i]
  <1>a. PICK n : n = Len(s)
    OBVIOUS
  <1>1. n \in Nat \ {0}
    BY <1>a, LenProperties, EmptySeq
  <1>b. PICK f : f = SubSeq(s, 1, n - 1)
    OBVIOUS
  <1>2. \A i \in 1..(n - 1) : s[i] \in S
    BY <1>1, <1>a, ElementOfSeq
  <1>3. /\ f \in Seq(S) /\ Len(f) = IF 1 <= n - 1 THEN n - 1 - 1 + 1 ELSE 0
        /\ \A i \in 1..(n - 1 - 1 + 1) : f[i] = s[1 + i - 1]
    BY <1>1, <1>2, <1>b, SubSeqProperties
  <1>4. n - 1 - 1 + 1 = n - 1 /\ \A i \in 1..(n - 1) : 1 + i - 1 = i
    BY <1>1
  <1>5. Len(f) = n - 1
    BY <1>1, <1>3
  <1>6. \A i \in 1..(n - 1) : f[i] = s[i]
    BY <1>3, <1>4
  <1>7. Front(s) = f
    BY <1>a, <1>b DEF Front
  <1> QED
    BY <1>3, <1>5, <1>6, <1>7, <1>a

(* What the segments of a PDU are. *)
LEMMA CarriedSegments ==
    ASSUME NEW pdu, NEW e, NEW b, CarriesTo(pdu, e, b), NEW m, m = b[1] - e[1] + 1
    PROVE  /\ m \in Nat \ {0} /\ e[1] + m - 1 = b[1]
           /\ pdu.segments \in Seq(Seq(SduByte)) /\ Len(pdu.segments) = m
           /\ \A i \in 1..m : pdu.segments[i] = PieceOf(e, b, i) /\ e[1] + i - 1 \in 1..MaxSdus
           /\ Last(pdu.segments) \in Seq(SduByte)
           /\ m = 1 => Part(e) \o Last(pdu.segments) = Piece(b[1], 1, b[2])
           /\ m # 1 => Last(pdu.segments) = Piece(b[1], 1, b[2])
           /\ m # 1 => Part(e) \o pdu.segments[1] = SduBytes(e[1])
           /\ \A i \in 2..(m - 1) : pdu.segments[i] = SduBytes(e[1] + i - 1)
  <1>1. /\ e \in SduByte /\ b \in SduByte /\ e[1] <= b[1] /\ (e[1] = b[1] => e[2] <= b[2])
        /\ pdu.segments = [i \in 1..m |-> PieceOf(e, b, i)]
    BY DEF CarriesTo
  <1>2. /\ e[1] \in 1..MaxSdus /\ e[2] \in 1..SduLen /\ b[1] \in 1..MaxSdus /\ b[2] \in 1..SduLen
        /\ SduLen \in Nat \ {0} /\ MaxSdus \in Nat
    BY <1>1, PartType, SduAssumption
  <1>3. m \in Nat \ {0} /\ e[1] + m - 1 = b[1]
    BY <1>1, <1>2
  <1>4. \A i \in 1..m : e[1] + i - 1 \in 1..MaxSdus
    BY <1>2, <1>3
  <1>a. PICK segs : segs = pdu.segments
    OBVIOUS
  <1>5. DOMAIN segs = 1..m /\ segs = [i \in DOMAIN segs |-> segs[i]]
        /\ \A i \in 1..m : segs[i] = PieceOf(e, b, i)
    BY <1>1, <1>a
  <1>6. ASSUME NEW i \in 1..m
        PROVE  segs[i] \in Seq(SduByte)
    <2>a. PICK id, j, k : /\ id = e[1] + i - 1 /\ j = IF i = 1 THEN e[2] ELSE 1
                          /\ k = IF i = m THEN b[2] ELSE SduLen
      OBVIOUS
    <2>1. id \in 1..MaxSdus /\ j \in 1..SduLen /\ k \in 0..SduLen
      BY <1>2, <1>4, <2>a
    <2>2. j <= k + 1
      <3>1. CASE i # 1
        <4>1. j = 1
          BY <2>a, <3>1
        <4> QED
          BY <2>1, <4>1
      <3>2. CASE i # m
        <4>1. k = SduLen
          BY <2>a, <3>2
        <4> QED
          BY <1>2, <2>1, <4>1
      <3>3. CASE i = 1 /\ i = m
        <4>1. m = 1
          BY <3>3
        <4>2. e[1] = b[1]
          BY <1>2, <1>3, <4>1
        <4>3. e[2] <= b[2] /\ j = e[2] /\ k = b[2]
          BY <1>1, <2>a, <3>3, <4>2
        <4> QED
          BY <1>2, <4>3
      <3> QED
        BY <3>1, <3>2, <3>3
    <2>3. Piece(id, j, k) \in Seq(SduByte)
      BY <2>1, <2>2, PieceType
    <2>4. PieceOf(e, b, i) = Piece(id, j, k)
      BY <2>a DEF PieceOf
    <2> QED
      BY <1>5, <2>3, <2>4
  <1>7. segs \in Seq(Seq(SduByte)) /\ Len(segs) = m
    BY <1>3, <1>5, <1>6, IsSeqOf
  <1>8. m \in 1..m /\ 1 \in 1..m /\ Last(segs) = segs[m]
    BY <1>3, <1>7 DEF Last
  <1>9. m = 1 => Part(e) \o Last(segs) = Piece(b[1], 1, b[2])
    <2> SUFFICES ASSUME m = 1 PROVE Part(e) \o Last(segs) = Piece(b[1], 1, b[2])
      OBVIOUS
    <2>1. e[1] = b[1] /\ b[2] \in e[2]..SduLen /\ e[1] + 1 - 1 = e[1]
      BY <1>1, <1>2, <1>3
    <2>2. Last(segs) = Piece(e[1], e[2], b[2])
      <3>1. segs[1] = PieceOf(e, b, 1)
        BY <1>5, <1>8
      <3>2. PieceOf(e, b, 1) = Piece(e[1] + 1 - 1, e[2], b[2])
        BY DEF PieceOf
      <3> QED
        BY <1>8, <2>1, <3>1, <3>2
    <2> QED
      BY <1>1, <2>1, <2>2, PartType
  <1>10. m # 1 => Last(segs) = Piece(b[1], 1, b[2])
    <2> SUFFICES ASSUME m # 1 PROVE Last(segs) = Piece(b[1], 1, b[2])
      OBVIOUS
    <2>1. segs[m] = PieceOf(e, b, m)
      BY <1>5, <1>8
    <2>2. PieceOf(e, b, m) = Piece(e[1] + m - 1, 1, b[2])
      BY DEF PieceOf
    <2> QED
      BY <1>3, <1>8, <2>1, <2>2
  <1>11. m # 1 => Part(e) \o segs[1] = SduBytes(e[1])
    <2> SUFFICES ASSUME m # 1 PROVE Part(e) \o segs[1] = SduBytes(e[1])
      OBVIOUS
    <2>1. segs[1] = PieceOf(e, b, 1) /\ e[1] + 1 - 1 = e[1] /\ SduLen \in e[2]..SduLen
      BY <1>2, <1>5, <1>8
    <2>2. PieceOf(e, b, 1) = Piece(e[1] + 1 - 1, e[2], SduLen)
      BY DEF PieceOf
    <2>3. Part(e) \o Piece(e[1], e[2], SduLen) = Piece(e[1], 1, SduLen)
      BY <1>1, <2>1, PartType
    <2> QED
      BY <1>2, <2>1, <2>2, <2>3, PieceIsSdu
  <1>12. ASSUME NEW i \in 2..(m - 1) PROVE segs[i] = SduBytes(e[1] + i - 1)
    <2>1. i \in 1..m /\ i # 1 /\ i # m
      BY <1>3
    <2>2. segs[i] = PieceOf(e, b, i) /\ e[1] + i - 1 \in 1..MaxSdus
      BY <1>4, <1>5, <2>1
    <2>3. PieceOf(e, b, i) = Piece(e[1] + i - 1, 1, SduLen)
      BY <2>1 DEF PieceOf
    <2> QED
      BY <2>2, <2>3, PieceIsSdu
  <1>13. Last(segs) \in Seq(SduByte)
    BY <1>6, <1>8
  <1> QED
    BY <1>3, <1>4, <1>5, <1>7, <1>9, <1>10, <1>11, <1>12, <1>13, <1>a

(* The byte after another. *)
LEMMA NextByteType ==
    ASSUME NEW b \in SduByte
    PROVE  /\ b[1] \in 1..MaxSdus /\ b[2] \in 1..SduLen
           /\ Successor(b)[1] \in Nat /\ b[1] <= Successor(b)[1]
           /\ b[2] = SduLen => Successor(b)[1] = b[1] + 1
           /\ b[2] # SduLen => Successor(b)[1] = b[1] /\ Part(Successor(b)) = Piece(b[1], 1, b[2])
  <1>1. b[1] \in 1..MaxSdus /\ b[2] \in 1..SduLen
    BY PartType
  <1>2. b[2] = SduLen => Successor(b) = <<b[1] + 1, 1>>
    BY DEF Successor
  <1>3. b[2] # SduLen => Successor(b) = <<b[1], b[2] + 1>>
    BY DEF Successor
  <1>4. (b[2] + 1) - 1 = b[2]
    BY <1>1
  <1>5. b[2] # SduLen => Part(Successor(b)) = Piece(b[1], 1, b[2])
    BY <1>3, <1>4 DEF Part
  <1> QED
    BY <1>1, <1>2, <1>3, <1>5

(* The segments before the last end the SDUs before that of b. *)
LEMMA FrontEnds ==
    ASSUME NEW pdu, NEW e, NEW b, CarriesTo(pdu, e, b)
    PROVE  /\ Front(pdu.segments) \in Seq(Seq(SduByte))
           /\ EndSdus(Part(e), Front(pdu.segments), e[1])
           /\ e[1] + Len(Front(pdu.segments)) = b[1]
           /\ Len(Front(pdu.segments)) = Len(pdu.segments) - 1
  <1>a. PICK m : m = b[1] - e[1] + 1
    OBVIOUS
  <1>b. PICK segs : segs = pdu.segments
    OBVIOUS
  <1>1. /\ m \in Nat \ {0} /\ e[1] + m - 1 = b[1] /\ segs \in Seq(Seq(SduByte)) /\ Len(segs) = m
        /\ \A i \in 1..m : e[1] + i - 1 \in 1..MaxSdus
        /\ m # 1 => Part(e) \o segs[1] = SduBytes(e[1])
        /\ \A i \in 2..(m - 1) : segs[i] = SduBytes(e[1] + i - 1)
    BY <1>a, <1>b, CarriedSegments
  <1>2. e[1] \in 1..MaxSdus /\ b[1] \in 1..MaxSdus
    BY PartType DEF CarriesTo
  <1>3. segs # << >>
    BY <1>1, EmptySeq
  <1>c. PICK q : q = Front(segs)
    OBVIOUS
  <1>4. q \in Seq(Seq(SduByte)) /\ Len(q) = m - 1 /\ \A i \in 1..(m - 1) : q[i] = segs[i]
    BY <1>1, <1>3, <1>c, FrontOf
  <1>5. ASSUME NEW i \in 1..(m - 1)
        PROVE  /\ e[1] + i - 1 \in 1..MaxSdus
               /\ (IF i = 1 THEN Part(e) \o q[i] ELSE q[i]) = SduBytes(e[1] + i - 1)
    <2>1. i \in 1..m /\ q[i] = segs[i] /\ m # 1
      BY <1>1, <1>4
    <2>2. CASE i = 1
      <3>1. e[1] + i - 1 = e[1]
        BY <1>2, <2>2
      <3> QED
        BY <1>1, <2>1, <2>2, <3>1
    <2>3. CASE i # 1
      <3>1. i \in 2..(m - 1)
        BY <2>3, <1>1
      <3> QED
        BY <1>1, <2>1, <2>3, <3>1
    <2> QED
      BY <2>2, <2>3
  <1>6. EndSdus(Part(e), q, e[1])
    BY <1>4, <1>5 DEF EndSdus
  <1>7. e[1] + (m - 1) = b[1]
    BY <1>1, <1>2
  <1> QED
    BY <1>1, <1>4, <1>6, <1>7, <1>b, <1>c

(* Those of them that end whole SDUs. *)
LEMMA MiddleEnds ==
    ASSUME NEW pdu, NEW e, NEW b, CarriesTo(pdu, e, b), Len(pdu.segments) > 1
    PROVE  /\ Front(Tail(pdu.segments)) \in Seq(Seq(SduByte))
           /\ EndSdus(<< >>, Front(Tail(pdu.segments)), e[1] + 1)
           /\ (e[1] + 1) + Len(Front(Tail(pdu.segments))) = b[1]
  <1>a. PICK m : m = b[1] - e[1] + 1
    OBVIOUS
  <1>b. PICK segs : segs = pdu.segments
    OBVIOUS
  <1>1. /\ m \in Nat \ {0} /\ e[1] + m - 1 = b[1] /\ segs \in Seq(Seq(SduByte)) /\ Len(segs) = m
        /\ \A i \in 1..m : e[1] + i - 1 \in 1..MaxSdus
        /\ \A i \in 2..(m - 1) : segs[i] = SduBytes(e[1] + i - 1)
    BY <1>a, <1>b, CarriedSegments
  <1>2. e[1] \in 1..MaxSdus /\ b[1] \in 1..MaxSdus /\ m > 1
    BY <1>1, <1>b, PartType DEF CarriesTo
  <1>3. segs # << >>
    BY <1>1, EmptySeq
  <1>d. PICK t : t = Tail(segs)
    OBVIOUS
  <1>c. PICK q : q = Front(t)
    OBVIOUS
  <1>4. t \in Seq(Seq(SduByte)) /\ Len(t) = m - 1 /\ \A i \in 1..(m - 1) : t[i] = segs[i + 1]
    BY <1>1, <1>3, <1>d, HeadTailProperties
  <1>5. t # << >>
    BY <1>1, <1>2, <1>4, EmptySeq
  <1>6. q \in Seq(Seq(SduByte)) /\ Len(q) = m - 1 - 1 /\ \A i \in 1..(m - 1 - 1) : q[i] = t[i]
    BY <1>4, <1>5, <1>c, FrontOf
  <1>7. ASSUME NEW i \in 1..(m - 1 - 1)
        PROVE  /\ (e[1] + 1) + i - 1 \in 1..MaxSdus
               /\ (IF i = 1 THEN << >> \o q[i] ELSE q[i]) = SduBytes((e[1] + 1) + i - 1)
    <2>1. /\ i \in 1..(m - 1) /\ i + 1 \in 1..m /\ i + 1 \in 2..(m - 1)
          /\ (e[1] + 1) + i - 1 = e[1] + (i + 1) - 1
      BY <1>1, <1>2
    <2>2. q[i] = SduBytes(e[1] + (i + 1) - 1)
      BY <1>1, <1>4, <1>6, <2>1
    <2>3. q[i] \in Seq(SduByte)
      BY <1>6, ElementOfSeq
    <2>4. << >> \o q[i] = q[i]
      BY <2>3, ConcatEmptySeq
    <2>5. (e[1] + 1) + i - 1 \in 1..MaxSdus
      BY <1>1, <2>1
    <2> QED
      BY <2>1, <2>2, <2>4, <2>5
  <1>8. EndSdus(<< >>, q, e[1] + 1)
    BY <1>6, <1>7 DEF EndSdus
  <1>9. (e[1] + 1) + (m - 1 - 1) = b[1]
    <2>1. \A x \in Nat, k \in Nat : (x + 1) + (k - 1 - 1) = x + k - 1
      OBVIOUS
    <2>2. e[1] \in Nat /\ m \in Nat /\ e[1] + m - 1 = b[1]
      BY <1>1, <1>2
    <2> QED
      BY <2>1, <2>2
  <1> QED
    BY <1>6, <1>8, <1>9, <1>b, <1>c, <1>d

(* The last segment completes what is reassembled: of the SDU of e if there is one
   segment, of one that starts in the PDU if there are more. *)
LEMMA WholeLast ==
    ASSUME NEW pdu, NEW e, NEW b, CarriesTo(pdu, e, b), NEW sdu, NEW front \in Seq(Seq(SduByte)),
           Len(front) = Len(pdu.segments) - 1,
           front = << >> => sdu = Part(e), front # << >> => sdu = << >>
    PROVE  /\ Last(pdu.segments) \in Seq(SduByte)
           /\ sdu \o Last(pdu.segments) = Piece(b[1], 1, b[2])
  <1>a. PICK m : m = b[1] - e[1] + 1
    OBVIOUS
  <1>b. PICK segs : segs = pdu.segments
    OBVIOUS
  <1>1. /\ m \in Nat \ {0} /\ Len(segs) = m /\ Last(segs) \in Seq(SduByte)
        /\ m = 1 => Part(e) \o Last(segs) = Piece(b[1], 1, b[2])
        /\ m # 1 => Last(segs) = Piece(b[1], 1, b[2])
    BY <1>a, <1>b, CarriedSegments
  <1>2. front = << >> <=> m = 1
    BY <1>1, <1>b, EmptySeq
  <1> QED
    BY <1>1, <1>2, <1>b, ConcatEmptySeq

LEMMA FrontType ==
    ASSUME NEW segs \in Seq(Seq(SduByte)), segs # << >>
    PROVE  Front(segs) \in Seq(Seq(SduByte))
  BY FrontOf

\* With what r holds, the last segment of a PDU has the bytes of an SDU up to b.
EndsAt(r, pdu, b) ==
    /\ pdu.end_aligned = (b[2] = SduLen) /\ Last(pdu.segments) \in Seq(SduByte)
    /\ r.sdu \o Last(pdu.segments) = Piece(b[1], 1, b[2])


-----------------------------------------------------------------------------
(* Where a byte stands in the stream *)

\* A byte, and how many bytes of the stream there are up to it.
IsByte(b) == b \in (Nat \ {0}) \X (1..SduLen)

Pos(b) == (b[1] - 1) * SduLen + b[2]

\* The bytes from e up to the one before next.
Between(e, next) == {x \in SduByte : Pos(e) <= Pos(x) /\ Pos(x) < Pos(next)}

(* Multiples are in the order of their factors. *)
LEMMA Multiples ==
    ASSUME NEW k \in Nat, NEW x \in Nat, NEW y \in Nat, x <= y
    PROVE  x * k \in Nat /\ y * k \in Nat /\ x * k <= y * k /\ (x + 1) * k = x * k + k
  <1>1. \A i \in Nat : i * k \in Nat
    OBVIOUS
  <1>2. (y - x) * k \in Nat /\ y - x \in Nat
    BY <1>1
  <1>3. y * k = x * k + (y - x) * k
    OBVIOUS
  <1> QED
    BY <1>1, <1>2, <1>3

LEMMA MultiplesDiffer ==
    ASSUME NEW k \in Nat, NEW x \in Nat, NEW y \in Nat, x <= y
    PROVE  y * k = x * k + (y - x) * k /\ (y - x) * k \in Nat
  <1>1. y - x \in Nat /\ \A i \in Nat : i * k \in Nat
    OBVIOUS
  <1>2. y * k = x * k + (y - x) * k
    OBVIOUS
  <1> QED
    BY <1>1, <1>2

(* A byte stands among those of its SDU. *)
LEMMA PosIn ==
    ASSUME NEW b, IsByte(b)
    PROVE  /\ Pos(b) \in Nat \ {0}
           /\ (b[1] - 1) * SduLen \in Nat /\ b[1] * SduLen \in Nat
           /\ (b[1] - 1) * SduLen + 1 <= Pos(b) /\ Pos(b) <= b[1] * SduLen
  <1>1. SduLen \in Nat /\ b[1] - 1 \in Nat /\ b[1] \in Nat /\ b[2] \in 1..SduLen
    BY SduAssumption DEF IsByte
  <1> PICK x : x = b[1] - 1
    OBVIOUS
  <1>2. x \in Nat /\ x + 1 = b[1]
    BY <1>1
  <1>3. x * SduLen \in Nat /\ (x + 1) * SduLen = x * SduLen + SduLen
    BY <1>1, <1>2, Multiples
  <1> PICK y : y = x * SduLen
    OBVIOUS
  <1>4. Pos(b) = y + b[2]
    BY DEF Pos
  <1> QED
    BY <1>1, <1>2, <1>3, <1>4

(* The order of the SDUs, and of the bytes of one, is that of the stream. *)
LEMMA PosOrder ==
    ASSUME NEW b, NEW c, IsByte(b), IsByte(c)
    PROVE  /\ b[1] < c[1] => Pos(b) < Pos(c)
           /\ b[1] = c[1] => (Pos(b) < Pos(c) <=> b[2] < c[2])
           /\ b[1] = c[1] => (Pos(b) <= Pos(c) <=> b[2] <= c[2])
           /\ Pos(b) <= Pos(c) => b[1] <= c[1]
           /\ Pos(b) = Pos(c) => b = c
  <1>1. /\ b[1] \in Nat /\ b[2] \in Nat /\ c[1] \in Nat /\ c[2] \in Nat
        /\ Pos(b) \in Nat /\ Pos(c) \in Nat
    BY PosIn DEF IsByte
  <1>2. \A p, q : IsByte(p) /\ IsByte(q) /\ p[1] < q[1] => Pos(p) < Pos(q)
    <2> SUFFICES ASSUME NEW p, NEW q, IsByte(p), IsByte(q), p[1] < q[1]
                 PROVE  Pos(p) < Pos(q)
      OBVIOUS
    <2>1. p[1] \in Nat /\ q[1] - 1 \in Nat /\ p[1] <= q[1] - 1 /\ SduLen \in Nat
      BY SduAssumption DEF IsByte
    <2>2. p[1] * SduLen <= (q[1] - 1) * SduLen
      BY <2>1, Multiples
    <2>3. /\ Pos(p) \in Nat /\ Pos(q) \in Nat /\ p[1] * SduLen \in Nat /\ (q[1] - 1) * SduLen \in Nat
          /\ Pos(p) <= p[1] * SduLen /\ (q[1] - 1) * SduLen + 1 <= Pos(q)
      BY PosIn
    <2> QED
      BY <2>2, <2>3
  <1>3. b[1] < c[1] => Pos(b) < Pos(c)
    BY <1>2
  <1>4. c[1] < b[1] => Pos(c) < Pos(b)
    BY <1>2
  <1>5. ASSUME b[1] = c[1]
        PROVE  /\ Pos(b) < Pos(c) <=> b[2] < c[2]
               /\ Pos(b) <= Pos(c) <=> b[2] <= c[2]
    <2> PICK y : y = (b[1] - 1) * SduLen
      OBVIOUS
    <2>1. y \in Nat /\ Pos(b) = y + b[2] /\ Pos(c) = y + c[2]
      BY <1>5, PosIn DEF Pos
    <2> QED
      BY <1>1, <2>1
  <1> PICK i, j, p, q, m, n : i = b[1] /\ j = c[1] /\ p = Pos(b) /\ q = Pos(c) /\ m = b[2] /\ n = c[2]
    OBVIOUS
  <1>6. /\ i \in Nat /\ j \in Nat /\ p \in Nat /\ q \in Nat /\ m \in Nat /\ n \in Nat
        /\ i < j => p < q
        /\ j < i => q < p
        /\ i = j => (p < q <=> m < n) /\ (p <= q <=> m <= n)
    BY <1>1, <1>3, <1>4, <1>5
  <1>7. /\ p <= q => i <= j
        /\ p = q => i = j /\ m = n
    BY <1>6
  <1>8. b = <<i, m>> /\ c = <<j, n>>
    BY DEF IsByte
  <1> QED
    BY <1>3, <1>5, <1>7, <1>8

(* The byte after another stands next to it. *)
LEMMA PosNext ==
    ASSUME NEW b, IsByte(b)
    PROVE  IsByte(Successor(b)) /\ Pos(Successor(b)) = Pos(b) + 1
  <1>1. SduLen \in Nat \ {0} /\ b[1] \in Nat \ {0} /\ b[2] \in 1..SduLen
    BY SduAssumption DEF IsByte
  <1>2. CASE b[2] = SduLen
    <2>1. Successor(b) = <<b[1] + 1, 1>>
      BY <1>2 DEF Successor
    <2> PICK x : x = b[1] - 1
      OBVIOUS
    <2>2. x \in Nat /\ b[1] = x + 1 /\ (b[1] + 1) - 1 = x + 1
      BY <1>1
    <2>3. x * SduLen \in Nat /\ (x + 1) * SduLen = x * SduLen + SduLen
      BY <1>1, <2>2, Multiples
    <2>4. Pos(b) = x * SduLen + SduLen
      BY <1>2 DEF Pos
    <2>5. Pos(Successor(b)) = (x + 1) * SduLen + 1
      BY <2>1, <2>2 DEF Pos
    <2>6. IsByte(Successor(b))
      BY <1>1, <2>1 DEF IsByte
    <2> QED
      BY <2>3, <2>4, <2>5, <2>6
  <1>3. CASE b[2] # SduLen
    <2>1. Successor(b) = <<b[1], b[2] + 1>>
      BY <1>3 DEF Successor
    <2>2. IsByte(Successor(b))
      BY <1>1, <1>3, <2>1 DEF IsByte
    <2> PICK y : y = (b[1] - 1) * SduLen
      OBVIOUS
    <2>3. y \in Nat /\ Pos(b) = y + b[2] /\ Pos(Successor(b)) = y + (b[2] + 1)
      BY <2>1, PosIn DEF Pos
    <2> QED
      BY <1>1, <2>2, <2>3
  <1> QED
    BY <1>2, <1>3

LEMMA SduByteIsByte ==
    ASSUME NEW x \in SduByte
    PROVE  IsByte(x) /\ x = <<x[1], x[2]>> /\ x[1] \in 1..MaxSdus /\ x[2] \in 1..SduLen
  BY DEF SduByte, IsByte

(* The bytes of a piece. *)
LEMMA PieceBytes ==
    ASSUME NEW id \in 1..MaxSdus, NEW j \in 1..SduLen, NEW k \in 0..SduLen, j <= k + 1, NEW x
    PROVE  x \in BytesIn(Piece(id, j, k)) <=> x \in SduByte /\ x[1] = id /\ j <= x[2] /\ x[2] <= k
  <1> PICK p : p = Piece(id, j, k)
    OBVIOUS
  <1>1. /\ SduLen \in Nat /\ j \in Nat /\ k \in Nat
        /\ Len(p) = k - j + 1
        /\ \A i \in 1..(k - j + 1) : p[i] = <<id, j + i - 1>>
    <2>1. /\ Len(Piece(id, j, k)) = k - j + 1
          /\ \A i \in 1..(k - j + 1) : Piece(id, j, k)[i] = <<id, j + i - 1>>
      BY PieceType
    <2>2. SduLen \in Nat /\ j \in Nat /\ k \in Nat
      BY SduAssumption
    <2> QED
      BY <2>1, <2>2
  <1>2. x \in BytesIn(p) <=> \E i \in 1..(k - j + 1) : x = <<id, j + i - 1>>
    BY <1>1 DEF BytesIn
  <1>3. ASSUME NEW i \in 1..(k - j + 1), x = <<id, j + i - 1>>
        PROVE  x \in SduByte /\ x[1] = id /\ j <= x[2] /\ x[2] <= k
    BY <1>1, <1>3 DEF SduByte
  <1>4. ASSUME x \in SduByte, x[1] = id, j <= x[2], x[2] <= k
        PROVE  \E i \in 1..(k - j + 1) : x = <<id, j + i - 1>>
    <2>1. x = <<x[1], x[2]>> /\ x[2] \in Nat
      BY <1>4, SduByteIsByte
    <2> PICK y : y = x[2]
      OBVIOUS
    <2> PICK i : i = y - j + 1
      OBVIOUS
    <2>3. j \in Nat /\ k \in Nat /\ y \in Nat /\ j <= y /\ y <= k
      BY <1>4, <2>1
    <2>2. i \in 1..(k - j + 1) /\ j + i - 1 = y
      BY <2>3
    <2> QED
      BY <1>4, <2>1, <2>2
  <1> QED
    BY <1>2, <1>3, <1>4

(* A PDU carries the bytes from its first up to the next one's. *)
LEMMA SegmentsAreBetween ==
    ASSUME NEW pdu, NEW e, NEW next, Spans(pdu, e, next)
    PROVE  /\ UNION {BytesIn(pdu.segments[i]) : i \in 1..Len(pdu.segments)} = Between(e, next)
           /\ IsByte(e) /\ IsByte(next) /\ Pos(e) < Pos(next) /\ e \in SduByte
  <1>1. PICK b : CarriesTo(pdu, e, b) /\ next = Successor(b)
    BY DEF Spans
  <1>2. /\ e \in SduByte /\ b \in SduByte /\ e[1] <= b[1] /\ (e[1] = b[1] => e[2] <= b[2])
    BY <1>1 DEF CarriesTo
  <1>3. /\ IsByte(e) /\ IsByte(b) /\ e[1] \in 1..MaxSdus /\ b[1] \in 1..MaxSdus
        /\ e[2] \in 1..SduLen /\ b[2] \in 1..SduLen
    BY <1>2, SduByteIsByte
  <1>4. IsByte(next) /\ Pos(next) = Pos(b) + 1 /\ Pos(b) \in Nat /\ Pos(e) \in Nat
    BY <1>1, <1>3, PosNext, PosIn
  <1>5. Pos(e) <= Pos(b)
    <2>1. CASE e[1] < b[1]
      BY <1>3, <1>4, <2>1, PosOrder
    <2>2. CASE e[1] = b[1]
      BY <1>2, <1>3, <2>2, PosOrder
    <2> QED
      BY <1>2, <1>3, <2>1, <2>2
  <1> PICK m : m = b[1] - e[1] + 1
    OBVIOUS
  <1>6. /\ m \in Nat \ {0} /\ Len(pdu.segments) = m
        /\ \A i \in 1..m : pdu.segments[i] = PieceOf(e, b, i) /\ e[1] + i - 1 \in 1..MaxSdus
    BY <1>1, CarriedSegments
  <1>7. SduLen \in Nat \ {0} /\ MaxSdus \in Nat
    BY SduAssumption
  <1>8. ASSUME NEW i \in 1..m, NEW x
        PROVE  x \in BytesIn(pdu.segments[i])
                 <=> /\ x \in SduByte /\ x[1] = e[1] + i - 1
                     /\ (i = 1 => e[2] <= x[2]) /\ (i = m => x[2] <= b[2])
    <2> PICK id, j, k : /\ id = e[1] + i - 1 /\ j = (IF i = 1 THEN e[2] ELSE 1)
                        /\ k = (IF i = m THEN b[2] ELSE SduLen)
      OBVIOUS
    <2>1. pdu.segments[i] = Piece(id, j, k)
      BY <1>6 DEF PieceOf
    <2>2. id \in 1..MaxSdus /\ j \in 1..SduLen /\ k \in 0..SduLen /\ j <= k + 1
      <3>1. i = 1 /\ i = m => e[1] = b[1]
        BY <1>3
      <3>2. id \in 1..MaxSdus /\ j \in 1..SduLen /\ k \in 1..SduLen
        BY <1>3, <1>6, <1>7
      <3>3. i = 1 /\ i = m => j <= k
        BY <1>2, <3>1
      <3>4. j = 1 \/ k = SduLen \/ (i = 1 /\ i = m)
        OBVIOUS
      <3> QED
        BY <1>7, <3>2, <3>3, <3>4
    <2>3. x \in BytesIn(Piece(id, j, k)) <=> x \in SduByte /\ x[1] = id /\ j <= x[2] /\ x[2] <= k
      BY <2>2, PieceBytes
    <2>4. x \in SduByte => x[2] \in 1..SduLen
      BY SduByteIsByte
    <2>5. x \in SduByte => (j <= x[2] <=> (i = 1 => e[2] <= x[2])) /\ (x[2] <= k <=> (i = m => x[2] <= b[2]))
      BY <1>7, <2>4
    <2> QED
      BY <2>1, <2>3, <2>5
  <1>9. ASSUME NEW x \in SduByte
        PROVE  (\E i \in 1..m : x \in BytesIn(pdu.segments[i]))
                 <=> Pos(e) <= Pos(x) /\ Pos(x) <= Pos(b)
    <2>1. IsByte(x) /\ x[1] \in Nat /\ x[2] \in Nat
      BY SduByteIsByte DEF IsByte
    <2>2. ASSUME NEW i \in 1..m, x \in BytesIn(pdu.segments[i])
          PROVE  Pos(e) <= Pos(x) /\ Pos(x) <= Pos(b)
      <3>1. /\ x[1] = e[1] + i - 1 /\ (i = 1 => e[2] <= x[2]) /\ (i = m => x[2] <= b[2])
        BY <1>8, <2>2
      <3>2. /\ e[1] < x[1] \/ (e[1] = x[1] /\ e[2] <= x[2])
            /\ x[1] < b[1] \/ (x[1] = b[1] /\ x[2] <= b[2])
        BY <1>3, <1>6, <3>1
      <3>3. Pos(x) \in Nat
        BY <2>1, PosIn
      <3>4. Pos(e) <= Pos(x)
        BY <1>3, <1>4, <2>1, <3>2, <3>3, PosOrder
      <3>5. Pos(x) <= Pos(b)
        BY <1>3, <1>4, <2>1, <3>2, <3>3, PosOrder
      <3> QED
        BY <3>4, <3>5
    <2>3. ASSUME Pos(e) <= Pos(x), Pos(x) <= Pos(b)
          PROVE  \E i \in 1..m : x \in BytesIn(pdu.segments[i])
      <3>1. e[1] <= x[1] /\ x[1] <= b[1]
        BY <1>3, <2>1, <2>3, PosOrder
      <3>2. (e[1] = x[1] => e[2] <= x[2]) /\ (x[1] = b[1] => x[2] <= b[2])
        BY <1>3, <2>1, <2>3, PosOrder
      <3> PICK i : i = x[1] - e[1] + 1
        OBVIOUS
      <3>3. i \in 1..m /\ x[1] = e[1] + i - 1 /\ (i = 1 => e[1] = x[1]) /\ (i = m => x[1] = b[1])
        BY <1>3, <2>1, <3>1
      <3>4. x \in BytesIn(pdu.segments[i])
        BY <1>8, <3>2, <3>3
      <3> QED
        BY <3>3, <3>4
    <2> QED
      BY <2>2, <2>3
  <1> PICK data : data = UNION {BytesIn(pdu.segments[i]) : i \in 1..Len(pdu.segments)}
    OBVIOUS
  <1>10. ASSUME NEW x
         PROVE  x \in data <=> x \in Between(e, next)
    <2>1. x \in data <=> \E i \in 1..m : x \in BytesIn(pdu.segments[i])
      BY <1>6
    <2>2. x \in data => x \in SduByte
      BY <1>8, <2>1
    <2>3. x \in SduByte => Pos(x) \in Nat
      BY SduByteIsByte, PosIn
    <2>4. x \in Between(e, next) <=> x \in SduByte /\ Pos(e) <= Pos(x) /\ Pos(x) <= Pos(b)
      BY <1>4, <2>3 DEF Between
    <2> QED
      BY <1>9, <2>1, <2>2, <2>4
  <1>11. data = Between(e, next)
    BY <1>10
  <1>12. Pos(e) < Pos(next)
    <2>1. Pos(b) \in Nat /\ Pos(e) \in Nat /\ Pos(next) = Pos(b) + 1
      BY <1>4
    <2> QED
      BY <1>5, <2>1
  <1> QED
    BY <1>2, <1>3, <1>4, <1>11, <1>12

(* The bytes of an SDU. *)
LEMMA BytesOf ==
    ASSUME NEW id \in 1..MaxSdus, NEW k \in 1..SduLen
    PROVE  <<id, k>> \in BytesIn(SduBytes(id)) /\ <<id, k>> \in SduByte
  <1>1. SduBytes(id)[k] = <<id, k>> /\ Len(SduBytes(id)) = SduLen
    BY SduAssumption DEF SduBytes
  <1> QED
    BY <1>1 DEF BytesIn, SduByte


-----------------------------------------------------------------------------
(* Where a PDU stands in the stream *)

\* The PDU at place c starts at byte F[c]; S have been built.
InOrderUpTo(F, S) ==
    /\ \A c \in 0..S : F[c][1] \in Nat
    /\ \A c \in 0..S : \A d \in c..S : F[c][1] <= F[d][1]

\* One more place.
OneMore(F, S, e) == [c \in 0..(S + 1) |-> IF c <= S THEN F[c] ELSE e]

LEMMA OneMorePlace ==
    ASSUME NEW F, NEW S \in Nat, InOrderUpTo(F, S), NEW e, e[1] \in Nat, F[S][1] <= e[1]
    PROVE  /\ InOrderUpTo(OneMore(F, S, e), S + 1)
           /\ \A c \in 0..S : OneMore(F, S, e)[c] = F[c]
           /\ OneMore(F, S, e)[S + 1] = e
  <1>a. PICK G : G = OneMore(F, S, e)
    OBVIOUS
  <1>1. (\A c \in 0..S : G[c] = F[c]) /\ G[S + 1] = e
    BY <1>a DEF OneMore
  <1>2. /\ \A c \in 0..S : F[c][1] \in Nat
        /\ \A c \in 0..S : \A d \in c..S : F[c][1] <= F[d][1]
    BY DEF InOrderUpTo
  <1>3. \A c \in 0..(S + 1) : c \in 0..S \/ c = S + 1
    OBVIOUS
  <1>4. \A c \in 0..(S + 1) : G[c][1] \in Nat
    BY <1>1, <1>2, <1>3
  <1>5. ASSUME NEW c \in 0..(S + 1), NEW d \in c..(S + 1)
        PROVE  G[c][1] <= G[d][1]
    <2>1. CASE d = S + 1 /\ c = S + 1
      BY <1>4, <2>1
    <2>2. CASE d = S + 1 /\ c # S + 1
      <3>1. c \in 0..S /\ S \in c..S
        BY <2>2
      <3>2. F[c][1] \in Nat /\ F[S][1] \in Nat /\ F[c][1] <= F[S][1]
        BY <1>2, <3>1
      <3> QED
        BY <1>1, <2>2, <3>1, <3>2
    <2>3. CASE d # S + 1
      <3>1. c \in 0..S /\ d \in c..S /\ d \in 0..S
        BY <2>3
      <3> QED
        BY <1>1, <1>2, <3>1
    <2> QED
      BY <2>1, <2>2, <2>3
  <1>6. InOrderUpTo(G, S + 1)
    BY <1>4, <1>5 DEF InOrderUpTo
  <1> QED
    BY <1>1, <1>6, <1>a

\* A PDU is built at place S.
OneSent(F, S, F2, S2) == S2 = S + 1 /\ \E e, pdu : Spans(pdu, F[S], e) /\ F2 = OneMore(F, S, e)

\* Where a stream begins.
StreamFrom(first) == [c \in {0} |-> <<first, 1>>]

LEMMA StreamBegins ==
    ASSUME NEW m \in Nat
    PROVE  LET F == StreamFrom(m + 1)
           IN F[0] = <<m + 1, 1>> /\ F[0][1] = m + 1 /\ F[0][1] \in Nat /\ InOrderUpTo(F, 0)
  <1>a. PICK F : F = StreamFrom(m + 1)
    OBVIOUS
  <1>1. F[0] = <<m + 1, 1>> /\ F[0][1] = m + 1
    BY <1>a DEF StreamFrom
  <1>2. 0..0 = {0}
    OBVIOUS
  <1>3. InOrderUpTo(F, 0)
    BY <1>1, <1>2 DEF InOrderUpTo
  <1> QED
    BY <1>1, <1>3, <1>a

\* Every PDU up to place S carries something.
PlacesRise(F, S) ==
    /\ \A c \in 0..S : IsByte(F[c])
    /\ \A c \in 0..S : \A d \in c..S : Pos(F[c]) + (d - c) <= Pos(F[d])

\* The bytes of the PDU at place c.
PlaceBytes(F, c) == Between(F[c], F[c + 1])

LEMMA PlaceOrder ==
    ASSUME NEW F, NEW S \in Nat, PlacesRise(F, S), NEW c \in 0..S, NEW d \in c..S
    PROVE  /\ IsByte(F[c]) /\ IsByte(F[d])
           /\ Pos(F[c]) \in Nat \ {0} /\ Pos(F[d]) \in Nat \ {0}
           /\ Pos(F[c]) + (d - c) <= Pos(F[d])
           /\ F[c][1] \in Nat \ {0} /\ F[d][1] \in Nat \ {0} /\ F[c][1] <= F[d][1]
  <1>1. c \in 0..S /\ d \in 0..S /\ d - c \in Nat
    OBVIOUS
  <1>2. IsByte(F[c]) /\ IsByte(F[d]) /\ Pos(F[c]) + (d - c) <= Pos(F[d])
    BY <1>1 DEF PlacesRise
  <1>3. Pos(F[c]) \in Nat \ {0} /\ Pos(F[d]) \in Nat \ {0}
    BY <1>2, PosIn
  <1>4. Pos(F[c]) <= Pos(F[d])
    BY <1>1, <1>2, <1>3
  <1>5. F[c][1] \in Nat \ {0} /\ F[d][1] \in Nat \ {0} /\ F[c][1] <= F[d][1]
    BY <1>2, <1>4, PosOrder DEF IsByte
  <1> QED
    BY <1>2, <1>3, <1>5

(* Two PDUs have no byte in common. *)
LEMMA OnePlace ==
    ASSUME NEW F, NEW S \in Nat, PlacesRise(F, S), NEW c \in 0..(S - 1), NEW d \in 0..(S - 1),
           NEW p \in Nat, Pos(F[c]) <= p, p < Pos(F[c + 1]), Pos(F[d]) <= p, p < Pos(F[d + 1])
    PROVE  c = d
  <1>1. \A x, y : x \in 0..(S - 1) /\ y \in 0..(S - 1) /\ x < y => Pos(F[x + 1]) <= Pos(F[y])
    <2> SUFFICES ASSUME NEW x \in 0..(S - 1), NEW y \in 0..(S - 1), x < y
                 PROVE  Pos(F[x + 1]) <= Pos(F[y])
      OBVIOUS
    <2>1. x + 1 \in 0..S /\ y \in (x + 1)..S /\ y - (x + 1) \in Nat
      OBVIOUS
    <2>2. /\ Pos(F[x + 1]) \in Nat /\ Pos(F[y]) \in Nat
          /\ Pos(F[x + 1]) + (y - (x + 1)) <= Pos(F[y])
      BY <2>1, PlaceOrder
    <2> QED
      BY <2>1, <2>2
  <1>2. /\ Pos(F[c]) \in Nat /\ Pos(F[d]) \in Nat /\ Pos(F[c + 1]) \in Nat /\ Pos(F[d + 1]) \in Nat
    <2>1. c \in 0..S /\ d \in 0..S /\ c + 1 \in 0..S /\ d + 1 \in 0..S
      OBVIOUS
    <2> QED
      BY <2>1, PosIn DEF PlacesRise
  <1>3. ~(c < d)
    <2>1. c < d => Pos(F[c + 1]) <= Pos(F[d])
      BY <1>1
    <2> QED
      BY <1>2, <2>1
  <1>4. ~(d < c)
    <2>1. d < c => Pos(F[d + 1]) <= Pos(F[c])
      BY <1>1
    <2> QED
      BY <1>2, <2>1
  <1> QED
    BY <1>3, <1>4

(* The first byte of a PDU is in no other one. *)
LEMMA FirstByteOf ==
    ASSUME NEW F, NEW S \in Nat, PlacesRise(F, S), NEW c \in 0..(S - 1), NEW d \in 0..(S - 1)
    PROVE  /\ F[d] \in PlaceBytes(F, c) => c = d
           /\ F[d] \in SduByte => F[d] \in PlaceBytes(F, d)
           /\ \A b \in PlaceBytes(F, c) : b \in PlaceBytes(F, d) => c = d
  <1>1. d \in 0..S /\ d + 1 \in d..S /\ (d + 1) - d = 1
    OBVIOUS
  <1>2. Pos(F[d]) \in Nat /\ Pos(F[d + 1]) \in Nat /\ Pos(F[d]) < Pos(F[d + 1])
    <2>1. Pos(F[d]) \in Nat \ {0} /\ Pos(F[d + 1]) \in Nat \ {0} /\ Pos(F[d]) + 1 <= Pos(F[d + 1])
      BY <1>1, PlaceOrder
    <2> QED
      BY <2>1
  <1>3. F[d] \in PlaceBytes(F, c) => c = d
    BY <1>2, OnePlace DEF PlaceBytes, Between
  <1>4. F[d] \in SduByte => F[d] \in PlaceBytes(F, d)
    BY <1>2 DEF PlaceBytes, Between
  <1>5. ASSUME NEW b \in PlaceBytes(F, c), b \in PlaceBytes(F, d)
        PROVE  c = d
    <2>1. b \in SduByte /\ Pos(b) \in Nat
      BY SduByteIsByte, PosIn DEF PlaceBytes, Between
    <2> QED
      BY <1>5, <2>1, OnePlace DEF PlaceBytes, Between
  <1> QED
    BY <1>3, <1>4, <1>5

(* One more place, for a PDU that carries something. *)
LEMMA OneMoreRises ==
    ASSUME NEW F, NEW S \in Nat, PlacesRise(F, S), NEW e, IsByte(e), Pos(F[S]) < Pos(e)
    PROVE  PlacesRise(OneMore(F, S, e), S + 1)
  <1> PICK G : G = OneMore(F, S, e)
    OBVIOUS
  <1>1. (\A c \in 0..S : G[c] = F[c]) /\ G[S + 1] = e
    BY DEF OneMore
  <1>2. \A c \in 0..(S + 1) : IsByte(G[c])
    BY <1>1 DEF PlacesRise
  <1>3. ASSUME NEW c \in 0..(S + 1), NEW d \in c..(S + 1)
        PROVE  Pos(G[c]) + (d - c) <= Pos(G[d])
    <2>1. CASE d # S + 1
      <3>1. c \in 0..S /\ d \in c..S /\ d \in 0..S
        BY <2>1
      <3>2. Pos(F[c]) + (d - c) <= Pos(F[d])
        BY <3>1 DEF PlacesRise
      <3> QED
        BY <1>1, <3>1, <3>2
    <2>2. CASE d = S + 1 /\ c = S + 1
      <3>1. Pos(G[d]) \in Nat /\ Pos(G[c]) = Pos(G[d]) /\ d - c = 0
        BY <1>1, <2>2, PosIn
      <3> QED
        BY <3>1
    <2>3. CASE d = S + 1 /\ c # S + 1
      <3>1. c \in 0..S /\ S \in c..S /\ S - c \in Nat /\ d - c = (S - c) + 1
        BY <2>3
      <3>2. Pos(F[c]) \in Nat /\ Pos(F[S]) \in Nat /\ Pos(F[c]) + (S - c) <= Pos(F[S])
        BY <3>1, PlaceOrder
      <3>3. Pos(e) \in Nat
        BY PosIn
      <3>4. Pos(F[c]) + ((S - c) + 1) <= Pos(e)
        BY <3>1, <3>2, <3>3
      <3> QED
        BY <1>1, <2>3, <3>1, <3>4
    <2> QED
      BY <2>1, <2>2, <2>3
  <1>4. PlacesRise(G, S + 1)
    BY <1>2, <1>3 DEF PlacesRise
  <1> QED
    BY <1>4

\* The PDU at place d carries bytes of SDU id.
CarriesOf(F, d, id) ==
    F[d][1] <= id /\ (id < F[d + 1][1] \/ (F[d + 1][1] = id /\ F[d + 1][2] > 1))

\* All that the PDUs below place x carry of SDU id has arrived.
AllOf(F, A, id, x) == \A d \in 0..(x - 1) : CarriesOf(F, d, id) => F[d] \in A

(* Of what ends at a place missing nothing could be out. *)
LEMMA MissingCarries ==
    ASSUME NEW F, NEW S \in Nat, PlacesRise(F, S), NEW x \in 0..(S - 1), NEW A, F[x] \notin A
    PROVE  /\ \A id \in F[x][1]..(F[x + 1][1] - 1) : ~AllOf(F, A, id, x + 1)
           /\ F[x + 1][2] > 1 => ~AllOf(F, A, F[x + 1][1], x + 1)
  <1>1. F[x][1] \in Nat \ {0} /\ F[x + 1][1] \in Nat \ {0} /\ F[x][1] <= F[x + 1][1]
    <2>1. x \in 0..S /\ x + 1 \in x..S
      OBVIOUS
    <2> QED
      BY <2>1, PlaceOrder
  <1>2. x \in 0..((x + 1) - 1)
    OBVIOUS
  <1>3. ASSUME NEW id \in F[x][1]..(F[x + 1][1] - 1)
        PROVE  CarriesOf(F, x, id)
    BY <1>1 DEF CarriesOf
  <1>4. F[x + 1][2] > 1 => CarriesOf(F, x, F[x + 1][1])
    BY <1>1 DEF CarriesOf
  <1> QED
    BY <1>2, <1>3, <1>4 DEF AllOf


(* M places from place c on carry M bytes that follow the SDUs before that place. *)
LEMMA FarEnough ==
    ASSUME NEW F, NEW S \in Nat, PlacesRise(F, S), NEW M \in Nat, NEW c \in 1..S, NEW y \in c..S, c + M <= y + 1,
           NEW n \in Nat, n < F[c][1]
    PROVE  (F[y][1] - n) * SduLen >= M
  <1>1. /\ IsByte(F[c]) /\ IsByte(F[y]) /\ Pos(F[c]) \in Nat /\ Pos(F[y]) \in Nat
        /\ Pos(F[c]) + (y - c) <= Pos(F[y]) /\ F[c][1] \in Nat \ {0} /\ F[y][1] \in Nat \ {0}
        /\ F[c][1] <= F[y][1]
    <2>1. c \in 0..S
      OBVIOUS
    <2> QED
      BY <2>1, PlaceOrder
  <1> PICK a, b, k : a = F[c][1] - 1 /\ b = F[y][1] /\ k = SduLen
    OBVIOUS
  <1>2. k \in Nat /\ a \in Nat /\ b \in Nat /\ n <= a /\ n <= b /\ b - n \in Nat
    BY <1>1, SduAssumption
  <1>3. n * k \in Nat /\ a * k \in Nat /\ n * k <= a * k
    BY <1>2, Multiples
  <1>4. a * k + 1 <= Pos(F[c]) /\ Pos(F[y]) <= b * k /\ b * k \in Nat
    BY <1>1, PosIn
  <1>5. n * k + M <= b * k
    <2>a. y \in Nat /\ c \in Nat /\ c <= y
      OBVIOUS
    <2>1. M <= (y - c) + 1 /\ y - c \in Nat
      BY <1>2, <2>a
    <2> QED
      BY <1>1, <1>2, <1>3, <1>4, <2>1
  <1>6. b * k = n * k + (b - n) * k /\ (b - n) * k \in Nat
    BY <1>2, MultiplesDiffer
  <1>7. (b - n) * k >= M
    BY <1>2, <1>3, <1>5, <1>6
  <1> QED
    BY <1>7

-----------------------------------------------------------------------------
(* Which SDUs are handed over *)

\* The SDUs that out holds.
Ids(out) == {out[i][1][1] : i \in 1..Len(out)}

\* out2 goes on from out, with SDUs from x on.
GoesOn(out, out2, x) == Ids(out) \subseteq Ids(out2) /\ \A n \in Ids(out2) : n \in Ids(out) \/ x <= n

LEMMA IdsAppend ==
    ASSUME NEW out \in Seq(Seq(SduByte)), NEW id \in 1..MaxSdus
    PROVE  Ids(Append(out, SduBytes(id))) = Ids(out) \cup {id}
  <1>1. SduBytes(id) \in Seq(SduByte) /\ SduBytes(id)[1][1] = id
    BY PieceIsSdu
  <1>a. PICK n : n = Len(out)
    OBVIOUS
  <1>b. PICK new : new = Append(out, SduBytes(id))
    OBVIOUS
  <1>2. /\ n \in Nat /\ Len(new) = n + 1 /\ new[n + 1] = SduBytes(id)
        /\ \A i \in 1..n : new[i] = out[i]
    BY <1>1, <1>a, <1>b, AppendProperties, LenProperties
  <1>3. ASSUME NEW x
        PROVE  x \in Ids(new) <=> x \in Ids(out) \/ x = id
    <2>1. x \in Ids(new) <=> \E i \in 1..(n + 1) : x = new[i][1][1]
      BY <1>2 DEF Ids
    <2>2. x \in Ids(out) <=> \E i \in 1..n : x = out[i][1][1]
      BY <1>a DEF Ids
    <2>3. (\E i \in 1..(n + 1) : x = new[i][1][1])
             <=> (\E i \in 1..n : x = new[i][1][1]) \/ x = new[n + 1][1][1]
      BY <1>2
    <2>4. (\E i \in 1..n : x = new[i][1][1]) <=> \E i \in 1..n : x = out[i][1][1]
      BY <1>2
    <2> QED
      BY <1>1, <1>2, <2>1, <2>2, <2>3, <2>4
  <1> QED
    BY <1>3, <1>b

(* What is reassembled before a byte tells which byte that is. *)
LEMMA PartTells ==
    ASSUME NEW e \in SduByte, NEW d \in SduByte
    PROVE  /\ e[2] # 1 => Part(e) # << >>
           /\ e[2] # 1 /\ Part(e) = Part(d) => e = d
  <1>1. /\ e[1] \in 1..MaxSdus /\ e[2] \in 1..SduLen /\ d[1] \in 1..MaxSdus /\ d[2] \in 1..SduLen
        /\ e = <<e[1], e[2]>> /\ d = <<d[1], d[2]>> /\ SduLen \in Nat
    BY SduByteIsByte, SduAssumption
  <1> PICK p, q : p = Part(e) /\ q = Part(d)
    OBVIOUS
  <1>2. /\ Len(p) = e[2] - 1 /\ \A i \in 1..(e[2] - 1) : p[i] = <<e[1], 1 + i - 1>>
    <2>1. 1 \in 1..SduLen /\ e[2] - 1 \in 0..SduLen /\ 1 <= (e[2] - 1) + 1 /\ (e[2] - 1) - 1 + 1 = e[2] - 1
      BY <1>1
    <2> QED
      BY <1>1, <2>1, PieceType DEF Part
  <1>3. /\ Len(q) = d[2] - 1 /\ \A i \in 1..(d[2] - 1) : q[i] = <<d[1], 1 + i - 1>>
    <2>1. 1 \in 1..SduLen /\ d[2] - 1 \in 0..SduLen /\ 1 <= (d[2] - 1) + 1 /\ (d[2] - 1) - 1 + 1 = d[2] - 1
      BY <1>1
    <2> QED
      BY <1>1, <2>1, PieceType DEF Part
  <1>4. e[2] # 1 => p # << >>
    BY <1>1, <1>2, EmptySeq
  <1>5. ASSUME e[2] # 1, p = q
        PROVE  e = d
    <2>1. e[2] = d[2] /\ 1 \in 1..(e[2] - 1) /\ 1 \in 1..(d[2] - 1)
      BY <1>1, <1>2, <1>3, <1>5
    <2>2. p[1] = <<e[1], 1 + 1 - 1>> /\ q[1] = <<d[1], 1 + 1 - 1>>
      BY <1>2, <1>3, <2>1
    <2>3. e[1] = d[1]
      BY <1>5, <2>2
    <2> QED
      BY <1>1, <2>1, <2>3
  <1> QED
    BY <1>4, <1>5

(* SDUs handed over are of the places they come from. *)
LEMMA IdsHanded ==
    ASSUME NEW lo \in Nat, NEW hi \in Nat, NEW out, Handed(out, lo, hi)
    PROVE  \A n \in Ids(out) : n \in Nat /\ lo <= n /\ n < hi
  <1> SUFFICES ASSUME NEW n \in Ids(out) PROVE n \in Nat /\ lo <= n /\ n < hi
    OBVIOUS
  <1>1. PICK i \in 1..Len(out) : n = out[i][1][1]
    BY DEF Ids
  <1>2. n \in lo..(hi - 1)
    BY <1>1 DEF Handed
  <1> QED
    BY <1>2

(* Ascending places are as many as there is room for. *)
LEMMA AscendingFit ==
    ASSUME NEW n \in Nat, NEW p \in [1..n -> Nat \ {0}], \A i \in 1..n, j \in 1..n : i < j => p[i] < p[j]
    PROVE  \A i \in 1..n : i <= p[i]
  <1> DEFINE T == {i \in 1..n : i <= p[i]}
  <1>1. n > 0 => 1 \in T
    <2> SUFFICES ASSUME n > 0 PROVE 1 \in T
      OBVIOUS
    <2>1. 1 \in 1..n
      OBVIOUS
    <2>2. p[1] \in Nat \ {0}
      BY <2>1
    <2> QED
      BY <2>1, <2>2
  <1>2. ASSUME NEW i \in 1..(n - 1), i \in T PROVE i + 1 \in T
    <2>1. i \in 1..n /\ i + 1 \in 1..n /\ i < i + 1
      OBVIOUS
    <2>2. p[i] \in Nat /\ p[i + 1] \in Nat /\ p[i] < p[i + 1] /\ i <= p[i]
      BY <1>2, <2>1
    <2> QED
      BY <2>1, <2>2
  <1>3. \A i \in 1..n : i \in T
    <2> HIDE DEF T
    <2> QED
      BY <1>1, <1>2, UpTo
  <1> QED
    BY <1>3
==============================================================================
