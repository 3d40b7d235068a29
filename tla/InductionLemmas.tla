--------------------------- MODULE InductionLemmas ---------------------------
(***************************************************************************)
(* Induction over natural numbers and recursive definitions over an        *)
(* interval, stated about sets and functions: a set of numbers stands for  *)
(* the predicate and a function for the recursion step. The proofs about   *)
(* what recursive definitions of the model compute rest on these lemmas.   *)
(***************************************************************************)
EXTENDS Naturals, FiniteSets, FiniteSetTheorems, TLAPS

\* A nonempty set of numbers has a least element: strict inclusion is well
\* founded on the finite sets 1 .. n.
LEMMA LeastNumber ==
  ASSUME NEW T \in SUBSET Nat, T # {}
  PROVE  \E m \in T : \A j \in T : m <= j
<1> DEFINE I == {1 .. n : n \in T}
           R == StrictSubsetOrdering(Nat)
<1>1. I \subseteq FiniteSubsetsOf(Nat) /\ I # {}
  <2>1. \A n \in T : IsFiniteSet(1 .. n) /\ 1 .. n \in SUBSET Nat
    BY FS_Interval
  <2> QED BY <2>1 DEF FiniteSubsetsOf
<1>2. \E x \in I : \A y \in I : ~(<<y, x>> \in R)
  <2> HIDE DEF I
  <2> QED BY <1>1, FS_StrictSubsetOrderingWellFounded, WFMin
<1>3. PICK m \in T : \A j \in T : ~(<<1 .. j, 1 .. m>> \in R)
  BY <1>2
<1>4. ASSUME NEW j \in T PROVE m <= j
  <2> SUFFICES ASSUME j < m PROVE FALSE
    OBVIOUS
  <2>1. 1 .. j \in SUBSET Nat /\ 1 .. m \in SUBSET Nat
    OBVIOUS
  <2>2. 1 .. j \subseteq 1 .. m /\ m \in 1 .. m /\ m \notin 1 .. j
    OBVIOUS
  <2>3. <<1 .. j, 1 .. m>> \in R
    BY <2>1, <2>2 DEF StrictSubsetOrdering
  <2> QED BY <1>3, <2>3
<1> QED BY <1>4

\* What holds of a and of the successor of each number it holds of, up to b,
\* holds from a to b.
LEMMA IntervalInduction ==
  ASSUME NEW P, NEW a \in Nat, NEW b \in Nat,
         a \in P,
         \A k \in a .. b - 1 : k \in P => k + 1 \in P
  PROVE  \A k \in a .. b : k \in P
<1> DEFINE T == {k \in a .. b : k \notin P}
<1> SUFFICES ASSUME T # {} PROVE FALSE
  OBVIOUS
<1>1. T \in SUBSET Nat
  OBVIOUS
<1>2. PICK m \in T : \A j \in T : m <= j
  <2> HIDE DEF T
  <2> QED BY <1>1, LeastNumber
<1>3. m # a /\ m - 1 \in a .. b - 1 /\ m - 1 \notin T /\ m - 1 + 1 = m
  BY <1>2
<1> QED BY <1>2, <1>3

\* The recursion over 1 .. n that begins with b and whose step F takes the index
\* and the value before.
RecursionOf(g, n, b, F) ==
  \A k \in 1 .. n : g[k] = IF k = 1 THEN b ELSE F[<<k, g[k - 1]>>]

\* There is a function with such a recursion.
LEMMA RecursionExists ==
  ASSUME NEW S, NEW b \in S, NEW F \in [Nat \X S -> S], NEW n \in Nat
  PROVE  \E g \in [1 .. n -> S] : RecursionOf(g, n, b, F)
<1> DEFINE Defines(g, m) ==
             \A k \in 1 .. m : g[k] = IF k = 1 THEN b ELSE F[<<k, g[k - 1]>>]
           P == {m \in 0 .. n : \E g \in [1 .. m -> S] : Defines(g, m)}
<1>1. 0 \in P
  <2>1. PICK g : g \in [1 .. 0 -> S]
    <3>1. [k \in 1 .. 0 |-> b] \in [1 .. 0 -> S]
      OBVIOUS
    <3> QED BY <3>1
  <2>2. Defines(g, 0)
    OBVIOUS
  <2> HIDE DEF Defines
  <2>3. \E f \in [1 .. 0 -> S] : Defines(f, 0)
    BY <2>1, <2>2
  <2>4. 0 \in 0 .. n
    OBVIOUS
  <2> QED BY <2>3, <2>4, Zenon
<1>2. ASSUME NEW m \in 0 .. n - 1, m \in P PROVE m + 1 \in P
  <2>1. PICK g \in [1 .. m -> S] : Defines(g, m)
    BY <1>2
  <2> DEFINE x == IF m = 0 THEN b ELSE F[<<m + 1, g[m]>>]
             h == [k \in 1 .. m + 1 |-> IF k = m + 1 THEN x ELSE g[k]]
  <2>2. x \in S
    <3>1. CASE m = 0
      BY <3>1
    <3>2. CASE m # 0
      <4>1. g[m] \in S /\ <<m + 1, g[m]>> \in Nat \X S
        BY <3>2
      <4>2. F[<<m + 1, g[m]>>] \in S
        BY <4>1
      <4> QED BY <3>2, <4>2
    <3> QED BY <3>1, <3>2
  <2>3. /\ h \in [1 .. m + 1 -> S] /\ h[m + 1] = x
        /\ \A k \in 1 .. m : h[k] = g[k]
    <3> HIDE DEF x
    <3> QED BY <2>2
  <2> HIDE DEF h
  <2>4. \A k \in 1 .. m : h[k] = IF k = 1 THEN b ELSE F[<<k, h[k - 1]>>]
    <3>1. ASSUME NEW k \in 1 .. m, k # 1 PROVE h[k - 1] = g[k - 1]
      BY <2>3, <3>1
    <3> QED BY <2>1, <2>3, <3>1
  <2>5. h[m + 1] = IF m + 1 = 1 THEN b ELSE F[<<m + 1, h[m + 1 - 1]>>]
    <3>1. CASE m = 0
      BY <2>3, <3>1
    <3>2. CASE m # 0
      <4>1. m + 1 - 1 = m /\ m \in 1 .. m /\ m + 1 # 1
        BY <3>2
      <4> QED BY <2>3, <3>2, <4>1
    <3> QED BY <3>1, <3>2
  <2>6. Defines(h, m + 1)
    <3>1. SUFFICES ASSUME NEW k \in 1 .. m + 1
                   PROVE  h[k] = IF k = 1 THEN b ELSE F[<<k, h[k - 1]>>]
      OBVIOUS
    <3>2. CASE k \in 1 .. m
      BY <2>4, <3>2
    <3>3. CASE k = m + 1
      BY <2>5, <3>3
    <3>4. k \in 1 .. m \/ k = m + 1
      OBVIOUS
    <3> QED BY <3>2, <3>3, <3>4
  <2> HIDE DEF Defines
  <2>7. m + 1 \in 0 .. n
    OBVIOUS
  <2> QED BY <2>3, <2>6, <2>7
<1>3. n \in P
  <2> HIDE DEF P
  <2> QED BY <1>1, <1>2, IntervalInduction
<1> QED BY <1>3 DEF RecursionOf

\* Two such recursions agree as far as both go.
LEMMA RecursionUnique ==
  ASSUME NEW b, NEW F, NEW f, NEW h, NEW n \in Nat, NEW m \in Nat, n <= m,
         RecursionOf(f, n, b, F), RecursionOf(h, m, b, F)
  PROVE  \A k \in 1 .. n : f[k] = h[k]
<1> DEFINE P == {k \in 1 .. n : f[k] = h[k]}
<1>1. \A k \in 1 .. n : k \in 1 .. m
  OBVIOUS
<1>2. ASSUME 1 <= n PROVE 1 \in P
  <2>1. 1 \in 1 .. n /\ 1 \in 1 .. m
    BY <1>2
  <2>2. f[1] = b /\ h[1] = b
    BY <2>1 DEF RecursionOf
  <2> QED BY <2>1, <2>2
<1>3. ASSUME NEW k \in 1 .. n - 1, k \in P PROVE k + 1 \in P
  <2>1. k + 1 \in 1 .. n /\ k + 1 \in 1 .. m /\ k + 1 # 1 /\ (k + 1) - 1 = k
    BY <1>1
  <2>2. f[k + 1] = F[<<k + 1, f[k]>>] /\ h[k + 1] = F[<<k + 1, h[k]>>]
    BY <2>1 DEF RecursionOf
  <2>3. f[k + 1] = h[k + 1]
    BY <1>3, <2>2
  <2> QED BY <2>1, <2>3
<1> QED
  <2> SUFFICES ASSUME NEW k \in 1 .. n PROVE k \in P
    OBVIOUS
  <2>1. 1 <= n /\ 1 \in Nat
    OBVIOUS
  <2> HIDE DEF P
  <2> QED BY <1>2, <1>3, <2>1, IntervalInduction

\* A recursion that never ends.
LEMMA EndlessRecursion ==
  ASSUME NEW S, NEW b \in S, NEW F \in [Nat \X S -> S]
  PROVE  \E g \in [Nat \ {0} -> S] :
           g[1] = b /\ \A k \in Nat \ {0} : g[k + 1] = F[<<k + 1, g[k]>>]
<1> DEFINE Upto(n) == CHOOSE f \in [1 .. n -> S] : RecursionOf(f, n, b, F)
           g == [n \in Nat \ {0} |-> Upto(n)[n]]
<1>1. ASSUME NEW n \in Nat
      PROVE  Upto(n) \in [1 .. n -> S] /\ RecursionOf(Upto(n), n, b, F)
  BY RecursionExists
<1> HIDE DEF Upto
<1>2. g \in [Nat \ {0} -> S]
  <2>1. \A n \in Nat \ {0} : Upto(n)[n] \in S
    BY <1>1
  <2> QED BY <2>1
<1>3. g[1] = b
  <2>1. RecursionOf(Upto(1), 1, b, F)
    BY <1>1
  <2>2. 1 \in 1 .. 1
    OBVIOUS
  <2>3. Upto(1)[1] = b
    BY <2>1, <2>2 DEF RecursionOf
  <2> QED BY <2>3
<1>4. ASSUME NEW k \in Nat \ {0} PROVE g[k + 1] = F[<<k + 1, g[k]>>]
  <2>1. k \in 1 .. k /\ k + 1 \in 1 .. k + 1 /\ k + 1 # 1 /\ (k + 1) - 1 = k
        /\ k \in Nat /\ k + 1 \in Nat /\ k <= k + 1
    OBVIOUS
  <2>2. Upto(k + 1)[k + 1] = F[<<k + 1, Upto(k + 1)[k]>>]
    <3>1. RecursionOf(Upto(k + 1), k + 1, b, F)
      BY <1>1, <2>1
    <3> QED BY <2>1, <3>1 DEF RecursionOf
  <2>3. Upto(k)[k] = Upto(k + 1)[k]
    <3>1. RecursionOf(Upto(k + 1), k + 1, b, F) /\ RecursionOf(Upto(k), k, b, F)
      BY <1>1, <2>1
    <3>2. \A j \in 1 .. k : Upto(k)[j] = Upto(k + 1)[j]
      BY <2>1, <3>1, RecursionUnique
    <3> QED BY <2>1, <3>2
  <2> QED BY <2>1, <2>2, <2>3
<1> HIDE DEF g
<1> QED BY <1>2, <1>3, <1>4
=============================================================================
