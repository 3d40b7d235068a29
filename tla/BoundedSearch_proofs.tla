------------------------ MODULE BoundedSearch_proofs ------------------------
(***************************************************************************)
(* The depth-first search with bounded unrolling, for every program and    *)
(* every pattern of unanswered queries: the loop counters follow the path, *)
(* which bounds the recursion, UNSAFE names a path with a model, and SAFE  *)
(* is the verdict of a search that left nothing out.                       *)
(***************************************************************************)
EXTENDS BoundedSearch, FiniteSetTheorems, SequenceTheorems, TLAPS

-----------------------------------------------------------------------------
\* The positions of a block on a path.
Positions(s, l) == {i \in DOMAIN s : s[i] = l}

\* There are finitely many of them, and one more when the block is appended.
LEMMA PositionsAppend ==
  ASSUME NEW s \in Seq(Loc), NEW b \in Loc, NEW l
  PROVE  /\ Cardinality(Positions(s, l)) \in Nat
         /\ Cardinality(Positions(Append(s, b), l)) =
              IF l = b THEN Cardinality(Positions(s, l)) + 1
              ELSE Cardinality(Positions(s, l))
<1>1. IsFiniteSet(Positions(s, l)) /\ Len(s) + 1 \notin Positions(s, l)
  <2>1. Len(s) \in Nat /\ DOMAIN s = 1 .. Len(s)
    OBVIOUS
  <2>2. IsFiniteSet(1 .. Len(s))
    BY <2>1, FS_Interval
  <2> QED BY <2>1, <2>2, FS_Subset DEF Positions
<1>2. Cardinality(Positions(s, l)) \in Nat
  BY <1>1, FS_CardinalityType
<1>3. Positions(Append(s, b), l) =
        IF l = b THEN Positions(s, l) \cup {Len(s) + 1} ELSE Positions(s, l)
  BY DEF Positions
<1>4. Cardinality(Positions(s, l) \cup {Len(s) + 1})
        = Cardinality(Positions(s, l)) + 1
  BY <1>1, FS_AddElement
<1> QED BY <1>2, <1>3, <1>4

\* What Pop leaves of a path.
LEMMA PopFacts ==
  ASSUME NEW S, NEW s \in Seq(S), s # <<>>
  PROVE  /\ Pop(s) \in Seq(S) /\ Len(Pop(s)) = Len(s) - 1
         /\ \A i \in 1 .. Len(s) - 1 : Pop(s)[i] = s[i]
         /\ Len(s) \in Nat \ {0} /\ s[Len(s)] \in S
         /\ s = Append(Pop(s), s[Len(s)])
<1>1. Len(s) \in Nat \ {0}
  OBVIOUS
<1>2. /\ Pop(s) \in Seq(S) /\ Len(Pop(s)) = Len(s) - 1
      /\ \A i \in 1 .. Len(s) - 1 : Pop(s)[i] = s[i]
  <2>1. Len(s) - 1 \in Nat /\ \A i \in 1 .. Len(s) - 1 : s[i] \in S
    BY <1>1
  <2>2. SubSeq(s, 1, Len(s) - 1) = [i \in 1 .. Len(s) - 1 |-> s[i]]
    BY <1>1, <2>1
  <2>3. Pop(s) = [i \in 1 .. Len(s) - 1 |-> s[i]]
    BY <2>2 DEF Pop
  <2> QED BY <2>1, <2>3
<1>3. s = Append(Pop(s), s[Len(s)])
  BY <1>1, <1>2
<1> QED BY <1>1, <1>2, <1>3

\* A set of numbers up to n is finite and has at most n members.
LEMMA BoundedNumbers ==
  ASSUME NEW n \in Nat, NEW P, P \subseteq 1 .. n
  PROVE  IsFiniteSet(P) /\ Cardinality(P) <= n
<1>1. IsFiniteSet(1 .. n) /\ Cardinality(1 .. n) = n
  BY FS_Interval
<1>2. P \in SUBSET (1 .. n)
  OBVIOUS
<1> QED BY <1>1, <1>2, FS_Subset

\* A listing of a finite set.
LEMMA ListingFacts ==
  ASSUME NEW P, IsFiniteSet(P), NEW g \in Listings(P)
  PROVE  /\ Cardinality(P) \in Nat
         /\ DOMAIN g = 1 .. Cardinality(P) /\ Len(g) = Cardinality(P)
         /\ \A i \in 1 .. Cardinality(P) : g[i] \in P
         /\ \A p \in P : \E i \in 1 .. Cardinality(P) : g[i] = p
<1>2. Cardinality(P) \in Nat
  BY FS_CardinalityType
<1>3. /\ g \in [1 .. Cardinality(P) -> P]
      /\ \A p \in P : \E i \in 1 .. Cardinality(P) : g[i] = p
  BY DEF Listings
<1> DEFINE m == Cardinality(P)
<1>4. m \in Nat /\ g \in [1 .. m -> P]
  BY <1>2, <1>3
<1> HIDE DEF m
<1>5. DOMAIN g = 1 .. m /\ Len(g) = m /\ \A i \in 1 .. m : g[i] \in P
  BY <1>4
<1> QED BY <1>2, <1>3, <1>5 DEF m

(***************************************************************************)
(* sort keeps the choices, and remove_if, also when it is interrupted,     *)
(* removes only some whose path has no model.                              *)
(***************************************************************************)
LEMMA SortedFacts ==
  ASSUME SearchAssumption, Block \in Loc, NEW heads, NEW c \in Sorted(heads)
  PROVE  /\ c \in Seq(Loc)
         /\ \A i \in DOMAIN c : \E k \in Choices : c[i] = Succ[Block][k]
         /\ \A k \in Choices : \E i \in DOMAIN c : c[i] = Succ[Block][k]
<1> DEFINE s == Succ[Block]
           C == Choices
           m == Cardinality(C)
<1>1. s \in Seq(Loc)
  BY DEF SearchAssumption
<1>2. C \subseteq DOMAIN s
  BY DEF Choices
<1>3. PICK g \in Listings(C) : c = [i \in 1 .. m |-> s[g[i]]]
  BY DEF Sorted
<1> HIDE DEF s
<1>4. Len(s) \in Nat /\ DOMAIN s = 1 .. Len(s) /\ \A k \in DOMAIN s : s[k] \in Loc
  BY <1>1
<1>5. /\ m \in Nat
      /\ \A i \in 1 .. m : g[i] \in C
      /\ \A k \in C : \E i \in 1 .. m : g[i] = k
  <2>1. IsFiniteSet(C)
    <3>1. Len(s) \in Nat /\ C \subseteq 1 .. Len(s)
      BY <1>2, <1>4
    <3> HIDE DEF C
    <3> QED BY <3>1, BoundedNumbers
  <2>2. g \in Listings(C)
    BY <1>3
  <2> HIDE DEF C
  <2>3. /\ Cardinality(C) \in Nat
        /\ \A i \in 1 .. Cardinality(C) : g[i] \in C
        /\ \A k \in C : \E i \in 1 .. Cardinality(C) : g[i] = k
    BY <2>1, <2>2, ListingFacts
  <2> QED BY <2>3
<1> HIDE DEF C, m
<1>6. \A i \in 1 .. m : s[g[i]] \in Loc
  BY <1>2, <1>4, <1>5
<1>7. c \in Seq(Loc) /\ DOMAIN c = 1 .. m /\ \A i \in 1 .. m : c[i] = s[g[i]]
  BY <1>3, <1>5, <1>6
<1>8. \A i \in DOMAIN c : \E k \in C : c[i] = s[k]
  BY <1>5, <1>7
<1>9. ASSUME NEW k \in C PROVE \E i \in DOMAIN c : c[i] = s[k]
  <2>1. PICK i \in 1 .. m : g[i] = k
    BY <1>5
  <2> QED BY <1>7, <2>1
<1> QED BY <1>7, <1>8, <1>9 DEF s, C

LEMMA FilteredFacts ==
  ASSUME NEW p, NEW c \in Seq(Loc), NEW next \in Filtered(p, c), MayFail \in BOOLEAN
  PROVE  /\ next \in Seq(Loc)
         /\ \A i \in DOMAIN next : \E k \in DOMAIN c : next[i] = c[k]
         /\ \A k \in DOMAIN c : Satisfiable(Append(p, c[k])) =>
              \E i \in DOMAIN next : next[i] = c[k]
<1> DEFINE n == Len(c)
<1>1. n \in Nat /\ DOMAIN c = 1 .. n /\ \A i \in 1 .. n : c[i] \in Loc
  OBVIOUS
<1>2. CASE n < 2
  <2>1. next = c
    BY <1>2 DEF Filtered
  <2> QED BY <2>1
<1>3. CASE ~(n < 2)
  <2>1. PICK j \in 1 .. n + 1, R \in SUBSET Refuted(p, c) :
          next \in RemovedBefore(c, j, R)
    <3>1. CASE MayFail
      <4>1. next \in UNION {RemovedBefore(c, j, R) :
                              j \in 1 .. n + 1, R \in SUBSET Refuted(p, c)}
        BY <1>3, <3>1 DEF Filtered
      <4> QED BY <4>1
    <3>2. CASE ~MayFail
      <4>1. n + 1 \in 1 .. n + 1 /\ Refuted(p, c) \in SUBSET Refuted(p, c)
        BY <1>1
      <4>2. next \in RemovedBefore(c, n + 1, Refuted(p, c))
        BY <1>3, <3>2 DEF Filtered
      <4> QED BY <4>1, <4>2
    <3> QED BY <3>1, <3>2
  <2> DEFINE P == (1 .. j - 1) \ R
             m == Cardinality(P)
  <2>2. PICK f \in Ascending(P) : next = Kept(c, f) \o Rest(c, j, Len(f))
    BY <2>1 DEF RemovedBefore
  <2>3. j - 1 \in Nat /\ j - 1 <= n /\ P \subseteq 1 .. j - 1 /\ P \subseteq 1 .. n
    BY <1>1, <2>1
  <2>4. f \in Listings(P)
    BY <2>2 DEF Ascending
  <2>5. /\ m \in Nat /\ m <= j - 1
        /\ DOMAIN f = 1 .. m /\ Len(f) = m
        /\ \A i \in 1 .. m : f[i] \in P
        /\ \A q \in P : \E i \in 1 .. m : f[i] = q
    <3>1. IsFiniteSet(P) /\ Cardinality(P) <= j - 1
      <4> HIDE DEF P
      <4> QED BY <2>3, BoundedNumbers
    <3> HIDE DEF P
    <3>2. /\ Cardinality(P) \in Nat
          /\ DOMAIN f = 1 .. Cardinality(P) /\ Len(f) = Cardinality(P)
          /\ \A i \in 1 .. Cardinality(P) : f[i] \in P
          /\ \A x \in P : \E i \in 1 .. Cardinality(P) : f[i] = x
      BY <2>4, <3>1, ListingFacts
    <3> QED BY <3>1, <3>2
  <2> DEFINE K == Kept(c, f)
             S == Rest(c, j, m)
  <2>6. next = K \o S
    BY <2>2, <2>5
  <2>7. \A q \in 1 .. j - 1 : q \notin R => q \in P
    OBVIOUS
  <2> HIDE DEF P, m, n
  <2>8. /\ K \in Seq(Loc) /\ Len(K) = m
        /\ \A i \in 1 .. m : K[i] = c[f[i]] /\ f[i] \in 1 .. n
    <3>1. \A i \in 1 .. m : f[i] \in 1 .. n
      BY <2>3, <2>5
    <3>2. K = [i \in 1 .. m |-> c[f[i]]]
      BY <2>5 DEF Kept
    <3>3. \A i \in 1 .. m : c[f[i]] \in Loc
      BY <1>1, <3>1
    <3> HIDE DEF K
    <3> QED BY <2>5, <3>1, <3>2, <3>3
  <2>9. S \in Seq(Loc) /\ Len(S) \in Nat
    <3>1. CASE j \in DOMAIN c
      <4>1. S = SubSeq(c, m + 1, n)
        BY <3>1 DEF Rest, n
      <4> HIDE DEF S
      <4> QED BY <1>1, <2>3, <2>5, <3>1, <4>1
    <3>2. CASE j \notin DOMAIN c
      <4>1. S = <<>>
        BY <3>2 DEF Rest
      <4> QED BY <4>1
    <3> QED BY <3>1, <3>2
  <2>10. IF j \in DOMAIN c
           THEN /\ Len(S) = n - m
                /\ \A i \in 1 .. n - m : S[i] = c[m + i]
           ELSE Len(S) = 0
    <3>1. CASE j \in DOMAIN c
      <4>1. S = SubSeq(c, m + 1, n)
        BY <3>1 DEF Rest, n
      <4>2. m \in Nat /\ m + 1 <= n /\ n \in Nat
        BY <1>1, <2>1, <2>5, <3>1
      <4> HIDE DEF S
      <4>3. Len(S) = n - m /\ \A i \in 1 .. n - m : S[i] = c[(m + 1) + i - 1]
        BY <4>1, <4>2 DEF n
      <4>4. \A i \in 1 .. n - m : (m + 1) + i - 1 = m + i
        BY <4>2
      <4> QED BY <3>1, <4>3, <4>4
    <3>2. CASE j \notin DOMAIN c
      <4>1. S = <<>>
        BY <3>2 DEF Rest
      <4> QED BY <3>2, <4>1
    <3> QED BY <3>1, <3>2
  <2> HIDE DEF K, S
  <2>11. /\ next \in Seq(Loc) /\ DOMAIN next = 1 .. m + Len(S)
         /\ \A i \in 1 .. m : next[i] = K[i]
         /\ \A i \in 1 .. Len(S) : next[m + i] = S[i]
    <3>1. K \in Seq(Loc) /\ S \in Seq(Loc)
      BY <2>8, <2>9
    <3>2. /\ K \o S \in Seq(Loc) /\ Len(K \o S) = m + Len(S)
          /\ \A i \in 1 .. m + Len(S) :
               (K \o S)[i] = IF i <= m THEN K[i] ELSE S[i - m]
      BY <2>8, <3>1, ConcatProperties
    <3>3. \A i \in 1 .. Len(S) : m + i \in 1 .. m + Len(S) /\ ~(m + i <= m) /\ (m + i) - m = i
      BY <2>5, <2>9
    <3>4. \A i \in 1 .. m : i \in 1 .. m + Len(S) /\ i <= m
      BY <2>5, <2>9
    <3> QED BY <2>6, <3>2, <3>3, <3>4
  <2>12. ASSUME NEW i \in DOMAIN next
         PROVE  \E k \in DOMAIN c : next[i] = c[k]
    <3>1. CASE i \in 1 .. m
      BY <1>1, <2>8, <2>11, <3>1
    <3>2. CASE i \notin 1 .. m
      <4>1. i - m \in 1 .. Len(S) /\ next[m + (i - m)] = S[i - m] /\ i = m + (i - m)
        BY <2>5, <2>9, <2>11, <3>2
      <4>2. j \in DOMAIN c
        BY <2>10, <4>1
      <4>3. i - m \in 1 .. n - m /\ S[i - m] = c[m + (i - m)] /\ m + (i - m) \in 1 .. n
        BY <1>1, <2>5, <2>10, <4>1, <4>2
      <4> QED BY <1>1, <4>1, <4>3
    <3> QED BY <3>1, <3>2
  <2>13. ASSUME NEW k \in DOMAIN c, Satisfiable(Append(p, c[k]))
         PROVE  \E i \in DOMAIN next : next[i] = c[k]
    <3>1. k \notin R /\ k \in 1 .. n
      BY <1>1, <2>1, <2>13 DEF Refuted
    <3>2. CASE k \in 1 .. j - 1
      <4>1. PICK i \in 1 .. m : f[i] = k
        BY <2>5, <2>7, <3>1, <3>2
      <4>2. i \in DOMAIN next /\ next[i] = K[i]
        BY <2>5, <2>9, <2>11, <4>1
      <4> QED BY <2>8, <4>1, <4>2
    <3>3. CASE k \notin 1 .. j - 1
      <4>1. j \in DOMAIN c /\ k - m \in 1 .. n - m /\ k = m + (k - m)
        BY <1>1, <2>1, <2>5, <3>1, <3>3
      <4>2. Len(S) = n - m /\ S[k - m] = c[k]
        BY <2>10, <4>1
      <4>3. k \in DOMAIN next /\ next[k] = S[k - m]
        BY <1>1, <2>5, <2>11, <3>1, <4>1, <4>2
      <4> QED BY <4>2, <4>3
    <3> QED BY <3>2, <3>3
  <2> QED BY <2>11, <2>12, <2>13
<1> QED BY <1>2, <1>3
-----------------------------------------------------------------------------
\* There is an edge of the program from a to b.
Leads(a, b) == \E k \in DOMAIN Succ[a] : Succ[a][k] = b

\* What is next after a block from which the search goes on leaves nothing out.
Searched(next) ==
  /\ Block \in Target => ~Satisfiable(Extended)
  /\ Block \notin InlineLimit
  /\ \A k \in DOMAIN Succ[Block] :
       Succ[Block][k] \notin AssumeFail /\ Satisfiable(Append(Extended, Succ[Block][k]))
         => \E i \in DOMAIN next : next[i] = Succ[Block][k]

\* What the visits have in common.
Entering(next) ==
  /\ Visiting /\ next \in Seq(Loc) /\ Enter(next)
  /\ \A i \in DOMAIN next : Leads(Block, next[i])
  /\ loopHeads' \in {Counted, Compared(Counted)}
  /\ LimitReached => next = <<>> /\ loopHeads' = Counted
  /\ \/ result' = "UNKNOWN" /\ mode' = mode
     \/ result' = result /\ mode' = mode /\ Searched(next)
     \/ mode' = "done" /\ result' \in Guess
     \/ /\ mode' = "done" /\ result' = "UNSAFE"
        /\ Block \in Target /\ Satisfiable(Extended)

\* The block visited is one of the program.
LEMMA BlockInLoc ==
  ASSUME TypeOK, Visiting
  PROVE  /\ Block \in Loc /\ Extended \in Seq(Loc)
         /\ todo[Len(path) + 1] \in Seq(Loc) /\ todo[Len(path) + 1] # <<>>
         /\ Block = todo[Len(path) + 1][1]
<1>1. Len(path) \in Nat /\ Len(todo) = Len(path) + 1
  BY DEF TypeOK
<1>2. todo[Len(path) + 1] \in Seq(Loc) /\ todo[Len(path) + 1] # <<>>
  BY <1>1 DEF TypeOK, Visiting
<1>3. Block = todo[Len(path) + 1][1] /\ Block \in Loc
  BY <1>1, <1>2 DEF Block
<1>4. Extended \in Seq(Loc)
  BY <1>3 DEF TypeOK, Extended
<1> QED BY <1>2, <1>3, <1>4

LEMMA NextCases ==
  ASSUME SearchAssumption, TypeOK, Next
  PROVE  (\E next : Entering(next)) \/ Abort \/ Backtrack \/ Finish
<1>1. ASSUME LeaveUndecided, Visiting PROVE \E next : Entering(next)
  <2>1. <<>> \in Seq(Loc) /\ \A i \in DOMAIN <<>> : Leads(Block, <<>>[i])
    OBVIOUS
  <2>2. Entering(<<>>)
    BY <1>1, <2>1 DEF LeaveUndecided, Entering
  <2> QED BY <2>2
<1>2. ASSUME NEW verdict, Break(verdict), AtError,
             verdict \in Guess \/ (verdict = "UNSAFE" /\ Satisfiable(Extended))
      PROVE  \E next : Entering(next)
  <2>1. <<>> \in Seq(Loc) /\ \A i \in DOMAIN <<>> : Leads(Block, <<>>[i])
    OBVIOUS
  <2>2. Entering(<<>>)
    BY <1>2, <2>1 DEF Break, AtError, Entering
  <2> QED BY <2>2
<1>3. CASE CutOff
  BY <1>1, <1>3 DEF CutOff
<1>4. CASE GiveUp
  BY <1>1, <1>4 DEF GiveUp
<1>5. CASE UndecidedError
  BY <1>1, <1>5 DEF UndecidedError, AtError
<1>6. CASE FindError
  BY <1>2, <1>6 DEF FindError
<1>7. CASE GuessVerdict
  BY <1>2, <1>7 DEF GuessVerdict
<1>8. CASE Explore
  <2>1. Visiting /\ ~LimitReached /\ Block \in Loc
    BY <1>8, BlockInLoc DEF Explore
  <2>2. PICK c \in Sorted(Compared(Counted)) :
          \E next \in Filtered(Extended, c) : Enter(next)
    BY <1>8 DEF Explore
  <2>3. PICK next \in Filtered(Extended, c) : Enter(next)
    BY <2>2
  <2>4. /\ c \in Seq(Loc)
        /\ \A i \in DOMAIN c : \E k \in Choices : c[i] = Succ[Block][k]
        /\ \A k \in Choices : \E i \in DOMAIN c : c[i] = Succ[Block][k]
    BY <2>1, SortedFacts
  <2>5. /\ next \in Seq(Loc)
        /\ \A i \in DOMAIN next : \E k \in DOMAIN c : next[i] = c[k]
        /\ \A k \in DOMAIN c : Satisfiable(Append(Extended, c[k])) =>
             \E i \in DOMAIN next : next[i] = c[k]
    <3>1. MayFail \in BOOLEAN
      BY DEF SearchAssumption
    <3> QED BY <2>4, <3>1, FilteredFacts
  <2>6. \A i \in DOMAIN next : Leads(Block, next[i])
    <3> SUFFICES ASSUME NEW i \in DOMAIN next PROVE Leads(Block, next[i])
      OBVIOUS
    <3>1. PICK j \in DOMAIN c : next[i] = c[j]
      BY <2>5
    <3>2. PICK k \in Choices : c[j] = Succ[Block][k]
      BY <2>4
    <3>3. k \in DOMAIN Succ[Block]
      BY DEF Choices
    <3> QED BY <3>1, <3>2, <3>3 DEF Leads
  <2>7. Searched(next)
    <3>1. /\ Block \in Target => ~Satisfiable(Extended)
          /\ Block \notin InlineLimit
      BY <1>8 DEF Explore
    <3>2. ASSUME NEW k \in DOMAIN Succ[Block], Succ[Block][k] \notin AssumeFail,
                 Satisfiable(Append(Extended, Succ[Block][k]))
          PROVE  \E i \in DOMAIN next : next[i] = Succ[Block][k]
      <4>1. k \in Choices
        BY <3>2 DEF Choices
      <4>2. PICK i \in DOMAIN c : c[i] = Succ[Block][k]
        BY <2>4, <4>1
      <4> QED BY <2>5, <3>2, <4>2
    <3> QED BY <3>1, <3>2 DEF Searched
  <2>8. loopHeads' = Compared(Counted) /\ result' = result /\ mode' = mode
    BY <1>8 DEF Explore
  <2>9. Entering(next)
    BY <2>1, <2>3, <2>5, <2>6, <2>7, <2>8 DEF Entering
  <2> QED BY <2>9
<1> QED BY <1>3, <1>4, <1>5, <1>6, <1>7, <1>8 DEF Next

(***************************************************************************)
(* The stack after a visit and after a return.                             *)
(***************************************************************************)
LEMMA EnterFacts ==
  ASSUME TypeOK, NEW next \in Seq(Loc), Visiting, Enter(next)
  PROVE  /\ Len(path) \in Nat /\ Block \in Loc
         /\ path' \in Seq(Loc) /\ Len(path') = Len(path) + 1
         /\ \A i \in 1 .. Len(path) : path'[i] = path[i]
         /\ path'[Len(path) + 1] = Block
         /\ todo' \in Seq(Seq(Loc)) /\ Len(todo') = Len(path) + 2
         /\ \A n \in 1 .. Len(path) : todo'[n] = todo[n]
         /\ todo'[Len(path) + 1] = Tail(todo[Len(path) + 1])
         /\ todo'[Len(path) + 2] = next
<1>1. /\ Len(path) \in Nat /\ path \in Seq(Loc)
      /\ todo \in Seq(Seq(Loc)) /\ Len(todo) = Len(path) + 1
  BY DEF TypeOK
<1>2. /\ Block \in Loc /\ todo[Len(path) + 1] \in Seq(Loc)
      /\ todo[Len(path) + 1] # <<>>
  BY BlockInLoc
<1>3. path' = Append(path, Block)
  BY DEF Enter, Extended
<1>4. todo' = Append([todo EXCEPT ![Len(path) + 1] = Tail(todo[Len(path) + 1])], next)
  BY <1>1 DEF Enter
<1>5. Tail(todo[Len(path) + 1]) \in Seq(Loc)
  BY <1>2
<1> DEFINE t == [todo EXCEPT ![Len(path) + 1] = Tail(todo[Len(path) + 1])]
<1>6. /\ t \in Seq(Seq(Loc)) /\ Len(t) = Len(path) + 1
      /\ \A n \in 1 .. Len(path) : t[n] = todo[n]
      /\ t[Len(path) + 1] = Tail(todo[Len(path) + 1])
  BY <1>1, <1>5
<1> HIDE DEF t
<1>7. /\ Append(t, next) \in Seq(Seq(Loc)) /\ Len(Append(t, next)) = Len(path) + 2
      /\ \A n \in 1 .. Len(path) + 1 : Append(t, next)[n] = t[n]
      /\ Append(t, next)[Len(path) + 2] = next
  BY <1>1, <1>6
<1>8. todo' = Append(t, next)
  BY <1>4 DEF t
<1>9. /\ path' \in Seq(Loc) /\ Len(path') = Len(path) + 1
      /\ \A i \in 1 .. Len(path) : path'[i] = path[i]
      /\ path'[Len(path) + 1] = Block
  BY <1>1, <1>2, <1>3
<1> QED BY <1>1, <1>2, <1>6, <1>7, <1>8, <1>9

LEMMA BacktrackFacts ==
  ASSUME TypeOK, Backtrack
  PROVE  /\ Len(path) \in Nat \ {0} /\ path[Len(path)] \in Loc
         /\ path' \in Seq(Loc) /\ Len(path') = Len(path) - 1
         /\ \A i \in 1 .. Len(path) - 1 : path'[i] = path[i]
         /\ path = Append(path', path[Len(path)])
         /\ todo' \in Seq(Seq(Loc)) /\ Len(todo') = Len(path)
         /\ \A n \in 1 .. Len(path) : todo'[n] = todo[n]
         /\ todo[Len(path) + 1] = <<>>
<1>1. /\ path \in Seq(Loc) /\ path # <<>>
      /\ todo \in Seq(Seq(Loc)) /\ Len(todo) = Len(path) + 1 /\ Len(path) \in Nat
  BY DEF TypeOK, Backtrack
<1>2. path' = Pop(path) /\ todo' = Pop(todo) /\ todo[Len(path) + 1] = <<>>
  BY <1>1 DEF Backtrack
<1>3. /\ Len(path) \in Nat \ {0} /\ path[Len(path)] \in Loc
      /\ path' \in Seq(Loc) /\ Len(path') = Len(path) - 1
      /\ \A i \in 1 .. Len(path) - 1 : path'[i] = path[i]
      /\ path = Append(path', path[Len(path)])
  BY <1>1, <1>2, PopFacts
<1>4. todo # <<>>
  BY <1>1
<1>5. /\ todo' \in Seq(Seq(Loc)) /\ Len(todo') = Len(todo) - 1
      /\ \A n \in 1 .. Len(todo) - 1 : todo'[n] = todo[n]
  BY <1>1, <1>2, <1>4, PopFacts
<1> QED BY <1>1, <1>2, <1>3, <1>5
-----------------------------------------------------------------------------
\* A verdict that ends the search has ended it.
VerdictEnds == result \in {"SAFE", "UNSAFE"} => mode = "done"

LEMMA TypeInit == SearchAssumption /\ Init => TypeOK /\ VerdictEnds
<1> SUFFICES ASSUME SearchAssumption, Init PROVE TypeOK /\ VerdictEnds
  OBVIOUS
<1>1. path = <<>> /\ todo = << <<Entry>> >> /\ <<Entry>> \in Seq(Loc)
  BY DEF Init, SearchAssumption
<1>2. path \in Seq(Loc) /\ todo \in Seq(Seq(Loc)) /\ Len(todo) = Len(path) + 1
  BY <1>1
<1>3. DOMAIN loopHeads = {}
  BY DEF Init
<1> QED BY <1>2, <1>3 DEF Init, TypeOK, VerdictEnds

\* What the counters become on a visit.
LEMMA CountedFacts ==
  ASSUME TypeOK, SearchAssumption, Visiting
  PROVE  /\ DOMAIN Counted \subseteq Loc /\ \A l \in DOMAIN Counted : Counted[l] \in Int
         /\ DOMAIN Compared(Counted) \subseteq Loc
         /\ DOMAIN Counted \subseteq DOMAIN Compared(Counted)
         /\ \A l \in DOMAIN Counted : Compared(Counted)[l] = Counted[l]
         /\ \A l \in DOMAIN Compared(Counted) \ DOMAIN Counted : Compared(Counted)[l] = 0
<1>1. Block \in Loc /\ Succ[Block] \in Seq(Loc)
  BY BlockInLoc DEF SearchAssumption
<1>2. {Succ[Block][k] : k \in Choices} \subseteq Loc
  <2>1. \A k \in DOMAIN Succ[Block] : Succ[Block][k] \in Loc
    BY <1>1
  <2> QED BY <2>1 DEF Choices
<1>3. /\ DOMAIN Counted \subseteq Loc
      /\ \A l \in DOMAIN Counted : Counted[l] \in Int
  <2>1. DOMAIN loopHeads \subseteq Loc /\ \A l \in DOMAIN loopHeads : loopHeads[l] \in Int
    BY DEF TypeOK
  <2>2. CASE Block \in DOMAIN loopHeads
    <3>1. Counted = [loopHeads EXCEPT ![Block] = @ + 1]
      BY <2>2 DEF Counted
    <3> QED BY <2>1, <2>2, <3>1
  <2>3. CASE Block \notin DOMAIN loopHeads /\ Block \in visited
    <3>1. Counted = [l \in DOMAIN loopHeads \cup {Block} |->
                       IF l = Block THEN 1 ELSE loopHeads[l]]
      BY <2>3 DEF Counted
    <3> QED BY <1>1, <2>1, <3>1
  <2>4. CASE Block \notin DOMAIN loopHeads /\ Block \notin visited
    BY <2>1, <2>4 DEF Counted
  <2> QED BY <2>2, <2>3, <2>4
<1> DEFINE S == {Succ[Block][k] : k \in Choices}
           H == Counted
<1> HIDE DEF S, H
<1>4. \/ Compared(H) = H
      \/ Compared(H) = [l \in DOMAIN H \cup S |-> IF l \in DOMAIN H THEN H[l] ELSE 0]
  BY DEF Compared, S
<1>5. /\ DOMAIN H \subseteq DOMAIN Compared(H)
      /\ DOMAIN Compared(H) \subseteq DOMAIN H \cup S
      /\ \A l \in DOMAIN H : Compared(H)[l] = H[l]
      /\ \A l \in DOMAIN Compared(H) \ DOMAIN H : Compared(H)[l] = 0
  <2>1. CASE Compared(H) = H
    BY <2>1
  <2>2. CASE Compared(H) = [l \in DOMAIN H \cup S |-> IF l \in DOMAIN H THEN H[l] ELSE 0]
    BY <2>2
  <2> QED BY <1>4, <2>1, <2>2
<1> QED BY <1>2, <1>3, <1>5 DEF H, S

LEMMA TypeStep ==
  ASSUME SearchAssumption, TypeOK, VerdictEnds, [Next]_vars
  PROVE  TypeOK' /\ VerdictEnds'
<1>1. ASSUME NEW next, Entering(next) PROVE TypeOK' /\ VerdictEnds'
  <2>1. Visiting /\ next \in Seq(Loc) /\ Enter(next) /\ Block \in Loc
    BY <1>1, BlockInLoc DEF Entering
  <2>2. path' \in Seq(Loc) /\ todo' \in Seq(Seq(Loc)) /\ Len(todo') = Len(path') + 1
    BY <2>1, EnterFacts
  <2>3. visited' \subseteq Loc /\ tree' \subseteq Seq(Loc)
    BY <2>1, BlockInLoc DEF Enter, TypeOK
  <2>4. DOMAIN loopHeads' \subseteq Loc /\ \A l \in DOMAIN loopHeads' : loopHeads'[l] \in Int
    <3>1. /\ DOMAIN Counted \subseteq Loc /\ \A l \in DOMAIN Counted : Counted[l] \in Int
          /\ DOMAIN Compared(Counted) \subseteq Loc
          /\ \A l \in DOMAIN Compared(Counted) : Compared(Counted)[l] \in Int
      BY <2>1, CountedFacts
    <3>2. CASE loopHeads' = Counted
      BY <3>1, <3>2
    <3>3. CASE loopHeads' = Compared(Counted)
      BY <3>1, <3>3
    <3> QED BY <1>1, <3>2, <3>3 DEF Entering
  <2>5. mode = "search" /\ result \in {"NULL", "UNKNOWN"}
    BY <2>1 DEF Visiting, VerdictEnds, TypeOK
  <2>6. /\ result' \in {"NULL", "SAFE", "UNSAFE", "UNKNOWN"}
        /\ mode' \in {"search", "done", "aborted"}
        /\ VerdictEnds'
    <3>1. Guess \subseteq {"SAFE", "UNSAFE"}
      BY DEF SearchAssumption
    <3>2. \/ result' = "UNKNOWN" /\ mode' = mode
          \/ result' = result /\ mode' = mode
          \/ mode' = "done" /\ result' \in {"SAFE", "UNSAFE"}
      BY <1>1, <3>1 DEF Entering
    <3> QED BY <2>5, <3>2 DEF VerdictEnds
  <2> QED BY <2>2, <2>3, <2>4, <2>6 DEF TypeOK
<1>2. CASE Abort
  BY <1>2 DEF Abort, TypeOK, VerdictEnds, Visiting
<1>3. CASE Backtrack
  <2>1. path' \in Seq(Loc) /\ todo' \in Seq(Seq(Loc)) /\ Len(todo') = Len(path') + 1
    BY <1>3, BacktrackFacts
  <2>2. /\ DOMAIN loopHeads' = DOMAIN loopHeads
        /\ \A l \in DOMAIN loopHeads : loopHeads'[l] \in Int
    BY <1>3 DEF Backtrack, TypeOK
  <2>3. UNCHANGED <<visited, result, mode, tree>>
    BY <1>3 DEF Backtrack
  <2> QED BY <2>1, <2>2, <2>3 DEF TypeOK, VerdictEnds
<1>4. CASE Finish
  BY <1>4 DEF Finish, TypeOK, VerdictEnds
<1>5. CASE UNCHANGED vars
  BY <1>5 DEF vars, TypeOK, VerdictEnds
<1> QED BY <1>1, <1>2, <1>3, <1>4, <1>5, NextCases

\* Type correctness, for every program, limit and pattern of answers.
THEOREM SearchTypeCorrect ==
  Spec => [](TypeOK /\ VerdictEnds)
<1>1. Init => TypeOK /\ VerdictEnds
  BY SearchAssumption, TypeInit
<1>2. TypeOK /\ VerdictEnds /\ [Next]_vars => (TypeOK /\ VerdictEnds)'
  BY SearchAssumption, TypeStep
<1> QED BY <1>1, <1>2, PTL DEF Spec
-----------------------------------------------------------------------------
(***************************************************************************)
(* The path follows the program, and so does what is to be visited next.   *)
(***************************************************************************)
Follows ==
  /\ \A i \in DOMAIN todo[1] : todo[1][i] = Entry
  /\ path # <<>> => path[1] = Entry
  /\ \A n \in 1 .. Len(path) : \A i \in DOMAIN todo[n + 1] : Leads(path[n], todo[n + 1][i])
  /\ \A n \in 1 .. Len(path) - 1 : Leads(path[n], path[n + 1])

RealInv == TypeOK /\ VerdictEnds /\ Follows /\ UnsafeIsReal

LEMMA FollowsEnter ==
  ASSUME TypeOK, Follows, NEW next, Entering(next)
  PROVE  Follows'
<1>1. /\ Len(path) \in Nat /\ Block \in Loc /\ next \in Seq(Loc)
      /\ path' \in Seq(Loc) /\ Len(path') = Len(path) + 1
      /\ \A i \in 1 .. Len(path) : path'[i] = path[i]
      /\ path'[Len(path) + 1] = Block
      /\ \A n \in 1 .. Len(path) : todo'[n] = todo[n]
      /\ todo'[Len(path) + 1] = Tail(todo[Len(path) + 1])
      /\ todo'[Len(path) + 2] = next
  BY EnterFacts DEF Entering
<1> DEFINE m == Len(path) + 1
           t == todo[m]
<1>2. /\ t \in Seq(Loc) /\ t # <<>> /\ Block = t[1]
      /\ \A i \in DOMAIN next : Leads(Block, next[i])
  BY BlockInLoc DEF Entering
<1>3. /\ m \in Nat \ {0} /\ Len(path') = m /\ todo'[m] = Tail(t) /\ path'[m] = Block
      /\ todo'[m + 1] = next
  BY <1>1
<1> HIDE DEF t
<1>4. 1 \in DOMAIN t /\ \A i \in DOMAIN Tail(t) : i + 1 \in DOMAIN t /\ Tail(t)[i] = t[i + 1]
  BY <1>2
<1>5. \A i \in DOMAIN todo'[1] : todo'[1][i] = Entry
  <2>1. CASE m = 1
    BY <1>3, <1>4, <2>1 DEF Follows, t
  <2>2. CASE m # 1
    BY <1>1, <2>2 DEF Follows
  <2> QED BY <2>1, <2>2
<1>6. path'[1] = Entry
  <2>1. CASE m = 1
    BY <1>2, <1>3, <1>4, <2>1 DEF Follows, t
  <2>2. CASE m # 1
    BY <1>1, <2>2 DEF Follows
  <2> QED BY <2>1, <2>2
<1>7. ASSUME NEW n \in 1 .. m, NEW i \in DOMAIN todo'[n + 1]
      PROVE  Leads(path'[n], todo'[n + 1][i])
  <2>1. CASE n = m
    BY <1>2, <1>3, <1>7, <2>1
  <2>2. CASE n = m - 1
    <3>1. n \in 1 .. Len(path) /\ path'[n] = path[n] /\ todo'[n + 1] = Tail(t) /\ n + 1 = m
      BY <1>1, <1>3, <2>2
    <3>2. Tail(t)[i] = t[i + 1] /\ i + 1 \in DOMAIN t
      BY <1>4, <1>7, <3>1
    <3>3. Leads(path[n], t[i + 1])
      BY <3>1, <3>2 DEF Follows, t
    <3> QED BY <3>1, <3>2, <3>3
  <2>3. CASE n # m /\ n # m - 1
    <3>1. n \in 1 .. Len(path) /\ n + 1 \in 1 .. Len(path)
      BY <1>1, <2>3
    <3>2. path'[n] = path[n] /\ todo'[n + 1] = todo[n + 1]
      BY <1>1, <3>1
    <3> QED BY <1>7, <3>1, <3>2 DEF Follows
  <2> QED BY <2>1, <2>2, <2>3
<1>8. ASSUME NEW n \in 1 .. m - 1
      PROVE  Leads(path'[n], path'[n + 1])
  <2>1. CASE n = m - 1
    <3>1. n \in 1 .. Len(path) /\ path'[n] = path[n] /\ path'[n + 1] = t[1] /\ n + 1 = m
      BY <1>1, <1>2, <1>3, <2>1
    <3>2. Leads(path[n], t[1])
      BY <1>4, <3>1 DEF Follows, t
    <3> QED BY <3>1, <3>2
  <2>2. CASE n # m - 1
    <3>1. n \in 1 .. Len(path) - 1 /\ n \in 1 .. Len(path) /\ n + 1 \in 1 .. Len(path)
      BY <1>1, <2>2
    <3>2. path'[n] = path[n] /\ path'[n + 1] = path[n + 1]
      BY <1>1, <3>1
    <3> QED BY <3>1, <3>2 DEF Follows
  <2> QED BY <2>1, <2>2
<1> QED BY <1>3, <1>5, <1>6, <1>7, <1>8 DEF Follows

LEMMA FollowsBacktrack ==
  ASSUME TypeOK, Follows, Backtrack
  PROVE  Follows'
<1>1. /\ Len(path) \in Nat \ {0}
      /\ path' \in Seq(Loc) /\ Len(path') = Len(path) - 1
      /\ \A i \in 1 .. Len(path) - 1 : path'[i] = path[i]
      /\ \A n \in 1 .. Len(path) : todo'[n] = todo[n]
  BY BacktrackFacts
<1>2. \A i \in DOMAIN todo'[1] : todo'[1][i] = Entry
  <2>1. todo'[1] = todo[1]
    BY <1>1
  <2> QED BY <2>1 DEF Follows
<1>3. path' # <<>> => path'[1] = Entry
  BY <1>1 DEF Follows
<1>4. ASSUME NEW n \in 1 .. Len(path')
      PROVE  /\ \A i \in DOMAIN todo'[n + 1] : Leads(path'[n], todo'[n + 1][i])
             /\ n \in 1 .. Len(path') - 1 => Leads(path'[n], path'[n + 1])
  <2>1. /\ n \in 1 .. Len(path) /\ path'[n] = path[n] /\ todo'[n + 1] = todo[n + 1]
    BY <1>1
  <2>2. n \in 1 .. Len(path') - 1 => n \in 1 .. Len(path) - 1 /\ path'[n + 1] = path[n + 1]
    BY <1>1
  <2> QED BY <2>1, <2>2 DEF Follows
<1> QED BY <1>1, <1>2, <1>3, <1>4 DEF Follows

LEMMA RealStep ==
  ASSUME SearchAssumption, RealInv, [Next]_vars
  PROVE  RealInv'
<1>1. TypeOK' /\ VerdictEnds'
  BY TypeStep DEF RealInv
<1>2. TypeOK /\ VerdictEnds /\ Follows /\ UnsafeIsReal
  BY DEF RealInv
<1>3. ASSUME NEW next, Entering(next) PROVE Follows' /\ UnsafeIsReal'
  <2>1. Follows'
    BY <1>2, <1>3, FollowsEnter
  <2>2. result # "UNSAFE"
    BY <1>2, <1>3 DEF Entering, Visiting, VerdictEnds
  <2>3. ASSUME result' = "UNSAFE", "UNSAFE" \notin Guess
        PROVE  /\ path'[1] = Entry /\ Last(path') \in Target /\ Satisfiable(path')
               /\ \A i \in 1 .. Len(path') - 1 :
                    \E k \in DOMAIN Succ[path'[i]] : Succ[path'[i]][k] = path'[i + 1]
    <3>1. Block \in Target /\ Satisfiable(Extended)
      BY <1>3, <2>2, <2>3 DEF Entering
    <3>2. path' = Extended /\ Len(path') = Len(path) + 1 /\ Len(path) \in Nat
          /\ path'[Len(path) + 1] = Block
      BY <1>2, <1>3, EnterFacts DEF Entering, Enter
    <3>3. path'[1] = Entry
      BY <2>1, <3>2 DEF Follows
    <3> QED BY <2>1, <3>1, <3>2, <3>3 DEF Follows, Leads, Last
  <2> QED BY <2>1, <2>3 DEF UnsafeIsReal
<1>4. CASE Abort
  <2>1. result # "UNSAFE"
    BY <1>2, <1>4 DEF Abort, Visiting, VerdictEnds
  <2> QED BY <1>1, <1>2, <1>4, <2>1 DEF Abort, Follows, UnsafeIsReal, RealInv
<1>5. CASE Backtrack
  <2>1. Follows'
    BY <1>2, <1>5, FollowsBacktrack
  <2>2. result' = result /\ result # "UNSAFE"
    BY <1>2, <1>5 DEF Backtrack, VerdictEnds
  <2> QED BY <1>1, <2>1, <2>2 DEF UnsafeIsReal, RealInv
<1>6. CASE Finish
  <2>1. result' # "UNSAFE"
    BY <1>2, <1>6 DEF Finish, VerdictEnds
  <2> QED BY <1>1, <1>2, <1>6, <2>1 DEF Finish, Follows, UnsafeIsReal, RealInv
<1>7. CASE UNCHANGED vars
  BY <1>1, <1>2, <1>7 DEF vars, Follows, UnsafeIsReal, RealInv
<1> QED BY <1>1, <1>2, <1>3, <1>4, <1>5, <1>6, <1>7, NextCases DEF RealInv

(***************************************************************************)
(* UNSAFE is reported for a path of the program that has a model.          *)
(***************************************************************************)
THEOREM UnsafeSearchIsReal == Spec => []UnsafeIsReal
<1>1. Init => RealInv
  <2> SUFFICES ASSUME Init PROVE RealInv
    OBVIOUS
  <2>1. TypeOK /\ VerdictEnds
    BY SearchAssumption, TypeInit
  <2>2. path = <<>> /\ todo = << <<Entry>> >> /\ result = "NULL"
    BY DEF Init
  <2>3. \A i \in DOMAIN todo[1] : todo[1][i] = Entry
    BY <2>2
  <2> QED BY <2>1, <2>2, <2>3 DEF RealInv, Follows, UnsafeIsReal
<1>2. RealInv /\ [Next]_vars => RealInv'
  BY SearchAssumption, RealStep
<1>3. RealInv => UnsafeIsReal
  BY DEF RealInv
<1> QED BY <1>1, <1>2, <1>3, PTL DEF Spec
-----------------------------------------------------------------------------
\* The counters follow the path.
CountInv == TypeOK /\ VerdictEnds /\ CountersFollowPath

LEMMA OccurrencesAre == \A l : Occurrences(l) = Cardinality(Positions(path, l))
BY DEF Occurrences, Positions

\* The counter of a block and its occurrences before and after a visit.
LEMMA CountersEnter ==
  ASSUME SearchAssumption, TypeOK, CountersFollowPath, NEW next, Entering(next)
  PROVE  CountersFollowPath'
<1>1. /\ Visiting /\ Enter(next) /\ Block \in Loc /\ path \in Seq(Loc)
      /\ path' = Append(path, Block)
  BY BlockInLoc DEF Entering, Enter, Extended, TypeOK
<1> SUFFICES ASSUME NEW l \in Loc
             PROVE  IF l \in DOMAIN loopHeads'
                      THEN loopHeads'[l] \in {Occurrences(l)' - 1, Occurrences(l)'}
                      ELSE Occurrences(l)' \in {0, IF l \in visited' THEN 1 ELSE 0}
  BY DEF CountersFollowPath
<1> DEFINE o == Occurrences(l)
           q == Occurrences(l)'
<1>2. o \in Nat /\ q = IF l = Block THEN o + 1 ELSE o
  <2>1. o = Cardinality(Positions(path, l)) /\ q = Cardinality(Positions(path', l))
    BY OccurrencesAre DEF Occurrences, Positions
  <2> QED BY <1>1, <2>1, PositionsAppend
<1>3. /\ l \in DOMAIN loopHeads => loopHeads[l] \in Int /\ loopHeads[l] \in {o - 1, o}
      /\ l \notin DOMAIN loopHeads => o \in {0, IF l \in visited THEN 1 ELSE 0}
  BY DEF CountersFollowPath, TypeOK
<1>4. visited \subseteq visited' /\ (Block \notin DOMAIN loopHeads => Block \in visited')
  BY <1>1 DEF Enter
<1> HIDE DEF o, q
<1>5. /\ l \in DOMAIN Counted => Counted[l] \in {q - 1, q}
      /\ l \notin DOMAIN Counted => q \in {0, IF l \in visited' THEN 1 ELSE 0}
  <2>1. CASE Block \in DOMAIN loopHeads
    <3>1. Counted = [loopHeads EXCEPT ![Block] = @ + 1]
      BY <2>1 DEF Counted
    <3>2. /\ DOMAIN Counted = DOMAIN loopHeads
          /\ l \in DOMAIN loopHeads =>
               Counted[l] = IF l = Block THEN loopHeads[l] + 1 ELSE loopHeads[l]
      BY <3>1
    <3> QED BY <1>2, <1>3, <1>4, <2>1, <3>2
  <2>2. CASE Block \notin DOMAIN loopHeads /\ Block \in visited
    <3>1. Counted = [x \in DOMAIN loopHeads \cup {Block} |->
                       IF x = Block THEN 1 ELSE loopHeads[x]]
      BY <2>2 DEF Counted
    <3>2. /\ DOMAIN Counted = DOMAIN loopHeads \cup {Block}
          /\ l \in DOMAIN Counted => Counted[l] = IF l = Block THEN 1 ELSE loopHeads[l]
      BY <3>1
    <3>3. CASE l = Block
      BY <1>2, <1>3, <2>2, <3>2, <3>3
    <3>4. CASE l # Block
      BY <1>2, <1>3, <1>4, <3>2, <3>4
    <3> QED BY <3>3, <3>4
  <2>3. CASE Block \notin DOMAIN loopHeads /\ Block \notin visited
    <3>1. Counted = loopHeads
      BY <2>3 DEF Counted
    <3>2. CASE l = Block
      BY <1>2, <1>3, <1>4, <2>3, <3>1, <3>2
    <3>3. CASE l # Block
      BY <1>2, <1>3, <1>4, <3>1, <3>3
    <3> QED BY <3>2, <3>3
  <2> QED BY <2>1, <2>2, <2>3
<1>6. q \in Nat
  BY <1>2
<1>7. CASE loopHeads' = Counted
  BY <1>5, <1>7 DEF q
<1>8. CASE loopHeads' = Compared(Counted)
  <2>1. /\ DOMAIN Counted \subseteq DOMAIN Compared(Counted)
        /\ l \in DOMAIN Counted => Compared(Counted)[l] = Counted[l]
        /\ l \in DOMAIN Compared(Counted) \ DOMAIN Counted => Compared(Counted)[l] = 0
    BY <1>1, CountedFacts
  <2>2. CASE l \in DOMAIN Counted
    BY <1>5, <1>8, <2>1, <2>2 DEF q
  <2>3. CASE l \in DOMAIN Compared(Counted) \ DOMAIN Counted
    BY <1>5, <1>6, <1>8, <2>1, <2>3 DEF q
  <2>4. CASE l \notin DOMAIN Compared(Counted)
    BY <1>5, <1>8, <2>1, <2>4 DEF q
  <2> QED BY <2>2, <2>3, <2>4
<1> QED BY <1>7, <1>8 DEF Entering

LEMMA CountersBacktrack ==
  ASSUME TypeOK, CountersFollowPath, Backtrack
  PROVE  CountersFollowPath'
<1> DEFINE b == path[Len(path)]
<1>1. b \in Loc /\ path' \in Seq(Loc) /\ path = Append(path', b)
  BY BacktrackFacts
<1>2. /\ loopHeads' = [x \in DOMAIN loopHeads |->
                        IF x = b THEN loopHeads[x] - 1 ELSE loopHeads[x]]
      /\ visited' = visited
  BY DEF Backtrack
<1> HIDE DEF b
<1> SUFFICES ASSUME NEW l \in Loc
             PROVE  IF l \in DOMAIN loopHeads'
                      THEN loopHeads'[l] \in {Occurrences(l)' - 1, Occurrences(l)'}
                      ELSE Occurrences(l)' \in {0, IF l \in visited' THEN 1 ELSE 0}
  BY DEF CountersFollowPath
<1> DEFINE o == Occurrences(l)
           q == Occurrences(l)'
<1>3. q \in Nat /\ o = IF l = b THEN q + 1 ELSE q
  <2>1. o = Cardinality(Positions(path, l)) /\ q = Cardinality(Positions(path', l))
    BY OccurrencesAre DEF Occurrences, Positions
  <2>2. /\ Cardinality(Positions(path', l)) \in Nat
        /\ Cardinality(Positions(Append(path', b), l)) =
             IF l = b THEN Cardinality(Positions(path', l)) + 1
             ELSE Cardinality(Positions(path', l))
    BY <1>1, PositionsAppend
  <2> QED BY <1>1, <2>1, <2>2
<1>4. /\ l \in DOMAIN loopHeads => loopHeads[l] \in Int /\ loopHeads[l] \in {o - 1, o}
      /\ l \notin DOMAIN loopHeads => o \in {0, IF l \in visited THEN 1 ELSE 0}
  BY DEF CountersFollowPath, TypeOK
<1>5. /\ DOMAIN loopHeads' = DOMAIN loopHeads
      /\ l \in DOMAIN loopHeads =>
           loopHeads'[l] = IF l = b THEN loopHeads[l] - 1 ELSE loopHeads[l]
  BY <1>2
<1> HIDE DEF o, q
<1>6. CASE l \in DOMAIN loopHeads
  <2>1. loopHeads'[l] \in {q - 1, q}
    BY <1>3, <1>4, <1>5, <1>6
  <2> QED BY <1>5, <1>6, <2>1 DEF q
<1>7. CASE l \notin DOMAIN loopHeads
  <2>1. q \in {0, IF l \in visited' THEN 1 ELSE 0}
    BY <1>2, <1>3, <1>4, <1>7
  <2> QED BY <1>5, <1>7, <2>1 DEF q
<1> QED BY <1>6, <1>7

LEMMA CountStep ==
  ASSUME SearchAssumption, CountInv, [Next]_vars
  PROVE  CountInv'
<1>1. TypeOK /\ VerdictEnds /\ CountersFollowPath /\ TypeOK' /\ VerdictEnds'
  BY TypeStep DEF CountInv
<1>2. ASSUME NEW next, Entering(next) PROVE CountersFollowPath'
  BY <1>1, <1>2, CountersEnter
<1>3. ASSUME Backtrack PROVE CountersFollowPath'
  BY <1>1, <1>3, CountersBacktrack
<1>4. ASSUME Abort \/ Finish \/ UNCHANGED vars PROVE CountersFollowPath'
  <2>1. UNCHANGED <<path, visited, loopHeads>>
    BY <1>4 DEF Abort, Finish, vars
  <2> QED BY <1>1, <2>1 DEF CountersFollowPath, Occurrences
<1>5. CountersFollowPath'
  BY <1>1, <1>2, <1>3, <1>4, NextCases
<1> QED BY <1>1, <1>5 DEF CountInv

LEMMA CountInit ==
  ASSUME SearchAssumption, Init
  PROVE  CountInv
<1>1. TypeOK /\ VerdictEnds
  BY TypeInit
<1>2. path = <<>> /\ DOMAIN loopHeads = {}
  BY DEF Init
<1>3. \A l : Occurrences(l) = 0
  BY <1>2, FS_EmptySet DEF Occurrences
<1> QED BY <1>1, <1>2, <1>3 DEF CountInv, CountersFollowPath

(***************************************************************************)
(* A loop counter is the number of times its block is on the path, or one  *)
(* less, after any sequence of visits, comparisons and returns.            *)
(***************************************************************************)
THEOREM CountersAreExact == Spec => []CountersFollowPath
<1>1. Init => CountInv
  BY SearchAssumption, CountInit
<1>2. CountInv /\ [Next]_vars => CountInv'
  BY SearchAssumption, CountStep
<1>3. CountInv => CountersFollowPath
  BY DEF CountInv
<1> QED BY <1>1, <1>2, <1>3, PTL DEF Spec
-----------------------------------------------------------------------------
(***************************************************************************)
(* A counter that is at the limit is that of the block just cut off.       *)
(***************************************************************************)
LimitKept ==
  \A l \in DOMAIN loopHeads :
    /\ loopHeads[l] <= LoopUnrollDepth
    /\ loopHeads[l] = LoopUnrollDepth =>
         path # <<>> /\ Last(path) = l /\ todo[Len(path) + 1] = <<>>

LimitInv == CountInv /\ LimitKept

LEMMA LimitEnter ==
  ASSUME SearchAssumption, TypeOK, LimitKept, NEW next, Entering(next)
  PROVE  LimitKept'
<1>1. /\ Visiting /\ next \in Seq(Loc) /\ Len(path) \in Nat
      /\ path' \in Seq(Loc) /\ Len(path') = Len(path) + 1
      /\ path'[Len(path) + 1] = Block /\ todo'[Len(path) + 2] = next
      /\ todo[Len(path) + 1] # <<>>
  BY EnterFacts, BlockInLoc DEF Entering
<1>2. /\ path' # <<>> /\ Last(path') = Block /\ todo'[Len(path') + 1] = next
  BY <1>1 DEF Last
<1>3. LoopUnrollDepth \in Nat /\ LoopUnrollDepth >= 2
  BY DEF SearchAssumption
<1>4. \A l \in DOMAIN loopHeads : loopHeads[l] \in Int /\ loopHeads[l] < LoopUnrollDepth
  BY <1>1, <1>3 DEF LimitKept, TypeOK
<1>5. ASSUME NEW l \in DOMAIN Counted
      PROVE  /\ Counted[l] \in Int /\ Counted[l] <= LoopUnrollDepth
             /\ Counted[l] = LoopUnrollDepth => l = Block /\ LimitReached
  <2>1. CASE Block \in DOMAIN loopHeads
    <3>1. Counted = [loopHeads EXCEPT ![Block] = @ + 1]
      BY <2>1 DEF Counted
    <3>2. /\ l \in DOMAIN loopHeads
          /\ Counted[l] = IF l = Block THEN loopHeads[l] + 1 ELSE loopHeads[l]
      BY <1>5, <3>1
    <3> QED BY <1>3, <1>4, <2>1, <3>2 DEF LimitReached
  <2>2. CASE Block \notin DOMAIN loopHeads /\ Block \in visited
    <3>1. Counted = [x \in DOMAIN loopHeads \cup {Block} |->
                       IF x = Block THEN 1 ELSE loopHeads[x]]
      BY <2>2 DEF Counted
    <3>2. l = Block \/ l \in DOMAIN loopHeads
      BY <1>5, <3>1
    <3>3. Counted[l] = IF l = Block THEN 1 ELSE loopHeads[l]
      BY <1>5, <3>1
    <3> QED BY <1>3, <1>4, <3>2, <3>3
  <2>3. CASE Block \notin DOMAIN loopHeads /\ Block \notin visited
    <3>1. Counted = loopHeads
      BY <2>3 DEF Counted
    <3> QED BY <1>3, <1>4, <1>5, <3>1
  <2> QED BY <2>1, <2>2, <2>3
<1>6. ASSUME NEW l \in DOMAIN loopHeads'
      PROVE  /\ loopHeads'[l] <= LoopUnrollDepth
             /\ loopHeads'[l] = LoopUnrollDepth => l = Block /\ LimitReached
  <2>1. CASE loopHeads' = Counted
    BY <1>5, <1>6, <2>1
  <2>2. CASE loopHeads' = Compared(Counted)
    <3>1. /\ l \in DOMAIN Counted => loopHeads'[l] = Counted[l]
          /\ l \notin DOMAIN Counted => loopHeads'[l] = 0
      BY <1>1, <1>6, <2>2, CountedFacts
    <3>2. CASE l \in DOMAIN Counted
      BY <1>5, <3>1, <3>2
    <3>3. CASE l \notin DOMAIN Counted
      BY <1>3, <3>1, <3>3
    <3> QED BY <3>2, <3>3
  <2> QED BY <2>1, <2>2 DEF Entering
<1>7. LimitReached => next = <<>>
  BY DEF Entering
<1> QED BY <1>2, <1>6, <1>7 DEF LimitKept

LEMMA LimitBacktrack ==
  ASSUME SearchAssumption, TypeOK, LimitKept, Backtrack
  PROVE  LimitKept'
<1>1. LoopUnrollDepth \in Nat
  BY DEF SearchAssumption
<1>2. loopHeads' = [x \in DOMAIN loopHeads |->
                      IF x = path[Len(path)] THEN loopHeads[x] - 1 ELSE loopHeads[x]]
  BY DEF Backtrack
<1>3. ASSUME NEW l \in DOMAIN loopHeads PROVE loopHeads'[l] < LoopUnrollDepth
  <2>1. loopHeads[l] \in Int /\ loopHeads[l] <= LoopUnrollDepth
    BY DEF TypeOK, LimitKept
  <2>2. CASE l = path[Len(path)]
    BY <1>1, <1>2, <2>1, <2>2
  <2>3. CASE l # path[Len(path)]
    <3>1. loopHeads[l] # LoopUnrollDepth /\ loopHeads'[l] = loopHeads[l]
      BY <1>2, <2>3 DEF LimitKept, Last
    <3> QED BY <1>1, <2>1, <3>1
  <2> QED BY <2>2, <2>3
<1>4. \A l \in DOMAIN loopHeads : loopHeads'[l] \in Int
  BY <1>2 DEF TypeOK
<1>5. DOMAIN loopHeads' = DOMAIN loopHeads
  BY <1>2
<1> QED BY <1>1, <1>3, <1>4, <1>5 DEF LimitKept

LEMMA LimitStep ==
  ASSUME SearchAssumption, LimitInv, [Next]_vars
  PROVE  LimitInv'
<1>1. TypeOK /\ LimitKept /\ CountInv'
  BY CountStep DEF LimitInv, CountInv
<1>2. ASSUME NEW next, Entering(next) PROVE LimitKept'
  BY <1>1, <1>2, LimitEnter
<1>3. ASSUME Backtrack PROVE LimitKept'
  BY <1>1, <1>3, LimitBacktrack
<1>4. ASSUME Abort \/ Finish \/ UNCHANGED vars PROVE LimitKept'
  <2>1. path' = path /\ todo' = todo /\ loopHeads' = loopHeads
    BY <1>4 DEF Abort, Finish, vars
  <2> QED BY <1>1, <2>1 DEF LimitKept
<1>5. LimitKept'
  BY <1>1, <1>2, <1>3, <1>4, NextCases
<1> QED BY <1>1, <1>5 DEF LimitInv

LEMMA LimitBounds ==
  ASSUME SearchAssumption, LimitInv
  PROVE  UnrollingBounded
<1> SUFFICES ASSUME NEW l \in Loc PROVE Occurrences(l) <= LoopUnrollDepth + 1
  BY DEF UnrollingBounded
<1>1. Occurrences(l) \in Nat
  <2>1. path \in Seq(Loc)
    BY DEF LimitInv, CountInv, TypeOK
  <2> QED BY <2>1, PositionsAppend, OccurrencesAre
<1>2. LoopUnrollDepth \in Nat
  BY DEF SearchAssumption
<1> DEFINE o == Occurrences(l)
<1>3. CASE l \in DOMAIN loopHeads
  <2>1. loopHeads[l] \in {o - 1, o} /\ loopHeads[l] <= LoopUnrollDepth
    BY <1>3 DEF LimitInv, CountInv, CountersFollowPath, LimitKept
  <2> HIDE DEF o
  <2>2. o <= LoopUnrollDepth + 1
    BY <1>1, <1>2, <2>1 DEF o
  <2> QED BY <2>2 DEF o
<1>4. CASE l \notin DOMAIN loopHeads
  <2>1. o \in {0, IF l \in visited THEN 1 ELSE 0}
    BY <1>4 DEF LimitInv, CountInv, CountersFollowPath
  <2> HIDE DEF o
  <2>2. o <= LoopUnrollDepth + 1
    BY <1>2, <2>1
  <2> QED BY <2>2 DEF o
<1> QED BY <1>3, <1>4

(***************************************************************************)
(* No path visited has a block more than once beyond the limit, so the     *)
(* recursion of visitNode is bounded.                                      *)
(***************************************************************************)
THEOREM RecursionIsBounded == Spec => []UnrollingBounded
<1>1. Init => LimitInv
  <2> SUFFICES ASSUME Init PROVE LimitInv
    OBVIOUS
  <2>1. CountInv
    BY SearchAssumption, CountInit
  <2>2. DOMAIN loopHeads = {}
    BY DEF Init
  <2> QED BY <2>1, <2>2 DEF LimitInv, LimitKept
<1>2. LimitInv /\ [Next]_vars => LimitInv'
  BY SearchAssumption, LimitStep
<1>3. LimitInv => UnrollingBounded
  BY SearchAssumption, LimitBounds
<1> QED BY <1>1, <1>2, <1>3, PTL DEF Spec
-----------------------------------------------------------------------------
(***************************************************************************)
(* The argument for SAFE: as long as nothing was left undecided, what may  *)
(* follow a path visited was visited too, or waits on the stack.           *)
(***************************************************************************)
Waiting(p, l) ==
  \E n \in 0 .. Len(path) :
    /\ Len(p) = n /\ \A i \in 1 .. n : p[i] = path[i]
    /\ \E i \in DOMAIN todo[n + 1] : todo[n + 1][i] = l

Reached(p, l) == Append(p, l) \in tree \/ Waiting(p, l)

\* What Searched says, of a path visited before.
Covered(p) ==
  /\ Last(p) \in Target => ~Satisfiable(p)
  /\ Last(p) \notin InlineLimit
  /\ \A k \in DOMAIN Succ[Last(p)] :
       Succ[Last(p)][k] \notin AssumeFail /\ Satisfiable(Append(p, Succ[Last(p)][k]))
         => Reached(p, Succ[Last(p)][k])

Complete ==
  mode = "search" /\ result = "NULL" =>
    /\ Reached(<<>>, Entry)
    /\ \A p \in tree : Covered(p)

SafeInv == TypeOK /\ VerdictEnds /\ Complete /\ SafeIsSearched

\* Nothing that waits is forgotten by a visit.
LEMMA ReachedEnter ==
  ASSUME TypeOK, NEW next, Entering(next), NEW p \in Seq(Loc), NEW l, Reached(p, l)
  PROVE  Reached(p, l)'
<1>1. /\ Visiting /\ Enter(next) /\ Len(path) \in Nat /\ path \in Seq(Loc)
      /\ Len(path') = Len(path) + 1
      /\ \A i \in 1 .. Len(path) : path'[i] = path[i]
      /\ \A n \in 1 .. Len(path) : todo'[n] = todo[n]
      /\ todo'[Len(path) + 1] = Tail(todo[Len(path) + 1])
      /\ tree' = tree \cup {Append(path, Block)}
  BY EnterFacts DEF Entering, Enter, Extended, TypeOK
<1>2. CASE Append(p, l) \in tree
  BY <1>1, <1>2 DEF Reached
<1>3. CASE Waiting(p, l)
  <2>1. PICK n \in 0 .. Len(path) :
          /\ Len(p) = n /\ \A i \in 1 .. n : p[i] = path[i]
          /\ \E i \in DOMAIN todo[n + 1] : todo[n + 1][i] = l
    BY <1>3 DEF Waiting
  <2>2. n \in 0 .. Len(path') /\ \A i \in 1 .. n : p[i] = path'[i]
    BY <1>1, <2>1
  <2>3. CASE n < Len(path)
    <3>1. n + 1 \in 1 .. Len(path)
      BY <1>1, <2>3
    <3>2. todo'[n + 1] = todo[n + 1]
      BY <1>1, <3>1
    <3>3. Waiting(p, l)'
      BY <2>1, <2>2, <3>2 DEF Waiting
    <3> QED BY <3>3 DEF Reached
  <2>4. CASE n = Len(path)
    <3> DEFINE t == todo[Len(path) + 1]
    <3>1. t \in Seq(Loc) /\ t # <<>> /\ Block = t[1]
      BY <1>1, BlockInLoc
    <3>2. PICK i \in DOMAIN t : t[i] = l
      BY <2>1, <2>4
    <3>3. todo'[n + 1] = Tail(t)
      BY <1>1, <2>4
    <3> HIDE DEF t
    <3>4. CASE i = 1
      <4>1. p = path
        BY <1>1, <2>1, <2>4
      <4>2. Append(p, l) \in tree'
        BY <1>1, <3>1, <3>2, <3>4, <4>1
      <4> QED BY <4>2 DEF Reached
    <3>5. CASE i # 1
      <4>1. i - 1 \in DOMAIN Tail(t) /\ Tail(t)[i - 1] = l
        BY <3>1, <3>2, <3>5
      <4>2. Waiting(p, l)'
        BY <2>1, <2>2, <3>3, <4>1 DEF Waiting
      <4> QED BY <4>2 DEF Reached
    <3> QED BY <3>4, <3>5
  <2> QED BY <1>1, <2>1, <2>3, <2>4
<1> QED BY <1>2, <1>3 DEF Reached

LEMMA CompleteEnter ==
  ASSUME SearchAssumption, TypeOK, Complete, NEW next, Entering(next),
         mode' = "search", result' = "NULL"
  PROVE  Reached(<<>>, Entry)' /\ \A p \in tree' : Covered(p)'
<1>1. mode = "search" /\ result = "NULL" /\ Searched(next) /\ tree \subseteq Seq(Loc)
  BY DEF Entering, SearchAssumption, TypeOK
<1>2. Reached(<<>>, Entry)'
  <2>1. Reached(<<>>, Entry) /\ <<>> \in Seq(Loc)
    BY <1>1 DEF Complete
  <2> QED BY <2>1, ReachedEnter
<1>3. ASSUME NEW p \in tree PROVE Covered(p)'
  <2>1. Covered(p) /\ p \in Seq(Loc)
    BY <1>1 DEF Complete
  <2>2. \A l : Reached(p, l) => Reached(p, l)'
    BY <2>1, ReachedEnter
  <2>3. ASSUME NEW k \in DOMAIN Succ[Last(p)], Succ[Last(p)][k] \notin AssumeFail,
               Satisfiable(Append(p, Succ[Last(p)][k]))
        PROVE  Reached(p, Succ[Last(p)][k])'
    <3>1. Reached(p, Succ[Last(p)][k])
      BY <2>1, <2>3 DEF Covered
    <3> QED BY <2>2, <3>1
  <2> QED BY <2>1, <2>3 DEF Covered
<1>4. ASSUME NEW p, p = Extended PROVE Covered(p)'
  <2>1. /\ Len(path) \in Nat /\ path \in Seq(Loc) /\ Block \in Loc
        /\ path' = p /\ Len(path') = Len(path) + 1
        /\ todo'[Len(path) + 2] = next /\ path'[Len(path) + 1] = Block
    BY <1>4, EnterFacts DEF Entering, Enter, TypeOK
  <2>2. Last(p) = Block
    BY <2>1 DEF Last
  <2>3. ASSUME NEW l, NEW i \in DOMAIN next, next[i] = l PROVE Reached(p, l)'
    <3> DEFINE n == Len(path) + 1
    <3>1. n \in 0 .. Len(path') /\ Len(p) = n /\ todo'[n + 1] = next
      BY <2>1
    <3>2. Waiting(p, l)'
      BY <2>1, <2>3, <3>1 DEF Waiting
    <3> QED BY <3>2 DEF Reached
  <2> QED BY <1>1, <1>4, <2>2, <2>3 DEF Covered, Searched
<1>5. tree' = tree \cup {Extended}
  BY DEF Entering, Enter
<1> QED BY <1>2, <1>3, <1>4, <1>5

LEMMA CompleteBacktrack ==
  ASSUME TypeOK, Complete, Backtrack, mode = "search", result = "NULL"
  PROVE  Reached(<<>>, Entry)' /\ \A p \in tree' : Covered(p)'
<1>1. /\ Len(path) \in Nat \ {0} /\ Len(path') = Len(path) - 1
      /\ \A i \in 1 .. Len(path) - 1 : path'[i] = path[i]
      /\ \A n \in 1 .. Len(path) : todo'[n] = todo[n]
      /\ todo[Len(path) + 1] = <<>>
      /\ tree' = tree
  BY BacktrackFacts DEF Backtrack
<1>2. ASSUME NEW p, NEW l, Reached(p, l) PROVE Reached(p, l)'
  <2>1. CASE Append(p, l) \in tree
    BY <1>1, <2>1 DEF Reached
  <2>2. CASE Waiting(p, l)
    <3>1. PICK n \in 0 .. Len(path) :
            /\ Len(p) = n /\ \A i \in 1 .. n : p[i] = path[i]
            /\ \E i \in DOMAIN todo[n + 1] : todo[n + 1][i] = l
      BY <2>2 DEF Waiting
    <3>2. n # Len(path)
      BY <1>1, <3>1
    <3>3. /\ n \in 0 .. Len(path') /\ todo'[n + 1] = todo[n + 1]
          /\ \A i \in 1 .. n : p[i] = path'[i]
      BY <1>1, <3>1, <3>2
    <3>4. Waiting(p, l)'
      BY <3>1, <3>3 DEF Waiting
    <3> QED BY <3>4 DEF Reached
  <2> QED BY <1>2, <2>1, <2>2 DEF Reached
<1>3. Reached(<<>>, Entry)'
  BY <1>2 DEF Complete
<1>4. ASSUME NEW p \in tree PROVE Covered(p)'
  <2>1. Covered(p)
    BY DEF Complete
  <2> QED BY <1>2, <2>1 DEF Covered
<1> QED BY <1>1, <1>3, <1>4

LEMMA SafeStep ==
  ASSUME SearchAssumption, SafeInv, [Next]_vars
  PROVE  SafeInv'
<1>1. TypeOK /\ VerdictEnds /\ Complete /\ SafeIsSearched /\ TypeOK' /\ VerdictEnds'
  BY TypeStep DEF SafeInv
<1>2. ASSUME NEW next, Entering(next) PROVE Complete' /\ SafeIsSearched'
  <2>1. mode = "search"
    BY <1>2 DEF Entering, Visiting
  <2>2. Complete'
    <3> SUFFICES ASSUME mode' = "search", result' = "NULL" PROVE Complete'
      BY DEF Complete
    <3> QED BY <1>1, <1>2, CompleteEnter DEF Complete
  <2>3. result' = "SAFE" => "SAFE" \in Guess
    BY <1>1, <1>2, <2>1 DEF Entering, VerdictEnds
  <2>4. SafeIsSearched'
    BY <2>3 DEF SafeIsSearched
  <2> QED BY <2>2, <2>4
<1>3. ASSUME Abort PROVE Complete' /\ SafeIsSearched'
  BY <1>3 DEF Abort, Complete, SafeIsSearched
<1>4. ASSUME Backtrack PROVE Complete' /\ SafeIsSearched'
  <2>1. mode = "search" /\ mode' = mode /\ result' = result
    BY <1>4 DEF Backtrack
  <2>2. Complete'
    <3> SUFFICES ASSUME result = "NULL" PROVE Complete'
      BY <2>1 DEF Complete
    <3> QED BY <1>1, <1>4, <2>1, CompleteBacktrack DEF Complete
  <2> QED BY <2>1, <2>2 DEF SafeIsSearched
<1>5. ASSUME Finish PROVE Complete' /\ SafeIsSearched'
  <2>1. /\ mode = "search" /\ mode' = "done" /\ path = <<>> /\ todo[1] = <<>>
        /\ tree' = tree
        /\ result' = "SAFE" => result = "NULL"
    BY <1>1, <1>5 DEF Finish, VerdictEnds
  <2>2. Complete'
    BY <2>1 DEF Complete
  <2>3. ASSUME result = "NULL"
        PROVE  /\ <<Entry>> \in tree
               /\ \A p \in tree :
                    /\ Last(p) \in Target => ~Satisfiable(p)
                    /\ Last(p) \notin InlineLimit
                    /\ \A k \in DOMAIN Succ[Last(p)] :
                         LET l == Succ[Last(p)][k] IN
                         l \notin AssumeFail /\ Satisfiable(Append(p, l)) =>
                           Append(p, l) \in tree
    <3>1. \A p, l : ~Waiting(p, l)
      <4>1. Len(path) = 0
        BY <2>1
      <4>2. \A n \in 0 .. 0 : n + 1 = 1
        OBVIOUS
      <4> QED BY <2>1, <4>1, <4>2 DEF Waiting
    <3>2. Append(<<>>, Entry) \in tree
      BY <1>1, <2>1, <2>3, <3>1 DEF Complete, Reached
    <3>3. Append(<<>>, Entry) = <<Entry>>
      BY DEF SearchAssumption
    <3> QED BY <1>1, <2>1, <2>3, <3>1, <3>2, <3>3 DEF Complete, Covered, Reached
  <2>4. SafeIsSearched'
    BY <2>1, <2>3 DEF SafeIsSearched
  <2> QED BY <2>2, <2>4
<1>6. ASSUME UNCHANGED vars PROVE Complete' /\ SafeIsSearched'
  BY <1>1, <1>6 DEF vars, Complete, SafeIsSearched, Covered, Reached, Waiting
<1> QED BY <1>1, <1>2, <1>3, <1>4, <1>5, <1>6, NextCases DEF SafeInv

(***************************************************************************)
(* SAFE is the verdict of a whole search: whatever extends a visited path, *)
(* has a model and does not fail an assumption was visited, and no visited *)
(* path reaches an error or a call that was not inlined.                   *)
(***************************************************************************)
THEOREM SafeSearchIsComplete == Spec => []SafeIsSearched
<1>1. Init => SafeInv
  <2> SUFFICES ASSUME Init PROVE SafeInv
    OBVIOUS
  <2>1. TypeOK /\ VerdictEnds
    BY SearchAssumption, TypeInit
  <2>2. path = <<>> /\ todo = << <<Entry>> >> /\ mode = "search" /\ tree = {}
    BY DEF Init
  <2>3. Waiting(<<>>, Entry)
    <3>1. Len(path) = 0 /\ todo[1] = <<Entry>> /\ 0 \in 0 .. Len(path)
      BY <2>2
    <3>2. 1 \in DOMAIN todo[1] /\ todo[1][1] = Entry
      BY <3>1
    <3> QED BY <3>1, <3>2 DEF Waiting
  <2> QED BY <2>1, <2>2, <2>3 DEF SafeInv, Complete, Reached, SafeIsSearched
<1>2. SafeInv /\ [Next]_vars => SafeInv'
  BY SearchAssumption, SafeStep
<1>3. SafeInv => SafeIsSearched
  BY DEF SafeInv
<1> QED BY <1>1, <1>2, <1>3, PTL DEF Spec
=============================================================================
