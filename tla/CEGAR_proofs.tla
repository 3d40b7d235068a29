---------------------------- MODULE CEGAR_proofs ----------------------------
(***************************************************************************)
(* The two verdicts of CEGAR::visit, for every program, every solver and   *)
(* every choice of interpolants: UNSAFE shows a run into an error, and     *)
(* SAFE, when AbstractState::sound is set, rests on an inductive           *)
(* invariant.                                                              *)
(***************************************************************************)
EXTENDS CEGAR, InductionLemmas, SequenceTheorems, TLAPS

-----------------------------------------------------------------------------
(***************************************************************************)
(* What the recursive definitions of the model compute: path2SMTM block by *)
(* block, and the configurations of the program step by step.              *)
(***************************************************************************)
LEMMA AlongRecursion ==
  ASSUME NEW p \in Seq(Loc)
  PROVE  /\ Along(p) \in [1 .. Len(p) -> SUBSET Val]
         /\ \A k \in 1 .. Len(p) :
              Along(p)[k] =
                IF k = 1 THEN Val
                ELSE Image(Along(p)[k - 1], SelectorAt(p, k - 1), p[k - 1], p[k])
<1> DEFINE F == [t \in Nat \X SUBSET Val |->
                   Image(t[2], SelectorAt(p, t[1] - 1), p[t[1] - 1], p[t[1]])]
           IsAlong(f) ==
             f = [k \in 1 .. Len(p) |->
                    IF k = 1 THEN Val
                    ELSE Image(f[k - 1], SelectorAt(p, k - 1), p[k - 1], p[k])]
<1>1. F \in [Nat \X SUBSET Val -> SUBSET Val]
  BY DEF Image
<1>2. PICK g \in [1 .. Len(p) -> SUBSET Val] :
        \A k \in 1 .. Len(p) : g[k] = IF k = 1 THEN Val ELSE F[<<k, g[k - 1]>>]
  <2> DEFINE S == SUBSET Val
             n == Len(p)
  <2>1. Val \in S /\ n \in Nat /\ F \in [Nat \X S -> S]
    BY <1>1
  <2> HIDE DEF F, S, n
  <2>2. \E g \in [1 .. n -> S] : RecursionOf(g, n, Val, F)
    BY <2>1, RecursionExists
  <2> QED BY <2>2 DEF S, n, RecursionOf
<1>3. ASSUME NEW k \in 1 .. Len(p), k # 1
      PROVE  F[<<k, g[k - 1]>>] =
               Image(g[k - 1], SelectorAt(p, k - 1), p[k - 1], p[k])
  <2>1. k \in Nat /\ g[k - 1] \in SUBSET Val
    BY <1>3
  <2> QED BY <2>1
<1> HIDE DEF F
<1>4. IsAlong(g)
  <2>1. \A k \in 1 .. Len(p) :
          g[k] = IF k = 1 THEN Val
                 ELSE Image(g[k - 1], SelectorAt(p, k - 1), p[k - 1], p[k])
    BY <1>2, <1>3
  <2> QED BY <2>1
<1>5. Along(p) = CHOOSE f : IsAlong(f)
  BY DEF Along
<1> HIDE DEF IsAlong
<1>6. IsAlong(Along(p))
  BY <1>4, <1>5, Zenon
<1>7. \A k \in 1 .. Len(p) :
        Along(p)[k] =
          IF k = 1 THEN Val
          ELSE Image(Along(p)[k - 1], SelectorAt(p, k - 1), p[k - 1], p[k])
  BY <1>6 DEF IsAlong
<1>8. ASSUME NEW k \in 1 .. Len(p)
      PROVE  Along(p)[k] \in SUBSET Val
  <2>1. CASE k = 1
    BY <1>7, <2>1
  <2>2. CASE k # 1
    <3>1. Along(p)[k] =
            Image(Along(p)[k - 1], SelectorAt(p, k - 1), p[k - 1], p[k])
      BY <1>7, <2>2
    <3> QED BY <3>1 DEF Image
  <2> QED BY <2>1, <2>2
<1>9. Along(p) = [k \in 1 .. Len(p) |-> Along(p)[k]]
  BY <1>6 DEF IsAlong
<1> QED BY <1>7, <1>8, <1>9

\* Along depends on the part of the path walked so far.
LEMMA AlongPrefix ==
  ASSUME NEW p \in Seq(Loc), NEW q \in Seq(Loc), NEW n \in Nat,
         n <= Len(p), n <= Len(q), \A k \in 1 .. n : p[k] = q[k]
  PROVE  \A k \in 1 .. n : Along(p)[k] = Along(q)[k]
<1> DEFINE P == {k \in 1 .. n : Along(p)[k] = Along(q)[k]}
<1>1. CASE n = 0
  BY <1>1
<1>2. CASE n # 0
  <2>1. 1 \in P
    BY <1>2, AlongRecursion
  <2>2. ASSUME NEW k \in 1 .. n - 1, k \in P PROVE k + 1 \in P
    <3>1. /\ k + 1 \in 1 .. Len(p) /\ k + 1 \in 1 .. Len(q) /\ k + 1 # 1
          /\ k + 1 - 1 = k /\ k \in 1 .. n /\ k + 1 \in 1 .. n
      BY <2>2
    <3>2. k # 1 => k - 1 \in 1 .. n
      BY <3>1
    <3>3. SelectorAt(p, k) = SelectorAt(q, k)
      BY <3>1, <3>2 DEF SelectorAt
    <3>4. /\ Along(p)[k + 1] = Image(Along(p)[k], SelectorAt(p, k), p[k], p[k + 1])
          /\ Along(q)[k + 1] = Image(Along(q)[k], SelectorAt(q, k), q[k], q[k + 1])
      BY <3>1, AlongRecursion
    <3>5. p[k] = q[k] /\ p[k + 1] = q[k + 1] /\ Along(p)[k] = Along(q)[k]
      BY <2>2, <3>1
    <3> QED BY <3>1, <3>3, <3>4, <3>5
  <2>3. \A k \in 1 .. n : k \in P
    <3> HIDE DEF P
    <3> QED BY <2>1, <2>2, IntervalInduction
  <2> QED BY <2>3
<1> QED BY <1>1, <1>2

\* A valuation with which execution along p can enter a block of it is one that
\* an execution from the first block enters it with.
LEMMA AlongHasRun ==
  ASSUME NEW p \in Seq(Loc), NEW n \in 1 .. Len(p), NEW w \in Along(p)[n]
  PROVE  \E x \in [1 .. n -> Val] :
           /\ x[n] = w
           /\ \A k \in 1 .. n - 1 :
                <<x[k], x[k + 1]>> \in Step[<<SelectorAt(p, k), p[k], p[k + 1]>>]
<1> DEFINE Enters(m, v) ==
             \E x \in [1 .. m -> Val] :
               /\ x[m] = v
               /\ \A k \in 1 .. m - 1 :
                    <<x[k], x[k + 1]>> \in Step[<<SelectorAt(p, k), p[k], p[k + 1]>>]
           P == {m \in 1 .. n : \A v \in Along(p)[m] : Enters(m, v)}
<1>1. 1 \in P
  <2>1. SUFFICES ASSUME NEW v \in Along(p)[1] PROVE Enters(1, v)
    OBVIOUS
  <2>2. v \in Val
    BY AlongRecursion
  <2>3. PICK x : x = [k \in 1 .. 1 |-> v]
    OBVIOUS
  <2>4. x \in [1 .. 1 -> Val] /\ x[1] = v
    BY <2>2, <2>3
  <2> QED BY <2>4
<1>2. ASSUME NEW m \in 1 .. n - 1, m \in P PROVE m + 1 \in P
  <2>1. /\ m + 1 \in 1 .. n /\ m + 1 \in 1 .. Len(p) /\ m + 1 # 1 /\ m + 1 - 1 = m
        /\ m \in 1 .. m
    OBVIOUS
  <2>2. SUFFICES ASSUME NEW v \in Along(p)[m + 1] PROVE Enters(m + 1, v)
    BY <2>1
  <2>3. Along(p)[m + 1] = Image(Along(p)[m], SelectorAt(p, m), p[m], p[m + 1])
    BY <2>1, AlongRecursion
  <2>4. PICK u \in Along(p)[m] :
          v \in Val /\ <<u, v>> \in Step[<<SelectorAt(p, m), p[m], p[m + 1]>>]
    BY <2>2, <2>3 DEF Image
  <2>5. PICK x \in [1 .. m -> Val] :
          /\ x[m] = u
          /\ \A k \in 1 .. m - 1 :
               <<x[k], x[k + 1]>> \in Step[<<SelectorAt(p, k), p[k], p[k + 1]>>]
    BY <1>2
  <2>6. PICK y : y = [k \in 1 .. m + 1 |-> IF k = m + 1 THEN v ELSE x[k]]
    OBVIOUS
  <2>7. /\ y \in [1 .. m + 1 -> Val] /\ y[m + 1] = v
        /\ \A k \in 1 .. m : y[k] = x[k]
    BY <2>4, <2>6
  <2>8. ASSUME NEW k \in 1 .. (m + 1) - 1
        PROVE  <<y[k], y[k + 1]>> \in Step[<<SelectorAt(p, k), p[k], p[k + 1]>>]
    <3>1. CASE k = m
      BY <2>1, <2>4, <2>5, <2>7, <3>1
    <3>2. CASE k # m
      <4>1. k \in 1 .. m - 1 /\ k \in 1 .. m /\ k + 1 \in 1 .. m
        BY <3>2
      <4> QED BY <2>5, <2>7, <4>1
    <3> QED BY <3>1, <3>2
  <2>9. \A k \in 1 .. (m + 1) - 1 :
          <<y[k], y[k + 1]>> \in Step[<<SelectorAt(p, k), p[k], p[k + 1]>>]
    BY <2>8
  <2> QED BY <2>7, <2>9
<1>3. n \in P
  <2>1. n \in Nat /\ 1 \in Nat /\ n \in 1 .. n
    OBVIOUS
  <2> HIDE DEF P
  <2> QED BY <1>1, <1>2, <2>1, IntervalInduction
<1> QED BY <1>3

\* The configurations of the program after one block and after one more.
LEMMA AfterRecursion ==
  ASSUME ProgramAssumption
  PROVE  \A n \in 1 .. RunLength :
           After[n] = IF n = 1 THEN {c \in Config : c.loc = Entry /\ c.sel = NoLoc}
                      ELSE {d \in Config : \E c \in After[n - 1] : ProgramStep(c, d)}
<1> DEFINE First == {c \in Config : c.loc = Entry /\ c.sel = NoLoc}
           Image2(C) == {d \in Config : \E c \in C : ProgramStep(c, d)}
           F == [t \in Nat \X SUBSET Config |-> Image2(t[2])]
           IsAfter(f) ==
             f = [n \in 1 .. RunLength |-> IF n = 1 THEN First ELSE Image2(f[n - 1])]
<1>1. F \in [Nat \X SUBSET Config -> SUBSET Config]
  OBVIOUS
<1>2. PICK g \in [1 .. RunLength -> SUBSET Config] :
        \A k \in 1 .. RunLength : g[k] = IF k = 1 THEN First ELSE F[<<k, g[k - 1]>>]
  <2> DEFINE S == SUBSET Config
  <2>1. First \in S /\ RunLength \in Nat /\ F \in [Nat \X S -> S]
    BY <1>1 DEF ProgramAssumption
  <2> HIDE DEF F, First, S
  <2>2. \E g \in [1 .. RunLength -> S] : RecursionOf(g, RunLength, First, F)
    BY <2>1, RecursionExists
  <2> QED BY <2>2 DEF S, RecursionOf
<1>3. ASSUME NEW k \in 1 .. RunLength, k # 1
      PROVE  F[<<k, g[k - 1]>>] = Image2(g[k - 1])
  <2>1. k \in Nat /\ g[k - 1] \in SUBSET Config
    BY <1>3
  <2> QED BY <2>1
<1> HIDE DEF F
<1>4. IsAfter(g)
  <2> HIDE DEF First, Image2
  <2>1. \A k \in 1 .. RunLength : g[k] = IF k = 1 THEN First ELSE Image2(g[k - 1])
    BY <1>2, <1>3
  <2> QED BY <2>1
<1>5. After = CHOOSE f : IsAfter(f)
  BY DEF After
<1> HIDE DEF IsAfter
<1>6. IsAfter(After)
  BY <1>4, <1>5, Zenon
<1> QED BY <1>6 DEF IsAfter
-----------------------------------------------------------------------------
(***************************************************************************)
(* What abstract computes for a successor m of the state r: a state at m   *)
(* that contains every valuation the edge leads to.                        *)
(***************************************************************************)
LEMMA AbstractIsSound ==
  ASSUME NEW r, NEW m, NEW s \in Abstract(r, m)
  PROVE  /\ s.loc = m /\ s.sel = PhiSelector(r.loc, m)
         /\ s.lits \subseteq Known(Post(r, m), EndPrecision(r, m))
         /\ Post(r, m) \subseteq Gamma(s)
<1>1. PICK L \in SUBSET Known(Post(r, m), EndPrecision(r, m)) :
        s = [loc |-> m, sel |-> PhiSelector(r.loc, m), lits |-> L]
  BY DEF Abstract
<1>2. Post(r, m) \subseteq Val
  BY DEF Post, Image
<1> QED BY <1>1, <1>2 DEF Gamma, Known

\* With sound set, a state that covers another contains its valuations.
LEMMA CoverIsSound ==
  ASSUME Sound, NEW r, NEW s, Cover(r, s)
  PROVE  r.loc = s.loc /\ r.sel = s.sel /\ Gamma(s) \subseteq Gamma(r)
BY DEF Cover, Gamma

\* abstract makes states over the literals of its block.
LEMMA AbstractType ==
  ASSUME ProgramAssumption, prec \in [Loc -> SUBSET SUBSET Val],
         NEW r \in Reached, NEW m \in Loc, NEW s \in Abstract(r, m)
  PROVE  /\ s.loc \in Loc /\ s.sel \in Selector /\ s.lits \subseteq Literal
         /\ Append(r.path, s.loc) \in Seq(Loc)
<1>1. EndPrecision(r, m) \subseteq SUBSET Val
  BY DEF EndPrecision, Reached
<1>2. s.lits \subseteq Literal
  BY <1>1, AbstractIsSound DEF Known, Literal
<1>3. s.loc = m /\ s.sel = PhiSelector(r.loc, m)
  BY AbstractIsSound
<1>4. r.loc \in Loc /\ r.path \in Seq(Loc)
  BY DEF Reached
<1>5. s.sel \in Selector
  BY <1>3, <1>4 DEF PhiSelector, Selector
<1> QED BY <1>2, <1>3, <1>4, <1>5
-----------------------------------------------------------------------------
(***************************************************************************)
(* The invariant of visit. Explored: every successor of a reached state    *)
(* was pruned, is covered or was added, or is still to be handled, because *)
(* the state waits or is being expanded.                                   *)
(***************************************************************************)
Waiting == {waitList[x] : x \in DOMAIN waitList}
Pending == {todo[x] : x \in DOMAIN todo}

Covered(s, m) ==
  \A w \in Post(s, m) :
    \E j \in DOMAIN node :
      /\ node[j].loc = m /\ node[j].sel = PhiSelector(s.loc, m)
      /\ w \in Gamma(node[j])

Explored ==
  \A i \in DOMAIN node :
    \/ i \in Waiting
    \/ \A k \in DOMAIN Succ[node[i].loc] :
         \/ Covered(node[i], Succ[node[i].loc][k])
         \/ i = cur /\ Succ[node[i].loc][k] \in Pending

PathsFromEntry ==
  \A i \in DOMAIN node : node[i].path # <<>> /\ node[i].path[1] = Entry

FoundTarget ==
  mode = "found" =>
    path # <<>> /\ path[1] = Entry /\ path[Len(path)] \in Target

NothingLost ==
  mode \in {"expand", "SAFE"} =>
    /\ node[1] = Start
    /\ \A i \in DOMAIN node : node[i].loc \notin Target
    /\ Explored
    /\ mode = "SAFE" => waitList = <<>> /\ todo = <<>>

UnsafePath ==
  mode = "UNSAFE" =>
    /\ errorPath \in Seq(Loc) /\ errorPath # <<>>
    /\ errorPath[1] = Entry /\ errorPath[Len(errorPath)] \in Target
    /\ Feasible(errorPath)

VisitInv == TypeOK /\ PathsFromEntry /\ FoundTarget /\ UnsafePath
-----------------------------------------------------------------------------
\* The state being expanded and its next successor, while expand runs.
LEMMA CurrentType ==
  ASSUME ProgramAssumption, TypeOK
  PROVE  /\ node[cur] \in Reached /\ node[cur].path \in Seq(Loc)
         /\ todo # <<>> => Head(todo) \in Loc /\ Tail(todo) \in Seq(Loc)
         /\ \A i \in DOMAIN node : node[i] \in Reached
<1>1. node \in Seq(Reached) /\ todo \in Seq(Loc) /\ cur \in DOMAIN node
  BY DEF TypeOK
<1>2. \A i \in DOMAIN node : node[i] \in Reached
  BY <1>1
<1>3. todo # <<>> => Head(todo) \in Loc /\ Tail(todo) \in Seq(Loc)
  BY <1>1, HeadTailProperties
<1> QED BY <1>1, <1>2, <1>3 DEF Reached

\* add: the new state comes last, and the wait list gains it.
LEMMA AddShape ==
  ASSUME ProgramAssumption, TypeOK, todo # <<>>,
         NEW s \in Abstract(node[cur], Head(todo)), Add(s)
  PROVE  /\ node' \in Seq(Reached) /\ node' # <<>>
         /\ waitList' \in Seq(DOMAIN node')
         /\ DOMAIN node' = DOMAIN node \cup {Len(node) + 1}
         /\ \A i \in DOMAIN node : i # Len(node) + 1 /\ node'[i] = node[i]
         /\ node'[Len(node) + 1] =
              [loc |-> s.loc, sel |-> s.sel, lits |-> s.lits,
               path |-> Append(node[cur].path, s.loc)]
         /\ {waitList'[x] : x \in DOMAIN waitList'} = Waiting \cup {Len(node) + 1}
<1> DEFINE new == [loc |-> s.loc, sel |-> s.sel, lits |-> s.lits,
                   path |-> Append(node[cur].path, s.loc)]
<1>1. node \in Seq(Reached) /\ node # <<>> /\ waitList \in Seq(DOMAIN node)
  BY DEF TypeOK
<1>2. /\ node[cur] \in Reached /\ Head(todo) \in Loc
      /\ prec \in [Loc -> SUBSET SUBSET Val]
  BY CurrentType DEF TypeOK
<1>3. new \in Reached
  BY <1>2, AbstractType DEF Reached
<1>4. node' = Append(node, new) /\ waitList' = Append(waitList, Len(node) + 1)
  BY DEF Add
<1> HIDE DEF new
<1>5. /\ node' \in Seq(Reached) /\ Len(node') = Len(node) + 1
      /\ \A i \in 1 .. Len(node) : node'[i] = node[i]
      /\ node'[Len(node) + 1] = new
  BY <1>1, <1>3, <1>4, AppendProperties
<1>6. Len(node) \in Nat /\ DOMAIN node = 1 .. Len(node)
  BY <1>1, LenProperties
<1>7. DOMAIN node' = 1 .. Len(node) + 1
  BY <1>5, LenProperties
<1>8. DOMAIN node' = DOMAIN node \cup {Len(node) + 1}
  BY <1>6, <1>7
<1>9. waitList \in Seq(DOMAIN node')
  BY <1>1, <1>8
<1>10. /\ waitList' \in Seq(DOMAIN node') /\ Len(waitList') = Len(waitList) + 1
       /\ \A x \in 1 .. Len(waitList) : waitList'[x] = waitList[x]
       /\ waitList'[Len(waitList) + 1] = Len(node) + 1
  BY <1>4, <1>8, <1>9, AppendProperties
<1>11. /\ Len(waitList) \in Nat /\ DOMAIN waitList = 1 .. Len(waitList)
       /\ DOMAIN waitList' = 1 .. Len(waitList) + 1
  BY <1>1, <1>10, LenProperties
<1>12. {waitList'[x] : x \in DOMAIN waitList'} = Waiting \cup {Len(node) + 1}
  <2>1. DOMAIN waitList' = DOMAIN waitList \cup {Len(waitList) + 1}
    BY <1>11
  <2>2. \A x \in DOMAIN waitList : waitList'[x] = waitList[x]
    BY <1>10, <1>11
  <2>3. Len(waitList) + 1 \notin DOMAIN waitList
    BY <1>11
  <2>4. waitList'[Len(waitList) + 1] = Len(node) + 1
    BY <1>10
  <2> DEFINE k == Len(waitList) + 1
             v == Len(node) + 1
  <2> HIDE DEF k, v
  <2>5. {waitList'[x] : x \in DOMAIN waitList \cup {k}} =
          {waitList[x] : x \in DOMAIN waitList} \cup {v}
    BY <2>2, <2>4 DEF k, v
  <2> QED BY <2>1, <2>5 DEF Waiting, k, v
<1>13. node' # <<>>
  <2>1. Len(node') # 0
    BY <1>5, <1>6
  <2> QED BY <2>1
<1> QED BY <1>5, <1>6, <1>8, <1>10, <1>12, <1>13 DEF new

\* A turn of refine's loop keeps the types.
LEMMA AddPredicateType ==
  ASSUME TypeOK, Len(rest) > 1, NEW I \in SUBSET Val, AddPredicate(I)
  PROVE  /\ prec' \in [Loc -> SUBSET SUBSET Val]
         /\ phi' \in SUBSET Val /\ rest' \in Seq(Loc)
<1>1. rest \in Seq(Loc) /\ Len(rest) \in Nat
  BY DEF TypeOK
<1>2. LastEdge \in 1 .. Len(rest) /\ LastEdge \in Nat
  BY <1>1 DEF LastEdge
<1>3. rest[LastEdge] \in Loc
  BY <1>1, <1>2, ElementOfSeq
<1>4. \A k \in 1 .. LastEdge : rest[k] \in Loc
  BY <1>1, <1>2, ElementOfSeq
<1>5. rest' \in Seq(Loc)
  BY <1>1, <1>2, <1>4, SubSeqProperties DEF AddPredicate
<1> QED BY <1>3, <1>5 DEF AddPredicate, TypeOK
-----------------------------------------------------------------------------
\* visit begins with the entry alone.
LEMMA InitInv == ASSUME ProgramAssumption, Init PROVE VisitInv /\ NothingLost
<1>1. Start \in Reached /\ Start.path[1] = Entry /\ Start.path # <<>>
  BY DEF Start, Reached, ProgramAssumption, Selector
<1>2. node = <<Start>> /\ DOMAIN node = {1} /\ node[1] = Start /\ node \in Seq(Reached)
  BY <1>1 DEF Init
<1>3. /\ waitList = <<1>> /\ DOMAIN waitList = {1} /\ waitList[1] = 1
      /\ waitList \in Seq({1})
  BY DEF Init
<1>4. TypeOK
  <2>1. node # <<>>
    BY <1>2
  <2>2. /\ cur \in DOMAIN node /\ waitList \in Seq(DOMAIN node)
        /\ todo \in Seq(Loc) /\ path \in Seq(Loc) /\ errorPath \in Seq(Loc)
        /\ rest \in Seq(Loc)
    BY <1>2, <1>3 DEF Init
  <2>3. /\ prec \in [Loc -> SUBSET SUBSET Val] /\ phi \in SUBSET Val
        /\ unknown \in BOOLEAN /\ mode \in Modes
    BY DEF Init, Modes
  <2> QED BY <1>2, <2>1, <2>2, <2>3 DEF TypeOK
<1>5. PathsFromEntry
  BY <1>1, <1>2 DEF PathsFromEntry
<1>6. FoundTarget /\ UnsafePath
  BY DEF Init, FoundTarget, UnsafePath
<1>7. Start.loc \notin Target
  BY DEF Start, ProgramAssumption
<1>8. Explored
  BY <1>2, <1>3 DEF Explored, Waiting
<1>9. NothingLost
  BY <1>2, <1>7, <1>8 DEF NothingLost, Init
<1> QED BY <1>4, <1>5, <1>6, <1>9 DEF VisitInv

\* The step of the other actions of visit, between two rounds of expand.
LEMMA RefineInv ==
  ASSUME ProgramAssumption, VisitInv,
         RefineFailed \/ ReportError \/ StartRefine \/ Interpolate
           \/ NoInterpolant \/ Restart
  PROVE  VisitInv' /\ NothingLost'
<1>1. TypeOK /\ PathsFromEntry /\ FoundTarget
  BY DEF VisitInv
<1>2. CASE RefineFailed
  <2>1. TypeOK'
    BY <1>1, <1>2 DEF RefineFailed, TypeOK, Modes
  <2>2. PathsFromEntry' /\ FoundTarget' /\ UnsafePath' /\ NothingLost'
    BY <1>1, <1>2 DEF RefineFailed, PathsFromEntry, FoundTarget, UnsafePath,
      NothingLost
  <2> QED BY <2>1, <2>2 DEF VisitInv
<1>3. CASE ReportError
  <2>1. TypeOK'
    BY <1>1, <1>3 DEF ReportError, TypeOK, Modes
  <2>2. PathsFromEntry' /\ FoundTarget' /\ NothingLost'
    BY <1>1, <1>3 DEF ReportError, PathsFromEntry, FoundTarget, NothingLost
  <2>3. UnsafePath'
    <3>1. mode = "found" /\ errorPath' = path /\ Feasible(path)
      BY <1>3 DEF ReportError
    <3>2. /\ path \in Seq(Loc) /\ path # <<>>
          /\ path[1] = Entry /\ path[Len(path)] \in Target
      BY <1>1, <3>1 DEF FoundTarget, TypeOK
    <3> QED BY <3>1, <3>2 DEF UnsafePath
  <2> QED BY <2>1, <2>2, <2>3 DEF VisitInv
<1>4. CASE StartRefine
  <2>1. rest' \in Seq(Loc)
    <3>1. PICK n \in 1 .. Len(path) - 1 : rest' = SubSeq(path, 1, n + 1)
      BY <1>4 DEF StartRefine
    <3>2. path \in Seq(Loc) /\ Len(path) \in Nat
      BY <1>1 DEF TypeOK
    <3>3. n + 1 \in 1 .. Len(path)
      BY <3>2
    <3>4. \A k \in 1 .. n + 1 : path[k] \in Loc
      BY <3>2, <3>3, ElementOfSeq
    <3> QED BY <3>1, <3>2, <3>3, <3>4, SubSeqProperties
  <2>2. TypeOK'
    BY <1>1, <1>4, <2>1 DEF StartRefine, TypeOK, Modes
  <2>3. PathsFromEntry' /\ FoundTarget' /\ UnsafePath' /\ NothingLost'
    BY <1>1, <1>4 DEF StartRefine, PathsFromEntry, FoundTarget, UnsafePath,
      NothingLost
  <2> QED BY <2>2, <2>3 DEF VisitInv
<1>5. CASE Interpolate
  <2>1. PICK I : I \subseteq MeetsPhi /\ AddPredicate(I)
    BY <1>5 DEF Interpolate
  <2>2. I \in SUBSET Val /\ Len(rest) > 1
    BY <1>5, <2>1 DEF MeetsPhi, Interpolate
  <2>3. prec' \in [Loc -> SUBSET SUBSET Val] /\ phi' \in SUBSET Val /\ rest' \in Seq(Loc)
    BY <1>1, <2>1, <2>2, AddPredicateType
  <2>4. TypeOK'
    BY <1>1, <1>5, <2>3 DEF Interpolate, TypeOK, Modes
  <2>5. PathsFromEntry' /\ FoundTarget' /\ UnsafePath' /\ NothingLost'
    BY <1>1, <1>5 DEF Interpolate, PathsFromEntry, FoundTarget, UnsafePath,
      NothingLost
  <2> QED BY <2>4, <2>5 DEF VisitInv
<1>6. CASE NoInterpolant
  <2>1. prec' \in [Loc -> SUBSET SUBSET Val] /\ phi' \in SUBSET Val /\ rest' \in Seq(Loc)
    <3>1. CASE UNCHANGED <<prec, phi, rest>>
      BY <1>1, <3>1 DEF TypeOK
    <3>2. CASE AddPredicate(Before)
      <4>1. Before \in SUBSET Val /\ Len(rest) > 1
        BY <1>6 DEF Before, NoInterpolant
      <4> QED BY <1>1, <3>2, <4>1, AddPredicateType
    <3> QED BY <1>6, <3>1, <3>2 DEF NoInterpolant
  <2>2. mode' \in {"aborted", "refine"}
    BY <1>6 DEF NoInterpolant
  <2>3. TypeOK'
    BY <1>1, <1>6, <2>1, <2>2 DEF NoInterpolant, TypeOK, Modes
  <2>4. PathsFromEntry' /\ FoundTarget' /\ UnsafePath' /\ NothingLost'
    BY <1>1, <1>6, <2>2 DEF NoInterpolant, PathsFromEntry, FoundTarget,
      UnsafePath, NothingLost
  <2> QED BY <2>3, <2>4 DEF VisitInv
<1>7. CASE Restart
  <2>1. Start \in Reached /\ Start.path[1] = Entry /\ Start.path # <<>>
    BY DEF Start, Reached, ProgramAssumption, Selector
  <2>2. /\ node' = <<Start>> /\ DOMAIN node' = {1} /\ node'[1] = Start
        /\ node' \in Seq(Reached) /\ node' # <<>>
    BY <1>7, <2>1 DEF Restart
  <2>3. /\ waitList' = <<1>> /\ DOMAIN waitList' = {1} /\ waitList'[1] = 1
        /\ waitList' \in Seq({1})
    BY <1>7 DEF Restart
  <2>4. TypeOK'
    BY <1>1, <1>7, <2>2, <2>3 DEF Restart, TypeOK, Modes
  <2>5. PathsFromEntry' /\ FoundTarget' /\ UnsafePath'
    BY <1>7, <2>1, <2>2 DEF Restart, PathsFromEntry, FoundTarget, UnsafePath
  <2>6. Start.loc \notin Target
    BY DEF Start, ProgramAssumption
  <2>7. Explored'
    BY <2>2, <2>3 DEF Explored, Waiting
  <2>8. NothingLost'
    BY <1>7, <2>2, <2>6, <2>7 DEF NothingLost, Restart
  <2> QED BY <2>4, <2>5, <2>8 DEF VisitInv
<1> QED BY <1>2, <1>3, <1>4, <1>5, <1>6, <1>7
-----------------------------------------------------------------------------
\* A path one block longer begins where it did and ends at that block.
LEMMA LongerPath ==
  ASSUME NEW p \in Seq(Loc), NEW l \in Loc, p # <<>>
  PROVE  /\ Append(p, l) \in Seq(Loc) /\ Append(p, l) # <<>>
         /\ Append(p, l)[1] = p[1]
         /\ Append(p, l)[Len(Append(p, l))] = l
<1>1. Len(p) \in Nat \ {0}
  BY EmptySeq
<1>2. 1 \in 1 .. Len(p)
  BY <1>1
<1> QED BY <1>2, AppendProperties

\* expand keeps the types and the shape of the paths.
LEMMA ExpandInv ==
  ASSUME ProgramAssumption, VisitInv,
         Choose \/ Prune \/ LeaveOut \/ AddState \/ FindTarget \/ ReportSafe
  PROVE  VisitInv'
<1>1. TypeOK /\ PathsFromEntry
  BY DEF VisitInv
<1>2. CASE Choose
  <2>1. waitList \in Seq(DOMAIN node) /\ waitList # <<>> /\ Succ \in [Loc -> Seq(Loc)]
    BY <1>1, <1>2 DEF TypeOK, Choose, ProgramAssumption
  <2>2. Len(waitList) \in Nat \ {0}
    BY <2>1, EmptySeq
  <2>3. \A k \in 1 .. Len(waitList) : waitList[k] \in DOMAIN node
    BY <2>1, ElementOfSeq
  <2>4. cur' \in DOMAIN node
    BY <1>2, <2>2, <2>3 DEF Choose
  <2>5. waitList' \in Seq(DOMAIN node)
    <3> DEFINE n == Len(waitList) - 1
    <3>1. n \in 0 .. Len(waitList) /\ waitList' = SubSeq(waitList, 1, n)
      BY <1>2, <2>2 DEF Choose
    <3>2. \A k \in 1 .. n : waitList[k] \in DOMAIN node
      BY <2>2, <2>3
    <3> QED BY <2>1, <3>1, <3>2, SubSeqProperties
  <2>6. node[cur'].loc \in Loc
    BY <1>1, <2>4, CurrentType DEF Reached
  <2>7. todo' \in Seq(Loc)
    BY <1>2, <2>1, <2>6 DEF Choose
  <2>8. TypeOK'
    BY <1>1, <1>2, <2>4, <2>5, <2>7 DEF Choose, TypeOK
  <2> QED BY <1>1, <1>2, <2>8 DEF Choose, VisitInv, PathsFromEntry, FoundTarget,
        UnsafePath
<1>3. CASE Prune \/ LeaveOut
  <2>1. todo' \in Seq(Loc)
    BY <1>1, <1>3, CurrentType DEF Prune, LeaveOut, Expanding
  <2>2. /\ UNCHANGED <<node, waitList, cur, prec, path, errorPath, rest, phi,
                        unknown, mode>>
        /\ mode = "expand"
    BY <1>3 DEF Prune, LeaveOut, Expanding
  <2>3. TypeOK'
    BY <1>1, <2>1, <2>2 DEF TypeOK
  <2> QED BY <1>1, <2>2, <2>3 DEF VisitInv, PathsFromEntry, FoundTarget,
        UnsafePath
<1>4. ASSUME todo # <<>>, NEW s \in Abstract(node[cur], Head(todo)), Add(s),
             todo' \in Seq(Loc), path' \in Seq(Loc), mode' \in Modes,
             UNCHANGED <<cur, prec, errorPath, rest, phi, unknown>>
      PROVE  TypeOK' /\ PathsFromEntry'
  <2>1. /\ node' \in Seq(Reached) /\ node' # <<>>
        /\ waitList' \in Seq(DOMAIN node')
        /\ DOMAIN node' = DOMAIN node \cup {Len(node) + 1}
        /\ \A i \in DOMAIN node : i # Len(node) + 1 /\ node'[i] = node[i]
        /\ node'[Len(node) + 1] =
             [loc |-> s.loc, sel |-> s.sel, lits |-> s.lits,
              path |-> Append(node[cur].path, s.loc)]
    BY <1>1, <1>4, AddShape, Zenon
  <2>2. TypeOK'
    BY <1>1, <1>4, <2>1 DEF TypeOK
  <2>3. /\ node[cur].path \in Seq(Loc) /\ s.loc \in Loc
        /\ node[cur].path # <<>> /\ node[cur].path[1] = Entry
    BY <1>1, <1>4, CurrentType, AbstractType DEF TypeOK, PathsFromEntry
  <2>4. Append(node[cur].path, s.loc) # <<>> /\ Append(node[cur].path, s.loc)[1] = Entry
    <3>1. /\ Append(node[cur].path, s.loc) \in Seq(Loc)
          /\ Append(node[cur].path, s.loc) # <<>>
          /\ Append(node[cur].path, s.loc)[1] = node[cur].path[1]
      BY <2>3, LongerPath
    <3> QED BY <2>3, <3>1
  <2>5. PathsFromEntry'
    <3>1. /\ node'[Len(node) + 1].path # <<>>
          /\ node'[Len(node) + 1].path[1] = Entry
      BY <2>1, <2>4
    <3>2. SUFFICES ASSUME NEW i \in DOMAIN node'
                   PROVE  node'[i].path # <<>> /\ node'[i].path[1] = Entry
      BY DEF PathsFromEntry
    <3>3. CASE i \in DOMAIN node
      BY <1>1, <2>1, <3>3 DEF PathsFromEntry
    <3> QED BY <2>1, <3>1, <3>2, <3>3
  <2> QED BY <2>2, <2>5
<1>5. CASE AddState
  <2>1. todo # <<>> /\ mode = "expand" /\ todo' = Tail(todo)
    BY <1>5 DEF AddState, Expanding
  <2>2. PICK s \in Abstract(node[cur], Head(todo)) : Add(s)
    BY <1>5 DEF AddState
  <2>3. UNCHANGED <<cur, prec, path, errorPath, rest, phi, unknown, mode>>
    BY <1>5 DEF AddState
  <2>4. todo' \in Seq(Loc) /\ path' \in Seq(Loc) /\ mode' \in Modes
    BY <1>1, <2>1, <2>3, CurrentType DEF TypeOK
  <2>5. TypeOK' /\ PathsFromEntry'
    BY <1>4, <2>1, <2>2, <2>3, <2>4
  <2> QED BY <2>1, <2>3, <2>5 DEF VisitInv, FoundTarget, UnsafePath
<1>6. CASE FindTarget
  <2>1. todo # <<>> /\ mode = "expand" /\ todo' = <<>> /\ Head(todo) \in Target
    BY <1>6 DEF FindTarget, Expanding
  <2>2. UNCHANGED <<cur, prec, errorPath, rest, phi, unknown>>
    BY <1>6 DEF FindTarget
  <2>3. PICK s \in Abstract(node[cur], Head(todo)) :
          \/ /\ Add(s)
             /\ path' = Append(node[cur].path, s.loc)
             /\ mode' = "found"
          \/ mode' = "hung" /\ UNCHANGED <<node, waitList, path>>
    BY <1>6 DEF FindTarget
  <2>4. CASE mode' = "hung" /\ UNCHANGED <<node, waitList, path>>
    <3>1. TypeOK'
      BY <1>1, <2>1, <2>2, <2>4 DEF TypeOK, Modes
    <3> QED BY <1>1, <2>4, <3>1 DEF VisitInv, PathsFromEntry, FoundTarget, UnsafePath
  <2>5. CASE Add(s) /\ path' = Append(node[cur].path, s.loc) /\ mode' = "found"
    <3>1. /\ node[cur].path \in Seq(Loc) /\ s.loc \in Loc /\ s.loc = Head(todo)
          /\ node[cur].path # <<>> /\ node[cur].path[1] = Entry
      BY <1>1, <2>1, CurrentType, AbstractType, AbstractIsSound DEF TypeOK, PathsFromEntry
    <3>2. /\ path' \in Seq(Loc) /\ path' # <<>> /\ path'[1] = Entry
          /\ path'[Len(path')] = s.loc
      BY <2>5, <3>1, LongerPath
    <3>3. TypeOK' /\ PathsFromEntry'
      BY <1>4, <2>1, <2>2, <2>5, <3>2 DEF Modes
    <3>4. FoundTarget'
      BY <2>1, <3>1, <3>2 DEF FoundTarget
    <3> QED BY <2>5, <3>3, <3>4 DEF VisitInv, UnsafePath
  <2> QED BY <2>3, <2>4, <2>5
<1>7. CASE ReportSafe
  <2>1. TypeOK'
    BY <1>1, <1>7 DEF ReportSafe, TypeOK, Modes
  <2> QED BY <1>1, <1>7, <2>1 DEF VisitInv, ReportSafe, PathsFromEntry,
        FoundTarget, UnsafePath
<1> QED BY <1>2, <1>3, <1>5, <1>6, <1>7
-----------------------------------------------------------------------------
\* A successor at which no reached state arrives any more, or whose abstract
\* state a reached one covers, is covered.
LEMMA HandledIsCovered ==
  ASSUME Sound, NEW r, NEW m,
         \/ Pruned(r, m)
         \/ \E s \in Abstract(r, m) : Stop(s)
  PROVE  Covered(r, m)
<1>1. CASE Pruned(r, m)
  BY <1>1 DEF Pruned, Covered
<1>2. CASE \E s \in Abstract(r, m) : Stop(s)
  <2>1. PICK s \in Abstract(r, m), j \in DOMAIN node : Cover(node[j], s)
    BY <1>2 DEF Stop
  <2>2. s.loc = m /\ s.sel = PhiSelector(r.loc, m) /\ Post(r, m) \subseteq Gamma(s)
    BY <2>1, AbstractIsSound
  <2>3. node[j].loc = s.loc /\ node[j].sel = s.sel /\ Gamma(s) \subseteq Gamma(node[j])
    BY <2>1, CoverIsSound
  <2> QED BY <2>1, <2>2, <2>3 DEF Covered
<1> QED BY <1>1, <1>2

\* What is covered stays covered while the graph grows.
LEMMA CoveredStays ==
  ASSUME prec' = prec, DOMAIN node \subseteq DOMAIN node',
         \A i \in DOMAIN node : node'[i] = node[i],
         NEW r, NEW m, Covered(r, m)
  PROVE  Covered(r, m)'
<1>1. Post(r, m)' = Post(r, m)
  BY DEF Post, Image, Gamma
<1>2. \A i \in DOMAIN node : Gamma(node[i])' = Gamma(node[i])
  BY DEF Gamma
<1>3. SUFFICES ASSUME NEW w \in Post(r, m)
      PROVE  \E j \in DOMAIN node' :
               /\ node'[j].loc = m /\ node'[j].sel = PhiSelector(r.loc, m)
               /\ w \in Gamma(node[j])'
  BY <1>1 DEF Covered
<1>4. PICK j \in DOMAIN node :
        /\ node[j].loc = m /\ node[j].sel = PhiSelector(r.loc, m)
        /\ w \in Gamma(node[j])
  BY DEF Covered
<1> QED BY <1>2, <1>4

\* Nothing has to be explored again after a step that leaves expand alone.
LEMMA ExploredStays ==
  ASSUME UNCHANGED <<node, waitList, cur, todo, prec>>, Explored
  PROVE  Explored'
<1>1. ASSUME NEW i \in DOMAIN node, NEW m, Covered(node[i], m)
      PROVE  Covered(node[i], m)'
  <2>1. PICK r : r = node[i]
    OBVIOUS
  <2>2. Covered(r, m)'
    BY <1>1, <2>1, CoveredStays
  <2>3. r = node'[i]
    BY <2>1
  <2> QED BY <2>2, <2>3 DEF Covered, Post, Gamma
<1>2. Waiting' = Waiting /\ Pending' = Pending
  BY DEF Waiting, Pending
<1> QED BY <1>1, <1>2 DEF Explored

\* What is left of a list was in it.
LEMMA TailElements ==
  ASSUME NEW S, NEW t \in Seq(S), t # <<>>
  PROVE  \A x \in DOMAIN Tail(t) : \E y \in DOMAIN t : Tail(t)[x] = t[y]
<1>1. /\ Tail(t) \in Seq(S) /\ Len(Tail(t)) = Len(t) - 1
      /\ \A i \in 1 .. Len(Tail(t)) : Tail(t)[i] = t[i + 1]
  BY HeadTailProperties
<1>2. /\ Len(t) \in Nat \ {0} /\ DOMAIN t = 1 .. Len(t)
      /\ DOMAIN Tail(t) = 1 .. Len(Tail(t))
  BY <1>1, EmptySeq, LenProperties
<1>3. \A i \in DOMAIN Tail(t) : i + 1 \in DOMAIN t
  BY <1>1, <1>2
<1> QED BY <1>1, <1>2, <1>3

\* The wait list and the pending successors lose only what is taken from them.
LEMMA TakenFromTodo ==
  ASSUME TypeOK, todo # <<>>, todo' = Tail(todo)
  PROVE  Pending \subseteq Pending' \cup {Head(todo)}
<1>1. todo \in Seq(Loc)
  BY DEF TypeOK
<1>2. Len(todo) \in Nat \ {0} /\ DOMAIN todo = 1 .. Len(todo)
  BY <1>1, EmptySeq, LenProperties
<1>3. /\ Tail(todo) \in Seq(Loc) /\ Len(Tail(todo)) = Len(todo) - 1
      /\ \A i \in 1 .. Len(Tail(todo)) : Tail(todo)[i] = todo[i + 1]
      /\ Head(todo) = todo[1]
  <2>1. todo \in Seq(Loc) /\ todo # <<>>
    BY <1>1
  <2>2. /\ Tail(todo) \in Seq(Loc) /\ Len(Tail(todo)) = Len(todo) - 1
        /\ \A i \in 1 .. Len(Tail(todo)) : Tail(todo)[i] = todo[i + 1]
    BY <2>1, HeadTailProperties
  <2> QED BY <2>1, <2>2
<1>4. DOMAIN todo' = 1 .. Len(todo) - 1
  BY <1>3, LenProperties
<1>5. ASSUME NEW x \in DOMAIN todo, x # 1
      PROVE  x - 1 \in DOMAIN todo' /\ todo'[x - 1] = todo[x]
  <2>1. x - 1 \in 1 .. Len(todo) - 1 /\ x - 1 + 1 = x
    BY <1>2, <1>5
  <2> QED BY <1>3, <1>4, <2>1
<1>6. ASSUME NEW x \in DOMAIN todo
      PROVE  todo[x] \in Pending' \cup {Head(todo)}
  BY <1>3, <1>5 DEF Pending
<1> QED BY <1>6 DEF Pending

\* chooseAndRemove takes one state.
LEMMA TakenFromWaitList ==
  ASSUME TypeOK, Choose
  PROVE  Waiting \subseteq Waiting' \cup {cur'}
<1>1. waitList \in Seq(DOMAIN node) /\ waitList # <<>>
  BY DEF TypeOK, Choose
<1>2. Len(waitList) \in Nat \ {0} /\ DOMAIN waitList = 1 .. Len(waitList)
  BY <1>1, EmptySeq, LenProperties
<1> DEFINE n == Len(waitList) - 1
<1>3. n \in 0 .. Len(waitList) /\ waitList' = SubSeq(waitList, 1, n)
  BY <1>2 DEF Choose
<1>4. \A k \in 1 .. n : waitList[k] \in DOMAIN node
  BY <1>1, <1>2, ElementOfSeq
<1>5. /\ waitList' \in Seq(DOMAIN node) /\ Len(waitList') = n
      /\ \A k \in 1 .. n : waitList'[k] = waitList[k]
  <2>1. /\ waitList' \in Seq(DOMAIN node)
        /\ Len(waitList') = IF 1 <= n THEN n - 1 + 1 ELSE 0
        /\ \A k \in 1 .. n - 1 + 1 : waitList'[k] = waitList[1 + k - 1]
    BY <1>1, <1>3, <1>4, SubSeqProperties
  <2>2. n \in Nat
    BY <1>2
  <2> HIDE DEF n
  <2>3. Len(waitList') = n
    BY <2>1, <2>2
  <2>4. \A k \in 1 .. n : waitList'[k] = waitList[k]
    BY <2>1, <2>2
  <2> QED BY <2>1, <2>3, <2>4
<1>6. DOMAIN waitList' = 1 .. n
  BY <1>5, LenProperties
<1>7. ASSUME NEW x \in DOMAIN waitList
      PROVE  waitList[x] \in Waiting' \cup {cur'}
  <2>1. CASE x = Len(waitList)
    BY <2>1 DEF Choose
  <2>2. CASE x # Len(waitList)
    <3>1. x \in 1 .. n
      BY <1>2, <2>2
    <3> QED BY <1>5, <1>6, <3>1 DEF Waiting
  <2> QED BY <2>1, <2>2
<1> QED BY <1>7 DEF Waiting
-----------------------------------------------------------------------------
\* expand loses no successor: what it takes from the wait list it goes through,
\* and what it does not add is covered.
LEMMA ExpandLosesNothing ==
  ASSUME ProgramAssumption, Sound, VisitInv, NothingLost,
         Choose \/ Prune \/ LeaveOut \/ AddState \/ FindTarget \/ ReportSafe
  PROVE  NothingLost'
<1>1. /\ TypeOK /\ mode = "expand" /\ node[1] = Start /\ Explored
      /\ \A i \in DOMAIN node : node[i].loc \notin Target
  BY DEF VisitInv, NothingLost, Choose, Prune, LeaveOut, AddState, FindTarget,
    ReportSafe, Expanding
<1>2. node \in Seq(Reached) /\ node # <<>> /\ cur \in DOMAIN node
  BY <1>1 DEF TypeOK
<1>3. 1 \in DOMAIN node
  BY <1>2, EmptySeq, LenProperties
<1>4. CASE Choose
  <2>1. UNCHANGED <<node, prec, mode>> /\ todo = <<>>
    BY <1>4 DEF Choose
  <2>2. Waiting \subseteq Waiting' \cup {cur'}
    BY <1>1, <1>4, TakenFromWaitList
  <2>3. ASSUME NEW i \in DOMAIN node
        PROVE  \/ i \in Waiting'
               \/ \A k \in DOMAIN Succ[node[i].loc] :
                    \/ Covered(node[i], Succ[node[i].loc][k])'
                    \/ i = cur' /\ Succ[node[i].loc][k] \in Pending'
    <3>1. CASE i = cur'
      <4>1. todo' = Succ[node[i].loc]
        BY <1>4, <3>1 DEF Choose
      <4> QED BY <3>1, <4>1 DEF Pending
    <3>2. CASE i # cur' /\ i \in Waiting
      BY <2>2, <3>2
    <3>3. CASE i \notin Waiting
      <4>1. Pending = {}
        BY <2>1 DEF Pending
      <4>2. \A k \in DOMAIN Succ[node[i].loc] : Covered(node[i], Succ[node[i].loc][k])
        BY <1>1, <3>3, <4>1 DEF Explored
      <4> QED BY <2>1, <4>2, CoveredStays
    <3> QED BY <3>1, <3>2, <3>3
  <2>4. Explored'
    BY <2>1, <2>3 DEF Explored
  <2> QED BY <1>1, <2>1, <2>4 DEF NothingLost
<1>5. CASE Prune \/ LeaveOut
  <2>1. UNCHANGED <<node, prec, mode, waitList, cur>> /\ todo # <<>> /\ todo' = Tail(todo)
    BY <1>5 DEF Prune, LeaveOut, Expanding
  <2>2. Covered(node[cur], Head(todo))
    BY <1>5, HandledIsCovered DEF Prune, LeaveOut
  <2>3. Pending \subseteq Pending' \cup {Head(todo)}
    BY <1>1, <2>1, TakenFromTodo
  <2>4. ASSUME NEW i \in DOMAIN node, i \notin Waiting,
               NEW k \in DOMAIN Succ[node[i].loc]
        PROVE  \/ Covered(node[i], Succ[node[i].loc][k])'
               \/ i = cur' /\ Succ[node[i].loc][k] \in Pending'
    <3>1. CASE Covered(node[i], Succ[node[i].loc][k])
      BY <2>1, <3>1, CoveredStays
    <3>2. CASE i = cur /\ Succ[node[i].loc][k] \in Pending
      <4>1. CASE Succ[node[i].loc][k] = Head(todo)
        <5>1. Covered(node[i], Succ[node[i].loc][k])
          BY <2>2, <3>2, <4>1
        <5> QED BY <2>1, <5>1, CoveredStays
      <4>2. CASE Succ[node[i].loc][k] # Head(todo)
        BY <2>1, <2>3, <3>2, <4>2
      <4> QED BY <4>1, <4>2
    <3> QED BY <1>1, <2>4, <3>1, <3>2 DEF Explored
  <2>5. Waiting' = Waiting
    BY <2>1 DEF Waiting
  <2>6. Explored'
    BY <2>1, <2>4, <2>5 DEF Explored
  <2> QED BY <1>1, <2>1, <2>6 DEF NothingLost
<1>6. CASE AddState
  <2>1. UNCHANGED <<prec, mode, cur>> /\ todo # <<>> /\ todo' = Tail(todo)
    BY <1>6 DEF AddState, Expanding
  <2>2. PICK s \in Abstract(node[cur], Head(todo)) : Add(s)
    BY <1>6 DEF AddState
  <2>3. PICK n : n = Len(node) + 1
    OBVIOUS
  <2>4. /\ DOMAIN node' = DOMAIN node \cup {n}
        /\ \A i \in DOMAIN node : i # n /\ node'[i] = node[i]
        /\ node'[n] = [loc |-> s.loc, sel |-> s.sel, lits |-> s.lits,
                       path |-> Append(node[cur].path, s.loc)]
        /\ Waiting' = Waiting \cup {n}
    BY <1>1, <2>1, <2>2, <2>3, AddShape, Zenon DEF Waiting
  <2>5. /\ s.loc = Head(todo) /\ s.sel = PhiSelector(node[cur].loc, Head(todo))
        /\ Post(node[cur], Head(todo)) \subseteq Gamma(s)
    BY <2>2, AbstractIsSound
  <2>6. Head(todo) \notin Target
    BY <1>6 DEF AddState
  <2>7. \A i \in DOMAIN node' : node'[i].loc \notin Target
    BY <1>1, <2>4, <2>5, <2>6
  <2>8. PICK r, m : r = node[cur] /\ m = Head(todo)
    OBVIOUS
  <2>9. prec' = prec /\ DOMAIN node \subseteq DOMAIN node'
    BY <2>1, <2>4
  <2>10. Covered(r, m)'
    <3>1. Post(r, m)' = Post(r, m)
      BY <2>9 DEF Post, Image, Gamma
    <3>2. Gamma(node[n])' = Gamma(s)
      BY <2>4, <2>9 DEF Gamma
    <3>3. /\ n \in DOMAIN node' /\ node'[n].loc = m
          /\ node'[n].sel = PhiSelector(r.loc, m)
      BY <2>4, <2>5, <2>8
    <3> QED BY <2>5, <2>8, <3>1, <3>2, <3>3 DEF Covered
  <2>11. Pending \subseteq Pending' \cup {m}
    BY <1>1, <2>1, <2>8, TakenFromTodo
  <2>12. ASSUME NEW i \in DOMAIN node, i \notin Waiting,
                NEW q, q = node[i], NEW k \in DOMAIN Succ[q.loc]
         PROVE  \/ Covered(q, Succ[q.loc][k])'
                \/ i = cur' /\ Succ[q.loc][k] \in Pending'
    <3>1. CASE Covered(q, Succ[q.loc][k])
      BY <2>4, <2>9, <3>1, CoveredStays
    <3>2. CASE i = cur /\ Succ[q.loc][k] \in Pending /\ Succ[q.loc][k] = m
      BY <2>8, <2>10, <2>12, <3>2
    <3>3. CASE i = cur /\ Succ[q.loc][k] \in Pending /\ Succ[q.loc][k] # m
      BY <2>1, <2>11, <3>3
    <3> QED BY <1>1, <2>12, <3>1, <3>2, <3>3 DEF Explored
  <2>13. Explored'
    <3>1. SUFFICES ASSUME NEW i \in DOMAIN node', i \notin Waiting',
                          NEW k \in DOMAIN Succ[node'[i].loc]
                   PROVE  \/ Covered(node[i], Succ[node[i].loc][k])'
                          \/ i = cur' /\ Succ[node'[i].loc][k] \in Pending'
      BY DEF Explored
    <3>2. i \in DOMAIN node /\ i \notin Waiting
      BY <2>4, <3>1
    <3>3. PICK q : q = node[i] /\ q = node'[i]
      BY <2>4, <3>2
    <3>4. \/ Covered(q, Succ[q.loc][k])'
          \/ i = cur' /\ Succ[q.loc][k] \in Pending'
      BY <2>12, <3>1, <3>2, <3>3
    <3>5. Covered(q, Succ[q.loc][k])' => Covered(node[i], Succ[node[i].loc][k])'
      BY <3>3 DEF Covered, Post, Gamma
    <3> QED BY <3>3, <3>4, <3>5
  <2>14. node'[1] = Start
    BY <1>1, <1>3, <2>4
  <2> QED BY <1>1, <2>1, <2>7, <2>13, <2>14 DEF NothingLost
<1>7. CASE FindTarget
  BY <1>7 DEF FindTarget, NothingLost
<1>8. CASE ReportSafe
  <2>1. UNCHANGED <<node, waitList, cur, todo, prec>> /\ waitList = <<>> /\ todo = <<>>
    BY <1>8 DEF ReportSafe
  <2>2. Explored'
    BY <1>1, <2>1, ExploredStays
  <2> QED BY <1>1, <2>1, <2>2 DEF NothingLost
<1> QED BY <1>4, <1>5, <1>6, <1>7, <1>8
-----------------------------------------------------------------------------
\* The invariants of visit are inductive; NothingLost needs a sound cover.
LEMMA NextVisitInv ==
  ASSUME ProgramAssumption, VisitInv, [Next]_vars
  PROVE  VisitInv' /\ (Sound /\ NothingLost => NothingLost')
<1>1. CASE UNCHANGED vars
  <2>1. VisitInv'
    BY <1>1 DEF vars, VisitInv, TypeOK, PathsFromEntry, FoundTarget, UnsafePath
  <2>2. Explored => Explored'
    BY <1>1, ExploredStays DEF vars
  <2> QED BY <1>1, <2>1, <2>2 DEF vars, NothingLost
<1>2. CASE Next
  BY <1>2, RefineInv, ExpandInv, ExpandLosesNothing DEF Next
<1> QED BY <1>1, <1>2

(***************************************************************************)
(* The invariant of visit: types, and paths that lead from the entry.      *)
(***************************************************************************)
THEOREM VisitInvariant == Spec => []VisitInv
<1>1. Init => VisitInv
  BY ProgramAssumption, InitInv
<1>2. VisitInv /\ [Next]_vars => VisitInv'
  BY ProgramAssumption, NextVisitInv
<1> QED BY <1>1, <1>2, PTL DEF Spec

\* The variables of visit have their types throughout.
THEOREM VisitTypeCorrect == Spec => []TypeOK
<1>1. VisitInv => TypeOK
  BY DEF VisitInv
<1> QED BY <1>1, VisitInvariant, PTL

-----------------------------------------------------------------------------
(***************************************************************************)
(* The graph of a round is a tree of paths of the program. TreePath: the   *)
(* path of a reached state leads from the entry over edges of the program  *)
(* to its block, and its phi selector is the one the path gives.           *)
(***************************************************************************)
Linked(p) ==
  \A k \in 1 .. Len(p) - 1 : \E j \in DOMAIN Succ[p[k]] : p[k + 1] = Succ[p[k]][j]

TreePath(s) ==
  /\ s.path \in Seq(Loc) /\ s.path # <<>>
  /\ s.path[Len(s.path)] = s.loc
  /\ s.sel = SelectorAt(s.path, Len(s.path))
  /\ Linked(s.path)

Follows(s, l) == \E j \in DOMAIN Succ[s.loc] : l = Succ[s.loc][j]

TodoFollows == \A x \in DOMAIN todo : Follows(node[cur], todo[x])

PathInv ==
  /\ \A i \in DOMAIN node : TreePath(node[i])
  /\ TodoFollows
  /\ Linked(path) /\ Linked(errorPath)
  /\ mode = "expand" => \A i \in DOMAIN node : node[i].loc \notin Target
  /\ mode # "hung"

\* The path of a successor is the path of its parent and one edge more.
LEMMA LongerTreePath ==
  ASSUME NEW s, TreePath(s), NEW l \in Loc, Follows(s, l)
  PROVE  LET q == Append(s.path, l)
         IN  /\ q \in Seq(Loc) /\ q # <<>> /\ Len(q) = Len(s.path) + 1
             /\ q[Len(q)] = l /\ \A k \in 1 .. Len(s.path) : q[k] = s.path[k]
             /\ PhiSelector(s.loc, l) = SelectorAt(q, Len(q))
             /\ Linked(q)
<1> DEFINE q == Append(s.path, l)
<1>0. PICK j \in DOMAIN Succ[s.loc] : l = Succ[s.loc][j]
  BY DEF Follows
<1>1. /\ s.path \in Seq(Loc) /\ s.path # <<>> /\ s.path[Len(s.path)] = s.loc
      /\ Linked(s.path)
  BY DEF TreePath
<1>2. Len(s.path) \in Nat \ {0}
  BY <1>1, EmptySeq
<1>3. /\ q \in Seq(Loc) /\ Len(q) = Len(s.path) + 1
      /\ \A k \in 1 .. Len(s.path) : q[k] = s.path[k]
      /\ q[Len(s.path) + 1] = l
  BY <1>1, AppendProperties
<1> HIDE DEF q
<1>4. q # <<>> /\ q[Len(q)] = l
  BY <1>2, <1>3
<1>5. PhiSelector(s.loc, l) = SelectorAt(q, Len(q))
  <2>1. Len(q) # 1 /\ Len(q) - 1 = Len(s.path) /\ Len(s.path) \in 1 .. Len(s.path)
    BY <1>2, <1>3
  <2>2. q[Len(q) - 1] = s.loc
    BY <1>1, <1>3, <2>1
  <2> QED BY <1>4, <2>1, <2>2 DEF SelectorAt
<1>6. Linked(q)
  <2>1. SUFFICES ASSUME NEW k \in 1 .. Len(q) - 1
                 PROVE  \E x \in DOMAIN Succ[q[k]] : q[k + 1] = Succ[q[k]][x]
    BY DEF Linked
  <2>2. CASE k = Len(s.path)
    <3>1. q[k] = s.loc /\ q[k + 1] = l
      BY <1>1, <1>2, <1>3, <2>2
    <3> QED BY <1>0, <3>1
  <2>3. CASE k # Len(s.path)
    <3>1. k \in 1 .. Len(s.path) - 1 /\ k \in 1 .. Len(s.path) /\ k + 1 \in 1 .. Len(s.path)
      BY <1>2, <1>3, <2>3
    <3>2. q[k] = s.path[k] /\ q[k + 1] = s.path[k + 1]
      BY <1>3, <3>1
    <3> QED BY <1>1, <3>1, <3>2 DEF Linked
  <2> QED BY <2>2, <2>3
<1> QED BY <1>3, <1>4, <1>5, <1>6 DEF q

\* The state that a round begins with.
LEMMA StartPath ==
  ASSUME ProgramAssumption
  PROVE  TreePath(Start) /\ Start.loc \notin Target
<1>1. /\ <<Entry>> \in Seq(Loc) /\ <<Entry>> # <<>> /\ Len(<<Entry>>) = 1
      /\ <<Entry>>[1] = Entry
  BY DEF ProgramAssumption
<1>2. Linked(<<Entry>>)
  BY <1>1 DEF Linked
<1> QED BY <1>1, <1>2 DEF TreePath, Start, SelectorAt, ProgramAssumption

\* The state being expanded and its next successor.
LEMMA NextSuccessor ==
  ASSUME ProgramAssumption, TypeOK, PathInv, todo # <<>>
  PROVE  /\ node[cur] \in Reached /\ TreePath(node[cur]) /\ Head(todo) \in Loc
         /\ Follows(node[cur], Head(todo))
<1>1. /\ node[cur] \in Reached /\ cur \in DOMAIN node
      /\ Head(todo) \in Loc /\ todo \in Seq(Loc)
  BY CurrentType DEF TypeOK
<1>2. Head(todo) = todo[1] /\ 1 \in DOMAIN todo
  BY <1>1, EmptySeq, LenProperties
<1>3. TreePath(node[cur]) /\ TodoFollows
  BY <1>1 DEF PathInv
<1> QED BY <1>1, <1>2, <1>3 DEF TodoFollows

\* The new state, in the tree of the round.
LEMMA AddPath ==
  ASSUME ProgramAssumption, TypeOK, PathInv, todo # <<>>,
         NEW s \in Abstract(node[cur], Head(todo)), Add(s)
  PROVE  /\ \A i \in DOMAIN node' : TreePath(node'[i])
         /\ Linked(Append(node[cur].path, s.loc))
<1>1. /\ DOMAIN node' = DOMAIN node \cup {Len(node) + 1}
      /\ \A i \in DOMAIN node : i # Len(node) + 1 /\ node'[i] = node[i]
      /\ node'[Len(node) + 1] =
           [loc |-> s.loc, sel |-> s.sel, lits |-> s.lits,
            path |-> Append(node[cur].path, s.loc)]
  BY AddShape
<1>2. s.loc = Head(todo) /\ s.sel = PhiSelector(node[cur].loc, Head(todo))
  BY AbstractIsSound
<1>3. PICK q : q = Append(node[cur].path, s.loc)
  OBVIOUS
<1>4. /\ q \in Seq(Loc) /\ q # <<>> /\ q[Len(q)] = s.loc
      /\ s.sel = SelectorAt(q, Len(q)) /\ Linked(q)
  <2>1. PICK r : r = node[cur]
    OBVIOUS
  <2>2. TreePath(r) /\ s.loc \in Loc /\ Follows(r, s.loc)
    BY <1>2, <2>1, NextSuccessor
  <2>3. PICK l : l = s.loc
    OBVIOUS
  <2>4. LET p == Append(r.path, l)
        IN  /\ p \in Seq(Loc) /\ p # <<>> /\ p[Len(p)] = l
            /\ PhiSelector(r.loc, l) = SelectorAt(p, Len(p)) /\ Linked(p)
    <3>1. TreePath(r) /\ l \in Loc /\ Follows(r, l)
      BY <2>2, <2>3
    <3> QED BY <3>1, LongerTreePath, Zenon
  <2>5. q = Append(r.path, l) /\ l = Head(todo) /\ s.sel = PhiSelector(r.loc, l)
    BY <1>2, <1>3, <2>1, <2>3
  <2> QED BY <2>3, <2>4, <2>5, Zenon
<1>5. TreePath(node'[Len(node) + 1])
  BY <1>1, <1>3, <1>4 DEF TreePath
<1>6. ASSUME NEW i \in DOMAIN node PROVE TreePath(node'[i])
  <2>1. TreePath(node[i])
    BY DEF PathInv
  <2> QED BY <1>1, <2>1
<1> QED BY <1>1, <1>3, <1>4, <1>5, <1>6

\* A target that is found in expand was not found before.
LEMMA TargetIsNew ==
  ASSUME PathInv, FindTarget
  PROVE  /\ mode' = "found" /\ todo # <<>> /\ todo' = <<>>
         /\ Kept(node[cur], Head(todo))
         /\ UNCHANGED <<cur, prec, errorPath, rest, phi, unknown>>
         /\ \E s \in Abstract(node[cur], Head(todo)) :
              Add(s) /\ path' = Append(node[cur].path, s.loc)
<1>1. /\ mode = "expand" /\ todo # <<>> /\ Head(todo) \in Target
      /\ Kept(node[cur], Head(todo))
  BY DEF FindTarget, Expanding
<1>2. ASSUME NEW s \in Abstract(node[cur], Head(todo)) PROVE ~Stop(s)
  <2>1. s.loc = Head(todo)
    BY AbstractIsSound
  <2> QED BY <1>1, <2>1 DEF PathInv, Stop, Cover
<1> QED BY <1>1, <1>2 DEF FindTarget

LEMMA PathInvStep ==
  ASSUME ProgramAssumption, TypeOK, PathInv, [Next]_vars
  PROVE  PathInv'
<1>2. CASE UNCHANGED vars
  BY <1>2 DEF vars, PathInv, TreePath, TodoFollows
<1>3. CASE Choose
  <2>1. UNCHANGED <<node, path, errorPath, mode>> /\ todo' = Succ[node'[cur'].loc]
    BY <1>3 DEF Choose
  <2>2. TodoFollows'
    BY <2>1 DEF TodoFollows, Follows
  <2> QED BY <2>1, <2>2 DEF PathInv
<1>4. CASE Prune \/ LeaveOut
  <2>1. /\ UNCHANGED <<node, cur, path, errorPath, mode>>
        /\ todo # <<>> /\ todo' = Tail(todo)
    BY <1>4 DEF Prune, LeaveOut, Expanding
  <2>2. \A x \in DOMAIN todo' : \E y \in DOMAIN todo : todo'[x] = todo[y]
    <3>1. todo \in Seq(Loc)
      BY DEF TypeOK
    <3>2. \A x \in DOMAIN Tail(todo) : \E y \in DOMAIN todo : Tail(todo)[x] = todo[y]
      BY <2>1, <3>1, TailElements
    <3> QED BY <2>1, <3>2
  <2>3. TodoFollows'
    <3>1. SUFFICES ASSUME NEW x \in DOMAIN todo'
                   PROVE  Follows(node[cur], todo'[x])
      BY <2>1 DEF TodoFollows
    <3>2. PICK y \in DOMAIN todo : todo'[x] = todo[y]
      BY <2>2, <3>1
    <3>3. Follows(node[cur], todo[y])
      BY <3>2 DEF PathInv, TodoFollows
    <3> QED BY <3>2, <3>3
  <2> QED BY <2>1, <2>3 DEF PathInv
<1>5. CASE AddState
  <2>1. /\ UNCHANGED <<cur, path, errorPath, mode>> /\ Head(todo) \notin Target
        /\ todo # <<>> /\ todo' = Tail(todo)
    BY <1>5 DEF AddState, Expanding
  <2>2. PICK s \in Abstract(node[cur], Head(todo)) : Add(s)
    BY <1>5 DEF AddState
  <2>3. \A i \in DOMAIN node' : TreePath(node'[i])
    BY <2>1, <2>2, AddPath
  <2>4. /\ DOMAIN node' = DOMAIN node \cup {Len(node) + 1}
        /\ \A i \in DOMAIN node : node'[i] = node[i]
        /\ node'[Len(node) + 1].loc = s.loc
    <3>1. node'[Len(node) + 1] =
            [loc |-> s.loc, sel |-> s.sel, lits |-> s.lits,
             path |-> Append(node[cur].path, s.loc)]
      BY <2>1, <2>2, AddShape, Zenon
    <3>2. node'[Len(node) + 1].loc = s.loc
      BY <3>1
    <3> QED BY <2>1, <2>2, <3>2, AddShape, Zenon
  <2>5. s.loc = Head(todo)
    BY <2>2, AbstractIsSound
  <2>6. \A x \in DOMAIN todo' : \E y \in DOMAIN todo : todo'[x] = todo[y]
    <3>1. todo \in Seq(Loc)
      BY DEF TypeOK
    <3>2. \A x \in DOMAIN Tail(todo) : \E y \in DOMAIN todo : Tail(todo)[x] = todo[y]
      BY <2>1, <3>1, TailElements
    <3> QED BY <2>1, <3>2
  <2>7. cur' = cur /\ node'[cur] = node[cur]
    BY <2>1, <2>4 DEF TypeOK
  <2>8. TodoFollows'
    BY <2>6, <2>7 DEF PathInv, TodoFollows
  <2>9. mode' = "expand" => \A i \in DOMAIN node' : node'[i].loc \notin Target
    BY <2>1, <2>4, <2>5 DEF PathInv
  <2> QED BY <2>1, <2>3, <2>8, <2>9 DEF PathInv
<1>6. CASE FindTarget
  <2>1. /\ mode' = "found" /\ todo # <<>> /\ todo' = <<>> /\ errorPath' = errorPath
    BY <1>6, TargetIsNew
  <2>2. PICK s \in Abstract(node[cur], Head(todo)) :
          Add(s) /\ path' = Append(node[cur].path, s.loc)
    BY <1>6, TargetIsNew
  <2>3. (\A i \in DOMAIN node' : TreePath(node'[i])) /\ Linked(path')
    BY <2>1, <2>2, AddPath
  <2>4. TodoFollows'
    BY <2>1 DEF TodoFollows
  <2> QED BY <2>1, <2>3, <2>4 DEF PathInv
<1>7. CASE ReportSafe \/ RefineFailed \/ Interpolate \/ NoInterpolant
  <2>1. UNCHANGED <<node, cur, todo, path, errorPath>> /\ mode' \notin {"expand", "hung"}
    BY <1>7 DEF ReportSafe, RefineFailed, Interpolate, NoInterpolant
  <2> QED BY <2>1 DEF PathInv, TodoFollows
<1>8. CASE ReportError \/ StartRefine
  <2>1. /\ UNCHANGED <<node, cur, todo, path>> /\ errorPath' = path
        /\ mode' \notin {"expand", "hung"}
    BY <1>8 DEF ReportError, StartRefine
  <2> QED BY <2>1 DEF PathInv, TodoFollows
<1>9. CASE Restart
  <2>1. /\ node' = <<Start>> /\ DOMAIN node' = {1} /\ node'[1] = Start
        /\ todo' = <<>> /\ mode' = "expand" /\ UNCHANGED <<path, errorPath>>
    BY <1>9 DEF Restart
  <2>2. TodoFollows'
    BY <2>1 DEF TodoFollows
  <2> QED BY <2>1, <2>2, StartPath DEF PathInv
<1> QED BY <1>2, <1>3, <1>4, <1>5, <1>6, <1>7, <1>8, <1>9 DEF Next

LEMMA PathInvariant == Spec => []PathInv
<1>1. Init => PathInv
  <2>1. SUFFICES ASSUME Init PROVE PathInv
    OBVIOUS
  <2>2. /\ node = <<Start>> /\ DOMAIN node = {1} /\ node[1] = Start /\ todo = <<>>
        /\ mode = "expand"
    <3>1. node = <<Start>> /\ todo = <<>> /\ mode = "expand"
      BY <2>1 DEF Init
    <3> QED BY <3>1
  <2>3. Linked(path) /\ Linked(errorPath) /\ TodoFollows
    <3>1. path = <<>> /\ errorPath = <<>> /\ Len(<<>>) = 0
      BY <2>1 DEF Init
    <3>2. Linked(path) /\ Linked(errorPath)
      BY <3>1 DEF Linked
    <3> QED BY <2>2, <3>2 DEF TodoFollows
  <2> QED BY <2>2, <2>3, StartPath, ProgramAssumption DEF PathInv
<1>2. TypeOK /\ PathInv /\ [Next]_vars => PathInv'
  BY ProgramAssumption, PathInvStep
<1> QED BY <1>1, <1>2, VisitTypeCorrect, PTL DEF Spec

(***************************************************************************)
(* The UNSAFE verdict of visit shows an execution from the entry to a      *)
(* target, also with the cover of the default setting and a solver that    *)
(* gives up.                                                               *)
(***************************************************************************)
THEOREM UnsafeVerdictIsReal == Spec => []UnsafeIsReal
<1>1. VisitInv /\ PathInv => UnsafeIsReal
  <2>1. SUFFICES ASSUME UnsafePath, PathInv, mode = "UNSAFE" PROVE UnsafeIsReal
    BY DEF VisitInv, UnsafeIsReal
  <2>2. /\ errorPath \in Seq(Loc) /\ errorPath # <<>>
        /\ errorPath[1] = Entry /\ errorPath[Len(errorPath)] \in Target
        /\ Feasible(errorPath) /\ Linked(errorPath)
    BY <2>1 DEF UnsafePath, PathInv
  <2>3. Len(errorPath) \in 1 .. Len(errorPath)
    BY <2>2, EmptySeq
  <2>4. PICK w : w \in Along(errorPath)[Len(errorPath)]
    BY <2>2 DEF Feasible
  <2>5. PICK x \in [1 .. Len(errorPath) -> Val] :
          \A k \in 1 .. Len(errorPath) - 1 :
            <<x[k], x[k + 1]>> \in Step[<<SelectorAt(errorPath, k), errorPath[k], errorPath[k + 1]>>]
    BY <2>2, <2>3, <2>4, AlongHasRun
  <2>6. IsRun(errorPath, x)
    BY <2>2, <2>5 DEF IsRun, Linked
  <2> QED BY <2>2, <2>6 DEF UnsafeIsReal
<1> QED BY <1>1, VisitInvariant, PathInvariant, PTL

(***************************************************************************)
(* The SAFE verdict of visit rests on an inductive invariant of the        *)
(* program, when AbstractState::sound is set.                              *)
(***************************************************************************)
THEOREM SafeVerdictIsInductive == Spec => [](Sound => SafeIsInductive)
<1> DEFINE Inv == VisitInv /\ (Sound => NothingLost)
<1>1. Init => Inv
  BY ProgramAssumption, InitInv
<1>2. Inv /\ [Next]_vars => Inv'
  BY ProgramAssumption, NextVisitInv
<1>3. Inv => (Sound => SafeIsInductive)
  <2>1. SUFFICES ASSUME VisitInv, NothingLost, mode = "SAFE"
                 PROVE  SafeIsInductive
    BY DEF SafeIsInductive
  <2>2. /\ node[1] = Start /\ waitList = <<>> /\ todo = <<>> /\ Explored
        /\ \A i \in DOMAIN node : node[i].loc \notin Target
    BY <2>1 DEF NothingLost
  <2>3. 1 \in DOMAIN node
    BY <2>1, EmptySeq, LenProperties DEF VisitInv, TypeOK
  <2>4. node[1].loc = Entry /\ node[1].sel = NoLoc /\ Gamma(node[1]) = Val
    BY <2>2 DEF Start, Gamma
  <2>5. \A i \in DOMAIN node : \A k \in DOMAIN Succ[node[i].loc] :
          Covered(node[i], Succ[node[i].loc][k])
    BY <2>2 DEF Explored, Waiting, Pending
  <2>6. ASSUME NEW i \in DOMAIN node, NEW k \in DOMAIN Succ[node[i].loc],
               NEW w \in Post(node[i], Succ[node[i].loc][k])
        PROVE  \E j \in DOMAIN node :
                 /\ node[j].loc = Succ[node[i].loc][k]
                 /\ node[j].sel = PhiSelector(node[i].loc, Succ[node[i].loc][k])
                 /\ w \in Gamma(node[j])
    BY <2>5 DEF Covered
  <2>7. \E i \in DOMAIN node :
          node[i].loc = Entry /\ node[i].sel = NoLoc /\ Gamma(node[i]) = Val
    BY <2>3, <2>4, Zenon
  <2> QED BY <2>2, <2>6, <2>7, Zenon DEF SafeIsInductive
<1> QED BY <1>1, <1>2, <1>3, PTL DEF Spec

\* A valuation that the program can reach from one of the state r is in Post.
LEMMA InPost ==
  ASSUME NEW r, NEW m, NEW v \in Gamma(r), NEW w \in Val,
         <<v, w>> \in Step[<<r.sel, r.loc, m>>]
  PROVE  w \in Post(r, m)
<1> DEFINE T(u) == {x \in Val : <<u, x>> \in Step[<<r.sel, r.loc, m>>]}
<1>1. w \in T(v)
  OBVIOUS
<1>2. Post(r, m) = UNION {T(u) : u \in Gamma(r)}
  BY DEF Post, Image
<1> HIDE DEF T
<1> QED BY <1>1, <1>2

\* With the SAFE verdict, every successor of a reached state is covered.
LEMMA SuccessorsCovered ==
  ASSUME mode = "SAFE", SafeIsInductive
  PROVE  \A i \in DOMAIN node : \A k \in DOMAIN Succ[node[i].loc] :
           Covered(node[i], Succ[node[i].loc][k])
<1> SUFFICES ASSUME NEW i \in DOMAIN node, NEW k \in DOMAIN Succ[node[i].loc]
             PROVE  Covered(node[i], Succ[node[i].loc][k])
  OBVIOUS
<1>1. \A w \in Post(node[i], Succ[node[i].loc][k]) :
        \E j \in DOMAIN node :
          /\ node[j].loc = Succ[node[i].loc][k]
          /\ node[j].sel = PhiSelector(node[i].loc, Succ[node[i].loc][k])
          /\ w \in Gamma(node[j])
  BY DEF SafeIsInductive
<1> QED BY <1>1 DEF Covered

\* Every configuration that a run can be in lies in a reached state once the
\* reached states are inductive.
LEMMA RunsStayReached ==
  ASSUME ProgramAssumption, mode = "SAFE", SafeIsInductive
  PROVE  \A n \in 1 .. RunLength : \A c \in After[n] :
           \E i \in DOMAIN node :
             node[i].loc = c.loc /\ node[i].sel = c.sel /\ c.val \in Gamma(node[i])
<1>1. RunLength \in Nat
  BY DEF ProgramAssumption
<1>2. \A i \in DOMAIN node : \A k \in DOMAIN Succ[node[i].loc] :
        Covered(node[i], Succ[node[i].loc][k])
  BY SuccessorsCovered
<1> DEFINE Contained(c) ==
             \E i \in DOMAIN node :
               node[i].loc = c.loc /\ node[i].sel = c.sel /\ c.val \in Gamma(node[i])
           P == {n \in 1 .. RunLength : \A c \in After[n] : Contained(c)}
<1>3. CASE RunLength = 0
  BY <1>3
<1>4. CASE RunLength # 0
  <2>1. 1 \in P
    <3>1. 1 \in 1 .. RunLength
      BY <1>1, <1>4
    <3>2. After[1] = {c \in Config : c.loc = Entry /\ c.sel = NoLoc}
      BY <3>1, AfterRecursion
    <3>3. PICK i \in DOMAIN node :
            node[i].loc = Entry /\ node[i].sel = NoLoc /\ Gamma(node[i]) = Val
      BY DEF SafeIsInductive
    <3>4. ASSUME NEW c \in After[1] PROVE Contained(c)
      <4>1. c.loc = Entry /\ c.sel = NoLoc /\ c.val \in Val
        BY <3>2 DEF Config
      <4> QED BY <3>3, <4>1
    <3> HIDE DEF Contained
    <3> QED BY <3>1, <3>4
  <2>2. ASSUME NEW n \in 1 .. RunLength - 1, n \in P PROVE n + 1 \in P
    <3>1. n + 1 \in 1 .. RunLength /\ n + 1 # 1 /\ (n + 1) - 1 = n
      BY <1>1
    <3>2. After[n + 1] = {d \in Config : \E c \in After[n] : ProgramStep(c, d)}
      <4>1. After[n + 1] =
              {d \in Config : \E c \in After[(n + 1) - 1] : ProgramStep(c, d)}
        BY <3>1, AfterRecursion, Zenon
      <4> QED BY <3>1, <4>1
    <3>3. ASSUME NEW d \in After[n + 1] PROVE Contained(d)
      <4>1. d.val \in Val /\ d \in Config
        BY <3>2 DEF Config
      <4>2. PICK c \in After[n] : ProgramStep(c, d)
        BY <3>2
      <4>3. PICK i \in DOMAIN node :
              node[i].loc = c.loc /\ node[i].sel = c.sel /\ c.val \in Gamma(node[i])
        BY <2>2
      <4>4. PICK k \in DOMAIN Succ[node[i].loc] : d.loc = Succ[node[i].loc][k]
        BY <4>2, <4>3 DEF ProgramStep
      <4>5. d.val \in Post(node[i], d.loc)
        <5>1. <<c.val, d.val>> \in Step[<<node[i].sel, node[i].loc, d.loc>>]
          BY <4>2, <4>3 DEF ProgramStep
        <5> HIDE DEF Contained, P
        <5>2. PICK r, v, w, m : r = node[i] /\ v = c.val /\ w = d.val /\ m = d.loc
          OBVIOUS
        <5>3. v \in Gamma(r) /\ w \in Val /\ <<v, w>> \in Step[<<r.sel, r.loc, m>>]
          BY <4>1, <4>3, <5>1, <5>2
        <5>4. w \in Post(r, m)
          BY <5>3, InPost
        <5> QED BY <5>2, <5>4
      <4>6. \E j \in DOMAIN node :
              /\ node[j].loc = d.loc /\ node[j].sel = PhiSelector(node[i].loc, d.loc)
              /\ d.val \in Gamma(node[j])
        <5> HIDE DEF Contained, P
        <5> HIDE DEF Contained, P
        <5>1. Covered(node[i], d.loc)
          BY <1>2, <4>4
        <5> QED BY <4>5, <5>1 DEF Covered
      <4> QED BY <4>2, <4>3, <4>6 DEF ProgramStep
    <3> HIDE DEF Contained
    <3> QED BY <3>1, <3>3
  <2>3. \A n \in 1 .. RunLength : n \in P
    <3> HIDE DEF P
    <3> QED BY <1>1, <2>1, <2>2, IntervalInduction
  <2> QED BY <2>3
<1> QED BY <1>3, <1>4

(***************************************************************************)
(* The SAFE verdict of visit means what it says, when AbstractState::sound *)
(* is set: no run of the program, of any length, enters a target.          *)
(***************************************************************************)
THEOREM SafeVerdictIsSafe == Spec => [](Sound => SafeIsSafe)
<1>1. SafeIsInductive => SafeIsSafe
  <2>1. SUFFICES ASSUME SafeIsInductive, mode = "SAFE",
                        NEW n \in 1 .. RunLength, NEW c \in After[n]
                 PROVE  c.loc \notin Target
    BY DEF SafeIsSafe
  <2>2. PICK i \in DOMAIN node : node[i].loc = c.loc
    BY <2>1, ProgramAssumption, RunsStayReached
  <2> QED BY <2>1, <2>2 DEF SafeIsInductive
<1>2. (Sound => SafeIsInductive) => (Sound => SafeIsSafe)
  BY <1>1
<1> QED BY <1>2, SafeVerdictIsInductive, PTL
-----------------------------------------------------------------------------
(***************************************************************************)
(* What a refinement leaves behind. Chain: from block j of the path p on,  *)
(* I holds predicates that the precision tracks at the blocks of p, each   *)
(* leads over the edge of p into the next, and the last is false.          *)
(***************************************************************************)
Agrees(q, p, n) == \A k \in 1 .. n : q[k] = p[k]

Chain(p, n, I, j) ==
  /\ I[n + 1] = {}
  /\ \A k \in j .. n :
       /\ I[k] \in prec[p[k]]
       /\ Image(I[k], SelectorAt(p, k), p[k], p[k + 1]) \subseteq I[k + 1]

\* No reached state has come along p as far as its block n + 1, and one that has
\* come along p up to some block before it lies within the predicate of the block.
WithinChain(s, p, n, I) ==
  /\ Len(s.path) <= n /\ Agrees(s.path, p, Len(s.path)) => Gamma(s) \subseteq I[Len(s.path)]
  /\ Len(s.path) > n => ~Agrees(s.path, p, n + 1)

ExcludedBy(p, n, I) ==
  /\ I[1] = Val /\ Chain(p, n, I, 1)
  /\ \A i \in DOMAIN node : WithinChain(node[i], p, n, I)

Excluded(p) ==
  \E n \in 1 .. Len(p) - 1 : \E I \in [1 .. n + 1 -> SUBSET Val] : ExcludedBy(p, n, I)

\* What refine has done of it when rest is left of the path.
RefiningBy(n, I) ==
  /\ Len(rest) \in 1 .. n + 1 /\ Agrees(rest, errorPath, Len(rest))
  /\ phi = I[Len(rest)] /\ Along(errorPath)[Len(rest)] \subseteq phi
  /\ Chain(errorPath, n, I, Len(rest))

Refining ==
  \E n \in 1 .. Len(errorPath) - 1 : \E I \in [1 .. n + 1 -> SUBSET Val] :
    RefiningBy(n, I)

ExclusionInv ==
  /\ mode \in {"expand", "found"} /\ errorPath # <<>> => Excluded(errorPath)
  /\ mode = "found" => path # errorPath
  /\ mode = "refine" => Refining
  /\ mode \notin {"refine failed", "aborted"}

\* An edge of p leads from within the predicate of a block into the next.
LEMMA EdgeOfChain ==
  ASSUME NEW p, NEW n \in Nat, NEW I, Chain(p, n, I, 1), NEW k \in 1 .. n,
         NEW s, s.loc = p[k], s.sel = SelectorAt(p, k), Gamma(s) \subseteq I[k]
  PROVE  Post(s, p[k + 1]) \subseteq I[k + 1]
<1>1. Post(s, p[k + 1]) \subseteq Image(I[k], SelectorAt(p, k), p[k], p[k + 1])
  BY DEF Post, Image
<1>2. Image(I[k], SelectorAt(p, k), p[k], p[k + 1]) \subseteq I[k + 1]
  BY DEF Chain
<1> QED BY <1>1, <1>2

\* The abstraction of a successor at a block whose precision tracks a predicate
\* that holds after the edge asserts it, if the solver answers.
LEMMA AbstractKeeps ==
  ASSUME ~MayFail, NEW r, NEW m, NEW s \in Abstract(r, m),
         NEW J \in prec[m], Post(r, m) \subseteq J
  PROVE  Gamma(s) \subseteq J
<1>1. EndPrecision(r, m) = prec[m]
  BY DEF EndPrecision
<1>2. s = [loc |-> m, sel |-> PhiSelector(r.loc, m), lits |-> Known(Post(r, m), prec[m])]
  BY <1>1 DEF Abstract
<1>3. PICK x : x = [pred |-> J, pos |-> TRUE]
  OBVIOUS
<1>4. x \in [pred : prec[m], pos : BOOLEAN] /\ Holds(x) = J
  BY <1>3 DEF Holds
<1>5. x \in s.lits /\ x.pred \in prec[s.loc]
  BY <1>2, <1>3, <1>4 DEF Known
<1> QED BY <1>4, <1>5 DEF Gamma

\* A new state keeps to the chain of a path that was refined.
LEMMA AddWithinChain ==
  ASSUME ProgramAssumption, TypeOK, PathInv, ~MayFail, todo # <<>>,
         NEW s \in Abstract(node[cur], Head(todo)), Add(s), UNCHANGED prec,
         Kept(node[cur], Head(todo)),
         NEW p \in Seq(Loc), NEW n \in 1 .. Len(p) - 1, NEW I, Chain(p, n, I, 1),
         \A i \in DOMAIN node : WithinChain(node[i], p, n, I)
  PROVE  \A i \in DOMAIN node' : WithinChain(node[i], p, n, I)'
<1>1. PICK r, m, new : r = node[cur] /\ m = Head(todo) /\ new = Len(node) + 1
  OBVIOUS
<1>0. PICK q, t : q = Append(r.path, m) /\ t = node'[new]
  OBVIOUS
<1>2. s.loc = m /\ s.sel = PhiSelector(r.loc, m) /\ s \in Abstract(r, m)
  BY <1>1, AbstractIsSound
<1>3. /\ DOMAIN node' = DOMAIN node \cup {new}
      /\ \A i \in DOMAIN node : i # new /\ node'[i] = node[i]
      /\ t = [loc |-> s.loc, sel |-> s.sel, lits |-> s.lits, path |-> q]
  BY <1>0, <1>1, <1>2, AddShape, Zenon
<1>4. /\ TreePath(r) /\ m \in Loc /\ Follows(r, m)
      /\ WithinChain(r, p, n, I)
  BY <1>1, NextSuccessor DEF TypeOK
<1>5. /\ q \in Seq(Loc) /\ Len(q) = Len(r.path) + 1 /\ q[Len(q)] = m
      /\ \A k \in 1 .. Len(r.path) : q[k] = r.path[k]
  <2>1. LET x == Append(r.path, m)
        IN  /\ x \in Seq(Loc) /\ Len(x) = Len(r.path) + 1 /\ x[Len(x)] = m
            /\ \A k \in 1 .. Len(r.path) : x[k] = r.path[k]
    BY <1>4, LongerTreePath, Zenon
  <2> QED BY <1>0, <2>1
<1>6. /\ r.path \in Seq(Loc) /\ r.path[Len(r.path)] = r.loc
      /\ r.sel = SelectorAt(r.path, Len(r.path))
      /\ Len(r.path) \in Nat \ {0}
  <2>1. r.path \in Seq(Loc) /\ r.path # <<>>
    BY <1>4 DEF TreePath
  <2> QED BY <1>4, <2>1, EmptySeq DEF TreePath
<1>7. PICK L : L = Len(r.path)
  OBVIOUS
<1>8. ASSUME L <= n, Agrees(q, p, L), q[L + 1] = p[L + 1]
      PROVE  Post(r, m) \subseteq I[L + 1] /\ m = p[L + 1]
  <2>1. L \in 1 .. n /\ L \in Nat /\ Len(q) = L + 1
    BY <1>5, <1>6, <1>7, <1>8
  <2>2. Agrees(r.path, p, L)
    BY <1>5, <1>7, <1>8 DEF Agrees
  <2>3. Gamma(r) \subseteq I[L]
    BY <1>4, <1>7, <1>8, <2>2 DEF WithinChain
  <2>4. r.loc = p[L] /\ m = p[L + 1]
    <3>1. L \in 1 .. L /\ r.path[L] = r.loc /\ q[L + 1] = m
      BY <1>5, <1>6, <1>7, <2>1
    <3> QED BY <1>8, <2>2, <3>1 DEF Agrees
  <2>5. r.sel = SelectorAt(p, L)
    <3>1. L # 1 => L - 1 \in 1 .. L
      BY <2>1
    <3>2. L \in 1 .. L
      BY <2>1
    <3> QED BY <1>6, <1>7, <2>2, <3>1, <3>2 DEF SelectorAt, Agrees
  <2>6. n \in Nat
    OBVIOUS
  <2> QED BY <2>1, <2>3, <2>4, <2>5, <2>6, EdgeOfChain
<1>9. WithinChain(t, p, n, I)'
  <2>1. t.path = q /\ Gamma(t)' = Gamma(s)
    BY <1>3 DEF Gamma
  <2>2. ASSUME Len(q) <= n, Agrees(q, p, Len(q)) PROVE Gamma(s) \subseteq I[Len(q)]
    <3>1. Len(q) = L + 1 /\ L \in Nat \ {0} /\ L + 1 \in 1 .. n
      BY <1>5, <1>6, <1>7, <2>2
    <3>2. Agrees(q, p, L) /\ q[L + 1] = p[L + 1]
      BY <2>2, <3>1 DEF Agrees
    <3>3. Post(r, m) \subseteq I[L + 1] /\ m = p[L + 1]
      BY <1>8, <3>1, <3>2
    <3>4. I[L + 1] \in prec[m]
      BY <3>1, <3>3 DEF Chain
    <3> QED BY <1>2, <3>1, <3>3, <3>4, AbstractKeeps
  <2>3. ASSUME Len(q) > n, Agrees(q, p, n + 1) PROVE FALSE
    <3>1. Len(q) = L + 1 /\ L \in Nat \ {0} /\ n \in Nat /\ L >= n
      BY <1>5, <1>6, <1>7, <2>3
    <3>2. CASE L > n
      <4>1. \A k \in 1 .. n + 1 : k \in 1 .. L
        BY <3>1, <3>2
      <4>2. Agrees(r.path, p, n + 1)
        BY <1>5, <1>7, <2>3, <4>1 DEF Agrees
      <4> QED BY <1>4, <1>7, <3>2, <4>2 DEF WithinChain
    <3>3. CASE L = n
      <4>1. Agrees(q, p, L) /\ q[L + 1] = p[L + 1]
        BY <2>3, <3>1, <3>3 DEF Agrees
      <4>2. Post(r, m) \subseteq I[n + 1]
        BY <1>8, <3>1, <3>3, <4>1
      <4>3. Post(r, m) = {}
        BY <4>2 DEF Chain
      <4> QED BY <1>1, <4>3 DEF Kept
    <3> QED BY <3>1, <3>2, <3>3
  <2> QED BY <2>1, <2>2, <2>3 DEF WithinChain
<1>10. ASSUME NEW i \in DOMAIN node PROVE WithinChain(node[i], p, n, I)'
  <2>1. WithinChain(node[i], p, n, I) /\ node'[i] = node[i]
    BY <1>3
  <2>2. Gamma(node[i])' = Gamma(node[i])
    BY <1>3 DEF Gamma
  <2> QED BY <2>1, <2>2 DEF WithinChain
<1>11. WithinChain(node[new], p, n, I)'
  BY <1>0, <1>9 DEF WithinChain, Gamma
<1>12. SUFFICES ASSUME NEW i \in DOMAIN node' PROVE WithinChain(node[i], p, n, I)'
  OBVIOUS
<1>13. i \in DOMAIN node \/ i = new
  BY <1>3
<1> QED BY <1>10, <1>11, <1>13
\* Steps of expand that add no state leave the chain alone.
LEMMA ExcludedStays ==
  ASSUME UNCHANGED <<node, prec>>, NEW p, Excluded(p)
  PROVE  Excluded(p)'
<1>1. ASSUME NEW n, NEW I, ExcludedBy(p, n, I) PROVE ExcludedBy(p, n, I)'
  <2>1. Chain(p, n, I, 1)'
    BY <1>1 DEF ExcludedBy, Chain
  <2>2. \A i \in DOMAIN node' : WithinChain(node[i], p, n, I)'
    BY <1>1 DEF ExcludedBy, WithinChain, Gamma
  <2> QED BY <1>1, <2>1, <2>2 DEF ExcludedBy
<1> QED BY <1>1 DEF Excluded

\* Steps of expand that add a state keep the path excluded, and the new state
\* has not come along it.
LEMMA ExcludedAdd ==
  ASSUME ProgramAssumption, TypeOK, PathInv, ~MayFail, todo # <<>>,
         NEW s \in Abstract(node[cur], Head(todo)), Add(s), UNCHANGED prec,
         Kept(node[cur], Head(todo)),
         NEW p \in Seq(Loc), Excluded(p)
  PROVE  Excluded(p)' /\ p # Append(node[cur].path, s.loc)
<1>0. PICK n \in 1 .. Len(p) - 1 : \E I \in [1 .. n + 1 -> SUBSET Val] : ExcludedBy(p, n, I)
  BY DEF Excluded
<1>1. PICK I \in [1 .. n + 1 -> SUBSET Val] :
        /\ I[1] = Val /\ Chain(p, n, I, 1)
        /\ \A i \in DOMAIN node : WithinChain(node[i], p, n, I)
  BY <1>0 DEF ExcludedBy
<1>2. Chain(p, n, I, 1)'
  BY <1>1 DEF Chain
<1>3. \A i \in DOMAIN node' : WithinChain(node[i], p, n, I)'
  BY <1>1, AddWithinChain
<1>4. PICK new : new = Len(node) + 1
  OBVIOUS
<1>5. PICK q : q = Append(node[cur].path, s.loc)
  OBVIOUS
<1>8. new \in DOMAIN node' /\ node'[new].path = q
  <2>1. DOMAIN node' = DOMAIN node \cup {Len(node) + 1}
    BY AddShape, Zenon
  <2>2. node'[Len(node) + 1] =
          [loc |-> s.loc, sel |-> s.sel, lits |-> s.lits,
           path |-> Append(node[cur].path, s.loc)]
    BY AddShape, Zenon
  <2>3. node'[new] = [loc |-> s.loc, sel |-> s.sel, lits |-> s.lits, path |-> q]
    BY <1>4, <1>5, <2>2
  <2>4. new \in DOMAIN node'
    BY <1>4, <2>1
  <2> QED BY <2>3, <2>4
<1>6. p # q
  <2>1. Len(p) \in Nat /\ Len(p) > n
    BY <1>1
  <2>2. WithinChain(node[new], p, n, I)'
    BY <1>3, <1>8
  <2>3. Len(q) > n => ~Agrees(q, p, n + 1)
    BY <1>8, <2>2 DEF WithinChain, Agrees
  <2> QED BY <2>1, <2>3 DEF Agrees
<1>7. ExcludedBy(p, n, I)'
  BY <1>1, <1>2, <1>3 DEF ExcludedBy
<1> QED BY <1>5, <1>6, <1>7 DEF Excluded

\* refine begins with a prefix of the path that ends where no valuation arrives.
LEMMA StartRefining ==
  ASSUME TypeOK, FoundTarget, ~MayFail, StartRefine
  PROVE  Refining' /\ mode' = "refine"
<1>1. PICK n \in 1 .. Len(path) - 1 :
        /\ \A k \in n + 1 .. Len(path) - 1 : Along(path)[k] = {}
        /\ rest' = SubSeq(path, 1, n + 1)
  BY DEF StartRefine
<1>2. /\ path \in Seq(Loc) /\ Len(path) \in Nat /\ ~Feasible(path)
      /\ errorPath' = path /\ phi' = {} /\ mode' = "refine"
  BY DEF StartRefine, TypeOK
<1>3. n + 1 \in 1 .. Len(path) /\ n \in Nat
  BY <1>2
<1>4. Len(rest') = n + 1 /\ \A k \in 1 .. n + 1 : rest'[k] = path[k]
  <2>1. \A k \in 1 .. n + 1 : path[k] \in Loc
    BY <1>2, <1>3, ElementOfSeq
  <2>2. /\ Len(rest') = IF 1 <= n + 1 THEN (n + 1) - 1 + 1 ELSE 0
        /\ \A k \in 1 .. (n + 1) - 1 + 1 : rest'[k] = path[1 + k - 1]
    BY <1>1, <1>2, <1>3, <2>1, SubSeqProperties
  <2> QED BY <1>3, <2>2
<1>5. Along(path)[n + 1] = {}
  <2>1. CASE n + 1 = Len(path)
    BY <1>2, <2>1 DEF Feasible
  <2>2. CASE n + 1 # Len(path)
    BY <1>1, <1>2, <1>3, <2>2
  <2> QED BY <2>1, <2>2
<1>6. PICK I : I = [k \in 1 .. n + 1 |-> {}]
  OBVIOUS
<1>7. /\ I \in [1 .. n + 1 -> SUBSET Val] /\ I[n + 1] = {}
      /\ \A k : k \notin n + 1 .. n
  BY <1>3, <1>6
<1>8. Chain(errorPath, n, I, Len(rest))'
  BY <1>4, <1>7 DEF Chain
<1>9. Agrees(rest, errorPath, Len(rest))'
  BY <1>2, <1>4 DEF Agrees
<1>10. RefiningBy(n, I)'
  BY <1>2, <1>3, <1>4, <1>5, <1>7, <1>8, <1>9 DEF RefiningBy
<1> QED BY <1>2, <1>7, <1>10 DEF Refining

\* The edge that a turn of refine is about. Nothing enters its block that does
\* not lead into phi, so that there is an interpolant.
LEMMA LastEdgeOfPath ==
  ASSUME TypeOK, NEW n \in 1 .. Len(errorPath) - 1, Len(rest) > 1,
         Len(rest) \in 1 .. n + 1, Agrees(rest, errorPath, Len(rest)),
         Along(errorPath)[Len(rest)] \subseteq phi
  PROVE  /\ LastEdge \in 1 .. n /\ LastEdge + 1 = Len(rest)
         /\ rest[LastEdge] = errorPath[LastEdge]
         /\ rest[LastEdge + 1] = errorPath[LastEdge + 1]
         /\ SelectorAt(rest, LastEdge) = SelectorAt(errorPath, LastEdge)
         /\ Before = Along(errorPath)[LastEdge] /\ Before \subseteq MeetsPhi
<1>1. /\ rest \in Seq(Loc) /\ errorPath \in Seq(Loc)
      /\ Len(rest) \in Nat /\ Len(errorPath) \in Nat
  BY DEF TypeOK
<1>2. PICK m : m = Len(rest) - 1
  OBVIOUS
<1>3. /\ LastEdge = m /\ m \in 1 .. n /\ m + 1 = Len(rest) /\ m \in Nat
      /\ m \in 1 .. Len(rest) /\ m + 1 \in 1 .. Len(rest)
      /\ m + 1 \in 1 .. Len(errorPath) /\ m \in 1 .. Len(errorPath)
  BY <1>1, <1>2 DEF LastEdge
<1>4. rest[m] = errorPath[m] /\ rest[m + 1] = errorPath[m + 1]
  BY <1>3 DEF Agrees
<1>5. SelectorAt(rest, m) = SelectorAt(errorPath, m)
  <2>1. m # 1 => m - 1 \in 1 .. Len(rest)
    BY <1>3
  <2> QED BY <1>4, <2>1 DEF SelectorAt, Agrees
<1>6. Along(rest)[m] = Along(errorPath)[m]
  <2>1. /\ Len(rest) <= Len(errorPath)
        /\ \A k \in 1 .. Len(rest) : rest[k] = errorPath[k]
    BY <1>1 DEF Agrees
  <2>2. \A k \in 1 .. Len(rest) : Along(rest)[k] = Along(errorPath)[k]
    BY <1>1, <2>1, AlongPrefix
  <2> QED BY <1>3, <2>2
<1>7. Before = Along(errorPath)[m]
  <2>1. Along(errorPath)[m] \in SUBSET Val
    BY <1>1, <1>3, AlongRecursion
  <2> QED BY <1>3, <1>6, <2>1 DEF Before
<1>8. Image(Along(errorPath)[m], SelectorAt(errorPath, m), errorPath[m], errorPath[m + 1])
        \subseteq phi
  <2>1. m + 1 # 1 /\ (m + 1) - 1 = m
    BY <1>3
  <2>2. Along(errorPath)[m + 1] =
          Image(Along(errorPath)[(m + 1) - 1], SelectorAt(errorPath, (m + 1) - 1),
                errorPath[(m + 1) - 1], errorPath[m + 1])
    BY <1>1, <1>3, <2>1, AlongRecursion, Zenon
  <2> QED BY <1>3, <2>1, <2>2
<1>9. Before \subseteq MeetsPhi
  <2>1. SUFFICES ASSUME NEW v \in Along(errorPath)[m], v \in Val
                 PROVE  Image({v}, SelectorAt(rest, m), rest[m], rest[m + 1]) \subseteq phi
    BY <1>3, <1>7 DEF MeetsPhi, Before
  <2>2. Image({v}, SelectorAt(errorPath, m), errorPath[m], errorPath[m + 1])
          \subseteq
        Image(Along(errorPath)[m], SelectorAt(errorPath, m), errorPath[m], errorPath[m + 1])
    BY <2>1 DEF Image
  <2> QED BY <1>4, <1>5, <1>8, <2>2
<1> QED BY <1>3, <1>4, <1>5, <1>7, <1>9
\* What execution can be after an edge, it can be after it from one valuation.
LEMMA ImageOfOne ==
  ASSUME NEW V, NEW sel, NEW l, NEW m, NEW w \in Image(V, sel, l, m)
  PROVE  \E v \in V : w \in Image({v}, sel, l, m)
<1>1. PICK v \in V : w \in Val /\ <<v, w>> \in Step[<<sel, l, m>>]
  BY DEF Image
<1>2. w \in {u \in Val : <<v, u>> \in Step[<<sel, l, m>>]} /\ v \in {v}
  BY <1>1
<1>3. w \in Image({v}, sel, l, m)
  BY <1>2 DEF Image
<1> QED BY <1>3

\* A turn of refine adds its interpolant to the chain.
LEMMA InterpolateRefines ==
  ASSUME ProgramAssumption, TypeOK, Refining, Interpolate
  PROVE  Refining' /\ mode' = "refine"
<1>0. PICK n \in 1 .. Len(errorPath) - 1 :
        \E I \in [1 .. n + 1 -> SUBSET Val] : RefiningBy(n, I)
  BY DEF Refining
<1>1. PICK I \in [1 .. n + 1 -> SUBSET Val] : RefiningBy(n, I)
  BY <1>0
<1>2. /\ Len(rest) > 1 /\ Len(rest) \in 1 .. n + 1
      /\ Agrees(rest, errorPath, Len(rest))
      /\ phi = I[Len(rest)] /\ Along(errorPath)[Len(rest)] \subseteq phi
      /\ Chain(errorPath, n, I, Len(rest))
  BY <1>1 DEF RefiningBy, Interpolate
<1>3. PICK m : m = LastEdge
  OBVIOUS
<1>4. /\ m \in 1 .. n /\ m + 1 = Len(rest)
      /\ rest[m] = errorPath[m] /\ rest[m + 1] = errorPath[m + 1]
      /\ SelectorAt(rest, m) = SelectorAt(errorPath, m)
      /\ Before = Along(errorPath)[m]
  BY <1>2, <1>3, LastEdgeOfPath
<1>5. PICK J : Before \subseteq J /\ J \subseteq MeetsPhi /\ AddPredicate(J)
  BY DEF Interpolate
<1>6. /\ rest \in Seq(Loc) /\ errorPath \in Seq(Loc) /\ prec \in [Loc -> SUBSET SUBSET Val]
      /\ m \in Nat /\ n \in Nat /\ J \in SUBSET Val
      /\ errorPath' = errorPath /\ mode' = "refine"
  <2>1. J \in SUBSET Val
    BY <1>5 DEF MeetsPhi
  <2>2. errorPath' = errorPath /\ mode' = "refine"
    BY DEF Interpolate
  <2>3. rest \in Seq(Loc) /\ errorPath \in Seq(Loc) /\ prec \in [Loc -> SUBSET SUBSET Val]
    BY DEF TypeOK
  <2>4. Len(errorPath) \in Nat
    BY <2>3
  <2> QED BY <1>4, <2>1, <2>2, <2>3, <2>4
<1>7. \A k \in 1 .. n : errorPath[k] \in Loc
  BY <1>6, ElementOfSeq
<1>8. /\ phi' = J /\ prec' = [prec EXCEPT ![errorPath[m]] = @ \cup {J}]
      /\ rest' = SubSeq(rest, 1, m)
  BY <1>3, <1>4, <1>5 DEF AddPredicate
<1>9. Len(rest') = m /\ \A k \in 1 .. m : rest'[k] = rest[k]
  <2>1. m \in 1 .. Len(rest) /\ \A k \in 1 .. m : rest[k] \in Loc
    BY <1>4, <1>6, ElementOfSeq
  <2>2. /\ Len(rest') = IF 1 <= m THEN m - 1 + 1 ELSE 0
        /\ \A k \in 1 .. m - 1 + 1 : rest'[k] = rest[1 + k - 1]
    BY <1>6, <1>8, <2>1, SubSeqProperties
  <2> QED BY <1>4, <1>6, <2>2
<1>10. PICK I2 : I2 = [I EXCEPT ![m] = J]
  OBVIOUS
<1>11. /\ I2 \in [1 .. n + 1 -> SUBSET Val] /\ I2[m] = J
       /\ \A k \in 1 .. n + 1 : k # m => I2[k] = I[k]
  BY <1>4, <1>6, <1>10
<1>12. Image(J, SelectorAt(errorPath, m), errorPath[m], errorPath[m + 1]) \subseteq phi
  <2>1. \A v \in J :
          Image({v}, SelectorAt(errorPath, m), errorPath[m], errorPath[m + 1]) \subseteq phi
    BY <1>3, <1>4, <1>5 DEF MeetsPhi
  <2>2. SUFFICES ASSUME NEW w \in Image(J, SelectorAt(errorPath, m), errorPath[m],
                                        errorPath[m + 1])
                 PROVE  w \in phi
    OBVIOUS
  <2>3. PICK v \in J :
          w \in Image({v}, SelectorAt(errorPath, m), errorPath[m], errorPath[m + 1])
    BY <2>2, ImageOfOne, Zenon
  <2> QED BY <2>1, <2>3
<1>13. Chain(errorPath, n, I2, m)'
  <2>1. I2[n + 1] = {}
    <3>1. I[n + 1] = {} /\ n + 1 # m /\ n + 1 \in 1 .. n + 1
      BY <1>2, <1>4, <1>6 DEF Chain
    <3> QED BY <1>11, <3>1
  <2>2. ASSUME NEW k \in m .. n
        PROVE  /\ I2[k] \in prec'[errorPath[k]]
               /\ Image(I2[k], SelectorAt(errorPath, k), errorPath[k], errorPath[k + 1])
                    \subseteq I2[k + 1]
    <3>1. CASE k = m
      <4>1. I2[k + 1] = phi
        BY <1>2, <1>4, <1>6, <1>11, <3>1
      <4>2. J \in prec'[errorPath[m]]
        BY <1>4, <1>6, <1>7, <1>8
      <4> QED BY <1>11, <1>12, <3>1, <4>1, <4>2
    <3>2. CASE k # m
      <4>1. /\ k \in Len(rest) .. n /\ k \in 1 .. n + 1 /\ k + 1 \in 1 .. n + 1
            /\ k + 1 # m /\ k \in 1 .. n
        BY <1>4, <1>6, <3>2
      <4>2. I2[k] = I[k] /\ I2[k + 1] = I[k + 1]
        BY <1>11, <3>2, <4>1
      <4>3. /\ I[k] \in prec[errorPath[k]]
            /\ Image(I[k], SelectorAt(errorPath, k), errorPath[k], errorPath[k + 1])
                 \subseteq I[k + 1]
        BY <1>2, <4>1 DEF Chain
      <4>4. prec[errorPath[k]] \subseteq prec'[errorPath[k]]
        BY <1>6, <1>7, <1>8, <4>1
      <4> QED BY <4>2, <4>3, <4>4
    <3> QED BY <3>1, <3>2
  <2> QED BY <1>6, <2>1, <2>2 DEF Chain
<1>14. RefiningBy(n, I2)'
  <2>1. m \in 1 .. n + 1
    BY <1>4, <1>6
  <2>2. Agrees(rest, errorPath, Len(rest))'
    <3>1. \A k \in 1 .. m : k \in 1 .. Len(rest)
      BY <1>4, <1>6
    <3> QED BY <1>2, <1>6, <1>9, <3>1 DEF Agrees
  <2>3. phi' = I2[m] /\ Along(errorPath)[m] \subseteq phi'
    BY <1>4, <1>5, <1>8, <1>11
  <2> QED BY <1>6, <1>9, <1>13, <2>1, <2>2, <2>3 DEF RefiningBy
<1> QED BY <1>6, <1>11, <1>14 DEF Refining

\* Once refine is done the path is excluded from the graph that starts over.
LEMMA RestartExcludes ==
  ASSUME ProgramAssumption, TypeOK, Refining, Restart
  PROVE  Excluded(errorPath)'
<1>0. PICK n \in 1 .. Len(errorPath) - 1 :
        \E I \in [1 .. n + 1 -> SUBSET Val] : RefiningBy(n, I)
  BY DEF Refining
<1>1. PICK I \in [1 .. n + 1 -> SUBSET Val] : RefiningBy(n, I)
  BY <1>0
<1>2. /\ Len(rest) = 1 /\ UNCHANGED <<prec, errorPath>> /\ node' = <<Start>>
      /\ DOMAIN node' = {1} /\ node'[1] = Start
  <2>1. node' = <<Start>>
    BY DEF Restart
  <2> QED BY <2>1 DEF Restart
<1>3. /\ errorPath \in Seq(Loc) /\ Len(errorPath) \in Nat /\ n \in Nat
      /\ 1 \in 1 .. Len(errorPath) /\ 1 \in 1 .. n + 1
  BY DEF TypeOK
<1>4. I[1] = Val /\ Chain(errorPath, n, I, 1)
  <2>1. Along(errorPath)[1] = Val
    BY <1>3, AlongRecursion
  <2>2. I[1] \in SUBSET Val
    BY <1>1, <1>3
  <2>3. phi = I[1] /\ Along(errorPath)[1] \subseteq phi /\ Chain(errorPath, n, I, 1)
    BY <1>1, <1>2 DEF RefiningBy
  <2> QED BY <2>1, <2>2, <2>3
<1>5. WithinChain(Start, errorPath, n, I)'
  <2>1. Start.path = <<Entry>> /\ Len(Start.path) = 1 /\ ~(1 > n)
    BY <1>3 DEF Start
  <2>2. Gamma(Start)' \subseteq Val
    BY DEF Gamma
  <2> QED BY <1>4, <2>1, <2>2 DEF WithinChain
<1>6. \A i \in DOMAIN node' : WithinChain(node[i], errorPath, n, I)'
  BY <1>2, <1>5 DEF WithinChain, Gamma
<1>7. Chain(errorPath, n, I, 1)'
  BY <1>2, <1>4 DEF Chain
<1>8. ExcludedBy(errorPath, n, I)'
  BY <1>4, <1>6, <1>7 DEF ExcludedBy
<1> QED BY <1>2, <1>8 DEF Excluded

\* Interpolation does not fail.
LEMMA InterpolantExists ==
  ASSUME TypeOK, Refining, ~MayFail PROVE ~NoInterpolant
<1>1. SUFFICES ASSUME NoInterpolant PROVE FALSE
  OBVIOUS
<1>2. Len(rest) > 1 /\ ~(Before \subseteq MeetsPhi)
  BY <1>1 DEF NoInterpolant
<1>3. PICK n \in 1 .. Len(errorPath) - 1 :
        \E I \in [1 .. n + 1 -> SUBSET Val] : RefiningBy(n, I)
  BY DEF Refining
<1>4. /\ Len(rest) \in 1 .. n + 1 /\ Agrees(rest, errorPath, Len(rest))
      /\ Along(errorPath)[Len(rest)] \subseteq phi
  BY <1>3 DEF RefiningBy
<1> QED BY <1>2, <1>4, LastEdgeOfPath

LEMMA AppendNotEmpty ==
  ASSUME NEW p \in Seq(Loc), NEW l \in Loc PROVE Append(p, l) # <<>>
BY AppendProperties

LEMMA ExclusionStep ==
  ASSUME ProgramAssumption, VisitInv, PathInv, ~MayFail, ExclusionInv, [Next]_vars
  PROVE  ExclusionInv'
<1>1. /\ TypeOK /\ FoundTarget /\ errorPath \in Seq(Loc)
      /\ mode \notin {"refine failed", "aborted"}
  BY DEF VisitInv, TypeOK, ExclusionInv
<1>2. CASE UNCHANGED vars
  <2>1. Excluded(errorPath) => Excluded(errorPath)'
    BY <1>2, ExcludedStays DEF vars, Excluded, ExcludedBy, Chain
  <2>2. Refining => Refining'
    BY <1>2 DEF vars, Refining, RefiningBy, Chain
  <2> QED BY <1>2, <2>1, <2>2 DEF vars, ExclusionInv
<1>3. CASE Choose \/ Prune \/ LeaveOut \/ ReportSafe
  <2>1. /\ UNCHANGED <<node, prec, errorPath>> /\ mode = "expand"
        /\ mode' \in {"expand", "SAFE", "UNKNOWN"}
    BY <1>3 DEF Choose, Prune, LeaveOut, ReportSafe, Expanding
  <2>2. errorPath # <<>> => Excluded(errorPath)'
    <3>1. PICK p : p = errorPath
      OBVIOUS
    <3>2. p # <<>> => Excluded(p)'
      BY <2>1, <3>1, ExcludedStays DEF ExclusionInv
    <3> QED BY <2>1, <3>1, <3>2 DEF Excluded, ExcludedBy, Chain
  <2> QED BY <2>1, <2>2 DEF ExclusionInv
<1>4. ASSUME todo # <<>>, mode = "expand", Kept(node[cur], Head(todo)),
             NEW s \in Abstract(node[cur], Head(todo)), Add(s), UNCHANGED <<prec, errorPath>>
      PROVE  /\ errorPath # <<>> => Excluded(errorPath)'
             /\ errorPath # Append(node[cur].path, s.loc)
  <2>1. PICK p \in Seq(Loc) : p = errorPath
    BY <1>1
  <2>2. CASE p = <<>>
    <3>1. node[cur] \in Reached /\ s.loc \in Loc
      BY <1>1, <1>4, CurrentType, AbstractType DEF TypeOK
    <3>2. Append(node[cur].path, s.loc) # <<>>
      <4>1. node[cur].path \in Seq(Loc)
        BY <3>1 DEF Reached
      <4>2. PICK q \in Seq(Loc) : q = node[cur].path
        BY <4>1
      <4> QED BY <3>1, <4>2, AppendNotEmpty
    <3> QED BY <2>1, <2>2, <3>2
  <2>3. CASE p # <<>>
    <3>1. Excluded(p)
      BY <1>4, <2>1, <2>3 DEF ExclusionInv
    <3>2. Excluded(p)' /\ p # Append(node[cur].path, s.loc)
      BY <1>1, <1>4, <3>1, ExcludedAdd
    <3> QED BY <1>4, <2>1, <3>2 DEF Excluded, ExcludedBy, Chain
  <2> QED BY <2>2, <2>3
<1>5. CASE AddState
  <2>1. /\ todo # <<>> /\ mode = "expand" /\ Kept(node[cur], Head(todo))
        /\ UNCHANGED <<prec, errorPath, mode>>
    BY <1>5 DEF AddState, Expanding
  <2>2. PICK s \in Abstract(node[cur], Head(todo)) : Add(s)
    BY <1>5 DEF AddState
  <2> QED BY <1>4, <2>1, <2>2 DEF ExclusionInv
<1>6. CASE FindTarget
  <2>1. /\ todo # <<>> /\ mode = "expand" /\ Kept(node[cur], Head(todo))
        /\ UNCHANGED <<prec, errorPath>> /\ mode' = "found"
    BY <1>6, TargetIsNew DEF FindTarget, Expanding
  <2>2. PICK s \in Abstract(node[cur], Head(todo)) :
          Add(s) /\ path' = Append(node[cur].path, s.loc)
    BY <1>6, TargetIsNew
  <2> QED BY <1>4, <2>1, <2>2 DEF ExclusionInv
<1>7. CASE RefineFailed
  BY <1>7 DEF RefineFailed, ExclusionInv
<1>8. CASE ReportError
  BY <1>8 DEF ReportError, ExclusionInv
<1>9. CASE StartRefine
  <2>1. Refining' /\ mode' = "refine"
    BY <1>1, <1>9, StartRefining
  <2> QED BY <2>1 DEF ExclusionInv
<1>10. CASE Interpolate
  <2>1. Refining' /\ mode' = "refine"
    BY <1>1, <1>10, InterpolateRefines DEF ExclusionInv, Interpolate
  <2> QED BY <2>1 DEF ExclusionInv
<1>11. CASE NoInterpolant
  <2>1. Refining
    BY <1>11 DEF ExclusionInv, NoInterpolant
  <2> QED BY <1>1, <1>11, <2>1, InterpolantExists
<1>12. CASE Restart
  <2>1. Excluded(errorPath)' /\ mode' = "expand"
    BY <1>1, <1>12, RestartExcludes DEF ExclusionInv, Restart
  <2> QED BY <2>1 DEF ExclusionInv
<1> QED BY <1>2, <1>3, <1>5, <1>6, <1>7, <1>8, <1>9, <1>10, <1>11, <1>12 DEF Next

(***************************************************************************)
(* Every refinement excludes the path it was made for. With a solver that  *)
(* always answers, whatever interpolants it returns and whether or not the *)
(* cover is sound, the assertion on interpolants holds, isNewPath does not *)
(* fail, and no target is covered.                                         *)
(***************************************************************************)
THEOREM RefinementsExcludePaths == Spec => []RefinementExcludesPath
<1> DEFINE Inv == ~MayFail => ExclusionInv
<1>1. Init => Inv
  BY DEF Init, ExclusionInv
<1>2. VisitInv /\ PathInv /\ Inv /\ [Next]_vars => Inv'
  BY ProgramAssumption, ExclusionStep
<1>3. PathInv /\ Inv => RefinementExcludesPath
  BY DEF PathInv, ExclusionInv, RefinementExcludesPath
<1> HIDE DEF Inv
<1> QED BY <1>1, <1>2, <1>3, VisitInvariant, PathInvariant, PTL DEF Spec
=============================================================================
