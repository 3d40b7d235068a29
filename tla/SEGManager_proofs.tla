-------------------------- MODULE SEGManager_proofs --------------------------
(***************************************************************************)
(* What main hands to KITTeL accounts for every state of the graph: the    *)
(* invariant DeliveredJustified, from an invariant of the construction,    *)
(* which says which part of the graph is alive, and one of simplifySEG.    *)
(* Hence every run of the program is a walk over that graph.               *)
(***************************************************************************)
EXTENDS SEGRuns, SEGConstruction_proofs, InductionLemmas

(***************************************************************************)
(* A set of vertices that holds the entry and the path, that no edge       *)
(* leaves, and in which every expanded vertex is justified by its edges.   *)
(* The vertices in it that are not expanded are the top of the path and    *)
(* the pending children of refinements on it. Vertices abandoned by merges *)
(* are outside.                                                            *)
(***************************************************************************)
Pending(v) ==
  \E e \in edge : /\ e.tgt = v /\ e.type = "refinement"
                  /\ \E i \in 1 .. Len(path) : e.src = path[i]

LiveSet(L) ==
  /\ L \in SUBSET Vertex /\ Entry \in L
  /\ \A i \in 1 .. Len(path) : path[i] \in L
  /\ \A e \in edge : e.src \in L => e.tgt \in L
  /\ \A v \in L : v \in visited => Justified(v, edge)
  /\ \A v \in L : v \notin visited =>
       (path # <<>> /\ v = path[Len(path)]) \/ Pending(v)

LiveInv == \E L : LiveSet(L)
-----------------------------------------------------------------------------
\* A vertex stays justified while its own edges and old states stay.
LEMMA JustifiedStays ==
  ASSUME TypeOK, \A v \in Vertex : st'[v] = st[v],
         NEW v \in Vertex, Justified(v, edge),
         \A e \in edge : e.src = v => e \in edge'
  PROVE  Justified(v, edge)'
<1>1. \A e \in edge : e.src \in Vertex /\ e.tgt \in Vertex
  BY DEF TypeOK
<1>2. \A e \in edge : e.src = v => e \in edge' /\ st'[e.tgt] = st[e.tgt]
  BY <1>1
<1>3. CASE st[v] = NULL
  BY <1>3 DEF Justified
<1>4. CASE \E e \in edge :
             /\ e.src = v /\ e.type = "generalization" /\ st[e.tgt] # NULL
             /\ st[e.tgt].pc = st[v].pc /\ IsGeneralizationOf(st[e.tgt], st[v])
  <2>1. PICK e \in edge :
             /\ e.src = v /\ e.type = "generalization" /\ st[e.tgt] # NULL
             /\ st[e.tgt].pc = st[v].pc /\ IsGeneralizationOf(st[e.tgt], st[v])
    BY <1>4
  <2>2. e \in edge' /\ st'[e.tgt] = st[e.tgt] /\ st'[v] = st[v]
    BY <1>2, <2>1
  <2> QED BY <2>1, <2>2 DEF Justified
<1>5. CASE /\ NeedsRefinement(st[v])
           /\ \E e, f \in edge :
                /\ e.src = v /\ e.type = "refinement" /\ st[e.tgt] = RefineTrue(st[v])
                /\ f.src = v /\ f.type = "refinement" /\ st[f.tgt] = RefineFalse(st[v])
  <2>1. PICK e \in edge, f \in edge :
                /\ e.src = v /\ e.type = "refinement" /\ st[e.tgt] = RefineTrue(st[v])
                /\ f.src = v /\ f.type = "refinement" /\ st[f.tgt] = RefineFalse(st[v])
    BY <1>5
  <2>2. /\ e \in edge' /\ st'[e.tgt] = st[e.tgt] /\ st'[v] = st[v]
        /\ f \in edge' /\ st'[f.tgt] = st[f.tgt]
    BY <1>2, <2>1
  <2> QED BY <1>5, <2>1, <2>2 DEF Justified
<1>6. CASE /\ ~NeedsRefinement(st[v])
           /\ \E e \in edge :
                /\ e.src = v /\ e.type = "evaluation"
                /\ \/ Inst[st[v].pc].kind = "ret" /\ st[e.tgt] = NULL
                   \/ st[e.tgt] \in Evaluate(st[v])
  <2>1. PICK e \in edge :
                /\ e.src = v /\ e.type = "evaluation"
                /\ \/ Inst[st[v].pc].kind = "ret" /\ st[e.tgt] = NULL
                   \/ st[e.tgt] \in Evaluate(st[v])
    BY <1>6
  <2>2. e \in edge' /\ st'[e.tgt] = st[e.tgt] /\ st'[v] = st[v]
    BY <1>2, <2>1
  <2> QED BY <1>6, <2>1, <2>2 DEF Justified
<1> QED BY <1>3, <1>4, <1>5, <1>6 DEF Justified

\* The vertices of a sequence to which others are appended.
LEMMA ConcatElements ==
  ASSUME NEW S, NEW s \in Seq(S), NEW t \in Seq(S)
  PROVE  /\ \A i \in 1 .. Len(s) : (s \o t)[i] = s[i]
         /\ \A j \in 1 .. Len(t) : (s \o t)[Len(s) + j] = t[j]
<1>1. \A i \in 1 .. Len(s) + Len(t) :
        (s \o t)[i] = IF i <= Len(s) THEN s[i] ELSE t[i - Len(s)]
  BY ConcatProperties
<1>2. Len(s) \in Nat /\ Len(t) \in Nat
  OBVIOUS
<1>3. ASSUME NEW j \in 1 .. Len(t)
      PROVE  (s \o t)[Len(s) + j] = t[j]
  <2>1. /\ Len(s) + j \in 1 .. Len(s) + Len(t) /\ ~(Len(s) + j <= Len(s))
        /\ Len(s) + j - Len(s) = j
    BY <1>2
  <2>2. (s \o t)[Len(s) + j] = t[Len(s) + j - Len(s)]
    BY <1>1, <2>1
  <2> QED BY <2>1, <2>2
<1> QED BY <1>1, <1>2, <1>3

\* procEvaluation justifies the vertex it expands.
LEMMA EvaluateJustifies ==
  ASSUME ConstructionInv, EvaluateOne \/ EvaluateRet \/ EvaluateTwo,
         NEW v, v = Top
  PROVE  Justified(v, edge)'
<1> USE EdgeFields
<1>1. /\ TypeOK /\ st[v] \in State /\ v \in Vertex /\ Len(st) \in Nat
      /\ path # <<>> /\ st \in Seq(State \cup {NULL})
  BY EvaluateShape, PathVertices DEF ConstructionInv, Running, TypeOK
<1>2. CASE EvaluateOne
  <2>1. PICK s \in Evaluate(st[v]) : st' = Append(st, s)
    BY <1>2 DEF EvaluateOne
  <2>2. s \in State
    BY <1>1, <2>1, EvaluateType
  <2>3. st'[v] = st[v] /\ st'[Len(st) + 1] = s
    BY <1>1, <2>1, <2>2, AppendProperties DEF Vertex
  <2>4. /\ Edge(v, Len(st) + 1, "evaluation") \in edge'
        /\ ~NeedsRefinement(st[v])
    BY <1>2 DEF EvaluateOne
  <2> QED BY <2>1, <2>3, <2>4 DEF Justified
<1>3. CASE EvaluateRet
  <2>1. st'[v] = st[v] /\ st'[Len(st) + 1] = NULL
    BY <1>1, <1>3, AppendProperties DEF Vertex, EvaluateRet
  <2>2. /\ Edge(v, Len(st) + 1, "evaluation") \in edge'
        /\ Inst[st[v].pc].kind = "ret" /\ ~NeedsRefinement(st[v])
    BY <1>3 DEF EvaluateRet, NeedsRefinement
  <2> QED BY <2>1, <2>2 DEF Justified
<1>4. CASE EvaluateTwo
  <2> DEFINE ss == <<RefineTrue(st[v]), RefineFalse(st[v])>>
  <2>1. ss \in Seq(State \cup {NULL}) /\ Len(ss) = 2
    BY <1>1, RefineType
  <2>2. st' = st \o ss
    BY <1>4 DEF EvaluateTwo
  <2>3. /\ \A i \in 1 .. Len(st) : (st \o ss)[i] = st[i]
        /\ \A j \in 1 .. Len(ss) : (st \o ss)[Len(st) + j] = ss[j]
    <3> HIDE DEF ss
    <3> QED BY <1>1, <2>1, ConcatElements
  <2>4. st'[v] = st[v]
    BY <1>1, <2>2, <2>3 DEF Vertex
  <2>5. st'[Len(st) + 1] = ss[1] /\ st'[Len(st) + 2] = ss[2]
    <3> HIDE DEF ss
    <3>1. 1 \in 1 .. Len(ss) /\ 2 \in 1 .. Len(ss)
      BY <2>1
    <3>2. (st \o ss)[Len(st) + 1] = ss[1] /\ (st \o ss)[Len(st) + 2] = ss[2]
      BY <2>3, <3>1, Zenon
    <3> QED BY <2>2, <3>2, Zenon
  <2>7. st'[Len(st) + 1] = RefineTrue(st[v]) /\ st'[Len(st) + 2] = RefineFalse(st[v])
    BY <2>5
  <2>8. /\ Edge(v, Len(st) + 1, "refinement") \in edge'
        /\ Edge(v, Len(st) + 2, "refinement") \in edge'
        /\ NeedsRefinement(st[v])
    BY <1>4 DEF EvaluateTwo
  <2> QED BY <2>4, <2>7, <2>8 DEF Justified
<1> QED BY <1>2, <1>3, <1>4
-----------------------------------------------------------------------------
\* The live part begins with the entry.
LEMMA LiveInit == Init => LiveInv
<1> SUFFICES ASSUME Init PROVE LiveSet({Entry})
  BY DEF LiveInv
<1>1. Vertex = {1} /\ Len(path) = 1 /\ path[1] = 1 /\ path # <<>>
  BY DEF Init, Vertex, Entry
<1> QED BY <1>1 DEF Init, LiveSet, Entry

\* A vertex that leaves the path is justified by its edges.
LEMMA LivePop ==
  ASSUME ConstructionInv, LiveInv, LeaveEnd \/ Generalize \/ Backtrack
  PROVE  LiveInv'
<1> USE EdgeFields
<1>1. PICK L : LiveSet(L)
  BY DEF LiveInv
<1>2. /\ TypeOK /\ path # <<>> /\ Len(path) \in Nat \ {0} /\ Top \in Vertex
      /\ Top = path[Len(path)] /\ Top \in L
  <2>1. TypeOK /\ path # <<>>
    BY DEF ConstructionInv, LeaveEnd, Generalize, Backtrack, AtState, AtFresh, Running
  <2>2. Len(path) \in Nat \ {0} /\ Top \in Vertex
    BY <2>1, PathVertices
  <2> QED BY <1>1, <2>1, <2>2 DEF LiveSet, Top
<1>3. st' = st /\ path' = Pop(path) /\ edge \subseteq edge' /\ Vertex' = Vertex
  BY DEF LeaveEnd, Generalize, Backtrack, Vertex
<1>4. /\ Len(path') = Len(path) - 1
      /\ \A i \in 1 .. Len(path) - 1 : path'[i] = path[i]
  BY <1>2, <1>3, PopPath DEF TypeOK
<1>5. /\ visited \subseteq visited' /\ Top \in visited'
      /\ \A v \in visited' : v \in visited \/ (v = Top /\ v \notin visited)
  BY DEF LeaveEnd, Generalize, Backtrack
<1>6. \A e \in edge' \ edge :
        /\ e.src = Top /\ e.type = "generalization" /\ Top \notin visited
        /\ \E i \in 1 .. Len(path) - 1 : e.tgt = path[i]
  BY DEF LeaveEnd, Generalize, Backtrack, GenTarget, Candidates, AtState, AtFresh
<1>7. \A v : v = Top /\ v \notin visited => Justified(v, edge)'
  <2> SUFFICES ASSUME NEW v, v = Top, v \notin visited PROVE Justified(v, edge)'
    OBVIOUS
  <2>1. CASE LeaveEnd
    BY <2>1 DEF LeaveEnd, Justified
  <2>2. CASE Generalize
    <3>1. PICK i \in GenTarget(Top) :
            /\ IsGeneralizationOf(st[path[i]], st[Top])
            /\ edge' = edge \cup {Edge(Top, path[i], "generalization")}
      BY <2>2 DEF Generalize
    <3>2. st[path[i]] # NULL /\ st[path[i]].pc = st[v].pc
      BY DEF GenTarget, Candidates, ConstructionInv, PathIsChain
    <3>3. Edge(v, path[i], "generalization") \in edge'
      BY <3>1
    <3> QED BY <1>3, <3>1, <3>2, <3>3 DEF Justified
  <2>3. CASE Backtrack
    BY <2>3 DEF Backtrack
  <2> QED BY <2>1, <2>2, <2>3
<1>8. \A e \in edge : e.src = Top => e.tgt \in visited'
  <2>1. CASE LeaveEnd \/ Generalize
    BY <2>1 DEF LeaveEnd, Generalize, AtState, AtFresh,
                ConstructionInv, Structure, SourcesExpanded
  <2>2. CASE Backtrack
    BY <2>2 DEF Backtrack, UnvisitedChildren, Out
  <2> QED BY <2>1, <2>2
<1>9. LiveSet(L)'
  <2>1. L \in SUBSET Vertex' /\ Entry \in L
    BY <1>1, <1>3 DEF LiveSet
  <2>2. \A i \in 1 .. Len(path') : path'[i] \in L
    BY <1>1, <1>2, <1>4 DEF LiveSet
  <2>3. \A e \in edge' : e.src \in L => e.tgt \in L
    BY <1>1, <1>2, <1>6 DEF LiveSet
  <2>4. ASSUME NEW v \in L, v \in visited'
        PROVE  Justified(v, edge)'
    <3>1. CASE v \in visited
      <4>1. Justified(v, edge) /\ v \in Vertex
        BY <1>1, <3>1 DEF LiveSet
      <4> QED BY <1>2, <1>3, <4>1, JustifiedStays
    <3>2. CASE v \notin visited
      BY <1>5, <1>7, <2>4, <3>2
    <3> QED BY <3>1, <3>2
  <2>5. ASSUME NEW v \in L, v \notin visited'
        PROVE  \E e \in edge' : /\ e.tgt = v /\ e.type = "refinement"
                                /\ \E i \in 1 .. Len(path') : e.src = path'[i]
    <3>1. v # Top /\ v \notin visited
      BY <1>5, <2>5
    <3>2. PICK e \in edge, i \in 1 .. Len(path) :
            e.tgt = v /\ e.type = "refinement" /\ e.src = path[i]
      BY <1>1, <1>2, <3>1 DEF LiveSet, Pending
    <3>3. i # Len(path)
      BY <1>2, <1>8, <2>5, <3>2
    <3>4. i \in 1 .. Len(path') /\ e.src = path'[i]
      BY <1>2, <1>4, <3>2, <3>3
    <3> QED BY <1>3, <3>2, <3>4
  <2> QED BY <2>1, <2>2, <2>3, <2>4, <2>5 DEF LiveSet, Pending, Entry
<1> QED BY <1>9 DEF LiveInv

\* Descending to an unvisited child stays in the live part.
LEMMA LiveDescend ==
  ASSUME ConstructionInv, LiveInv, Descend
  PROVE  LiveInv'
<1>1. PICK L : LiveSet(L)
  BY DEF LiveInv
<1>2. /\ TypeOK /\ path # <<>> /\ Len(path) \in Nat \ {0}
      /\ Top = path[Len(path)] /\ Top \in visited /\ Top \in L
  <2>1. TypeOK /\ path # <<>> /\ Top \in visited
    BY DEF ConstructionInv, Descend, Running
  <2>2. Len(path) \in Nat \ {0}
    BY <2>1, PathVertices
  <2> QED BY <1>1, <2>1, <2>2 DEF LiveSet, Top
<1>3. PICK u \in UnvisitedChildren(Top) : path' = Append(path, u)
  BY DEF Descend
<1>4. u \in Vertex /\ u \in L
  BY <1>1, <1>2, <1>3 DEF UnvisitedChildren, Out, LiveSet, TypeOK
<1>5. /\ Len(path') = Len(path) + 1
      /\ \A i \in 1 .. Len(path) : path'[i] = path[i]
      /\ path'[Len(path) + 1] = u
  BY <1>2, <1>3, <1>4, AppendProperties DEF TypeOK
<1>6. UNCHANGED <<st, visited, edge, status>> /\ Vertex' = Vertex
  BY DEF Descend, Vertex
<1>7. LiveSet(L)'
  <2>1. \A i \in 1 .. Len(path') : path'[i] \in L
    BY <1>1, <1>2, <1>4, <1>5 DEF LiveSet
  <2>2. ASSUME NEW v \in L, v \in visited
        PROVE  Justified(v, edge)'
    <3>1. Justified(v, edge) /\ v \in Vertex
      BY <1>1, <2>2 DEF LiveSet
    <3> QED BY <1>2, <1>6, <3>1, JustifiedStays
  <2>3. ASSUME NEW v \in L, v \notin visited
        PROVE  \E e \in edge : /\ e.tgt = v /\ e.type = "refinement"
                               /\ \E i \in 1 .. Len(path') : e.src = path'[i]
    <3>1. PICK e \in edge, i \in 1 .. Len(path) :
            e.tgt = v /\ e.type = "refinement" /\ e.src = path[i]
      BY <1>1, <1>2, <2>3 DEF LiveSet, Pending
    <3>2. i \in 1 .. Len(path') /\ e.src = path'[i]
      BY <1>2, <1>5, <3>1
    <3> QED BY <3>1, <3>2
  <2> QED BY <1>1, <1>6, <2>1, <2>2, <2>3 DEF LiveSet, Pending, Entry
<1> QED BY <1>7 DEF LiveInv

(***************************************************************************)
(* How a set of vertices is shown to be alive after a step.                *)
(***************************************************************************)
LEMMA LiveNow ==
  ASSUME NEW M, M \in SUBSET Vertex', Entry \in M,
         \A i \in 1 .. Len(path') : path'[i] \in M,
         \A e \in edge' : e.src \in M => e.tgt \in M,
         \A v \in M : v \in visited' => Justified(v, edge)',
         \A v \in M : v \notin visited' =>
           \/ path' # <<>> /\ v = path'[Len(path')]
           \/ \E e \in edge' : /\ e.tgt = v /\ e.type = "refinement"
                               /\ \E i \in 1 .. Len(path') : e.src = path'[i]
  PROVE  LiveInv'
<1>1. LiveSet(M)'
  BY DEF LiveSet, Pending, Entry
<1> QED BY <1>1 DEF LiveInv

\* procEvaluation adds its new vertices to the live part.
LEMMA LiveExpand ==
  ASSUME ConstructionInv, LiveInv, EvaluateOne \/ EvaluateRet \/ EvaluateTwo
  PROVE  LiveInv'
<1> USE EdgeFields
<1>1. PICK L : LiveSet(L)
  BY DEF LiveInv
<1> DEFINE N == Len(st)
           M == L \cup (Vertex' \ Vertex)
<1>2. /\ TypeOK /\ path # <<>> /\ Len(path) \in Nat \ {0} /\ N \in Nat
      /\ Top = path[Len(path)] /\ Top \notin visited /\ Top \in L
      /\ \A i \in 1 .. Len(path) : path[i] \in 1 .. N
      /\ \E ss, type : ExpandTo(ss, type)
  <2>1. TypeOK /\ path # <<>> /\ Top \notin visited /\ \E ss, type : ExpandTo(ss, type)
    BY EvaluateShape DEF ConstructionInv, Running
  <2>2. Len(path) \in Nat \ {0} /\ N \in Nat /\ \A i \in 1 .. Len(path) : path[i] \in 1 .. N
    BY <2>1, PathVertices DEF Vertex
  <2> QED BY <1>1, <2>1, <2>2 DEF LiveSet, Top
<1>3. PICK ss, type : ExpandTo(ss, type)
  BY <1>2
<1>4. /\ \/ Len(ss) = 1 /\ edge' = edge \cup {Edge(Top, N + 1, type)}
         \/ /\ Len(ss) = 2 /\ type = "refinement"
            /\ edge' = edge \cup {Edge(Top, N + 1, type), Edge(Top, N + 2, type)}
      /\ st' = st \o ss /\ ss \in Seq(State \cup {NULL}) /\ st \in Seq(State \cup {NULL})
      /\ visited' = visited \cup {Top}
      /\ path' = Append(path, N + 1)
  BY <1>2, <1>3 DEF ExpandTo, TypeOK
<1>5. /\ Len(st') = N + Len(ss) /\ Vertex' = 1 .. N + Len(ss) /\ Vertex = 1 .. N
      /\ \A v \in Vertex : st'[v] = st[v]
  <2>1. Len(st \o ss) = N + Len(ss)
    BY <1>4, ConcatProperties
  <2>2. \A v \in 1 .. N : (st \o ss)[v] = st[v]
    BY <1>4, ConcatElements
  <2> QED BY <1>4, <2>1, <2>2 DEF Vertex
<1>6. /\ N + 1 \in Vertex' \ Vertex /\ Vertex \subseteq Vertex'
      /\ \A v \in Vertex' \ Vertex : v = N + 1 \/ (Len(ss) = 2 /\ v = N + 2)
  <2>1. Len(ss) = 1 \/ Len(ss) = 2
    BY <1>4
  <2>2. N \in Nat
    BY <1>2
  <2> HIDE DEF N
  <2>3. N + 1 \in 1 .. N + Len(ss) /\ N + 1 \notin 1 .. N
    BY <2>1, <2>2
  <2>4. \A v \in 1 .. N : v \in 1 .. N + Len(ss)
    BY <2>1, <2>2
  <2>5. \A v \in 1 .. N + Len(ss) :
          v \in 1 .. N \/ v = N + 1 \/ (Len(ss) = 2 /\ v = N + 2)
    <3>1. \A v \in 1 .. N + 1 : v \in 1 .. N \/ v = N + 1
      BY <2>2
    <3>2. \A v \in 1 .. N + 2 : v \in 1 .. N \/ v = N + 1 \/ v = N + 2
      BY <2>2
    <3> QED BY <2>1, <3>1, <3>2
  <2> QED BY <1>5, <2>3, <2>4, <2>5
<1>7. /\ Len(path') = Len(path) + 1
      /\ \A i \in 1 .. Len(path) : path'[i] = path[i]
      /\ path'[Len(path) + 1] = N + 1
  <2>1. path \in Seq(Nat)
    BY <1>2, SeqMonotonic DEF TypeOK, Vertex
  <2>2. N + 1 \in Nat
    BY <1>2
  <2> QED BY <1>4, <2>1, <2>2, AppendProperties
<1>8. /\ edge \subseteq edge'
      /\ \A e \in edge' \ edge : e.src = Top /\ e.tgt \in Vertex' \ Vertex
      /\ Len(ss) = 2 => /\ Edge(Top, N + 2, type) \in edge' /\ type = "refinement"
  <2>1. Len(ss) = 2 => N + 2 \in Vertex' \ Vertex
    BY <1>2, <1>5
  <2>2. edge \subseteq edge' /\ \A e \in edge' \ edge :
          e = Edge(Top, N + 1, type) \/ (Len(ss) = 2 /\ e = Edge(Top, N + 2, type))
    BY <1>4
  <2>3. Len(ss) = 2 => Edge(Top, N + 2, type) \in edge' /\ type = "refinement"
    BY <1>4
  <2> QED BY <1>6, <2>1, <2>2, <2>3
<1>9. \A e \in edge : e.src \in Vertex /\ e.tgt \in Vertex
  BY <1>2 DEF TypeOK
<1>10. visited \subseteq Vertex /\ L \subseteq Vertex
  BY <1>1, <1>2 DEF TypeOK, LiveSet
<1> HIDE DEF N, M
<1>11. LiveInv'
  <2>1. M \in SUBSET Vertex' /\ Entry \in M
    BY <1>1, <1>6, <1>10 DEF LiveSet, M
  <2>2. \A i \in 1 .. Len(path') : path'[i] \in M
    BY <1>1, <1>2, <1>6, <1>7 DEF LiveSet, M
  <2>3. \A e \in edge' : e.src \in M => e.tgt \in M
    BY <1>1, <1>8, <1>9 DEF LiveSet, M
  <2>4. ASSUME NEW v, v \in M, v \in visited'
        PROVE  Justified(v, edge)'
    <3>1. CASE v = Top
      BY <3>1, EvaluateJustifies
    <3>2. CASE v # Top
      <4>1. v \in visited /\ v \in L /\ v \in Vertex
        BY <1>4, <1>10, <2>4, <3>2 DEF M
      <4>2. Justified(v, edge)
        BY <1>1, <4>1 DEF LiveSet
      <4> QED BY <1>2, <1>5, <1>8, <4>1, <4>2, JustifiedStays
    <3> QED BY <3>1, <3>2
  <2>5. ASSUME NEW v, v \in M, v \notin visited', v # N + 1
        PROVE  \E e \in edge' : /\ e.tgt = v /\ e.type = "refinement"
                                /\ \E i \in 1 .. Len(path') : e.src = path'[i]
    <3>1. CASE v \in L
      <4>1. v # Top /\ v \notin visited
        BY <1>4, <2>5
      <4>2. PICK e \in edge, i \in 1 .. Len(path) :
              e.tgt = v /\ e.type = "refinement" /\ e.src = path[i]
        BY <1>1, <1>2, <3>1, <4>1 DEF LiveSet, Pending
      <4>3. i \in 1 .. Len(path') /\ e.src = path'[i]
        BY <1>2, <1>7, <4>2
      <4> QED BY <1>8, <4>2, <4>3
    <3>2. CASE v \notin L
      <4>1. Len(ss) = 2 /\ v = N + 2
        BY <1>6, <2>5, <3>2 DEF M
      <4>2. Len(path) \in 1 .. Len(path') /\ Top = path'[Len(path)]
        BY <1>2, <1>7
      <4> QED BY <1>8, <4>1, <4>2
    <3> QED BY <3>1, <3>2
  <2>6. path' # <<>> /\ path'[Len(path')] = N + 1
    BY <1>2, <1>4, <1>7
  <2> QED BY <2>1, <2>2, <2>3, <2>4, <2>5, <2>6, LiveNow
<1> QED BY <1>11

(***************************************************************************)
(* A merge abandons everything younger than genTarget, and genTarget too   *)
(* when the new vertex replaces it: what is left is closed.                *)
(***************************************************************************)
LEMMA LiveMerge ==
  ASSUME ConstructionInv, LiveInv, MergeStates
  PROVE  LiveInv'
<1> USE EdgeFields
<1>1. PICK L : LiveSet(L)
  BY DEF LiveInv
<1>2. PICK i \in GenTarget(Top), k \in Nat : MergeAt(i, k)
  BY MergeShape DEF ConstructionInv
<1>3. PICK N, g, u : N = Len(st) /\ g = path[i] /\ u = path[k]
  OBVIOUS
<1> DEFINE new  == Edge(u, N + 1, "generalization")
           link == Edge(u, g, "generalization")
<1>4. /\ TypeOK /\ path # <<>> /\ Len(path) \in Nat \ {0} /\ N \in Nat
      /\ i \in 1 .. Len(path) - 1 /\ k \in 1 .. i
      /\ st[g] \in State /\ st[Top] \in State
      /\ st[g].pc = st[Top].pc /\ st[g].dom = st[Top].dom
      /\ ~HasInRefEdge(g)
      /\ Len(st') = N + 1
      /\ \A v \in Vertex : st'[v] = st[v]
      /\ st'[N + 1] = Merge(st[g], st[Top]) /\ Merge(st[g], st[Top]) \in State
      /\ Vertex \subseteq Vertex' /\ N + 1 \in Vertex'
      /\ Len(path') = k + 1
      /\ \A j \in 1 .. k : path'[j] = path[j]
      /\ path'[k + 1] = N + 1
      /\ visited' = visited
  BY <1>2, <1>3, MergeFacts DEF ConstructionInv
<1>5. i \in 1 .. Len(path) /\ k \in 1 .. Len(path) /\ 1 \in 1 .. Len(path)
      /\ i \in Nat /\ k \in Nat /\ k <= i /\ i < Len(path)
  BY <1>4
<1>6. /\ \A e \in edge' : e = new \/ (e \in edge /\ e.src # g)
      /\ new \in edge'
      /\ k = i \/ (k = i - 1 /\ link \in edge)
      /\ k = i - 1 => \A e \in edge' : e = new \/ e # link
      /\ \A e \in edge : e \in edge' \/ e.src = g \/ e = link
  BY <1>2, <1>3, <1>5 DEF MergeAt, Out
<1> HIDE DEF new, link
<1>7. /\ Vertex = 1 .. N
      /\ \A j \in 1 .. Len(path) : path[j] \in 1 .. N /\ path[j] \in L
      /\ \A e \in edge : e.src \in 1 .. N /\ e.tgt \in 1 .. N
      /\ visited \subseteq 1 .. N /\ L \subseteq 1 .. N
  BY <1>1, <1>3, <1>4, PathVertices DEF TypeOK, Vertex, LiveSet
<1>8. /\ \A j, l \in 1 .. Len(path) : j < l => path[j] < path[l]
      /\ \A e, f \in edge : e.src < e.tgt /\ f.src < f.tgt /\ e.tgt = f.tgt => e = f
      /\ \A e \in edge : e.src < g => e.tgt <= g
      /\ \A e \in edge : e.type = "refinement" => e.src < e.tgt
  BY <1>3, <1>4, <1>5
  DEF ConstructionInv, Structure, PathAscends, OneOlderParent, NoEdgeOver, EdgesAhead
<1>9. /\ g \in 1 .. N /\ u \in 1 .. N /\ g \in L /\ u \in L
      /\ g \in Nat /\ u \in Nat
  BY <1>3, <1>4, <1>5, <1>7
<1>10. /\ g \in visited /\ st[u] \in State
       /\ path[1] = Entry
  <2>1. st[u] # NULL
    BY <1>3, <1>4 DEF ConstructionInv, PathIsChain
  <2>2. st[u] \in State \cup {NULL}
    BY <1>4, <1>7, <1>9, PathVertices
  <2>3. g \in visited
    BY <1>3, <1>4 DEF ConstructionInv, Structure, InnerVisited
  <2> QED BY <1>4, <2>1, <2>2, <2>3 DEF ConstructionInv, PathIsChain
<1>11. /\ \A j \in 1 .. Len(path) : path[j] < g => j <= k
       /\ \A j \in 1 .. k : path[j] < g \/ path[j] = u
  <2>1. ASSUME NEW j \in 1 .. Len(path), path[j] < g PROVE j <= k
    <3>1. j < i
      <4>1. i < j => g < path[j]
        BY <1>3, <1>5, <1>8
      <4>2. path[j] \in 1 .. N
        BY <1>7
      <4> QED BY <1>3, <1>5, <1>9, <2>1, <4>1, <4>2
    <3> QED BY <1>5, <1>6, <3>1
  <2>2. ASSUME NEW j \in 1 .. k PROVE path[j] < g \/ path[j] = u
    <3>1. j \in 1 .. Len(path) /\ (j = k \/ j < i)
      BY <1>5
    <3> QED BY <1>3, <1>5, <1>8, <3>1
  <2> QED BY <2>1, <2>2
<1>12. u = g \/ (u < g /\ k = i - 1 /\ \A e \in edge : e.src < g /\ e.tgt = g => e = link)
  <2>1. CASE k = i
    BY <1>3, <2>1
  <2>2. CASE k = i - 1 /\ link \in edge
    <3>1. u < g
      BY <1>3, <1>5, <1>8, <2>2
    <3>2. link.src = u /\ link.tgt = g
      BY DEF link
    <3> QED BY <1>8, <2>2, <3>1, <3>2
  <2> QED BY <1>6, <2>1, <2>2
<1>13. new.src = u /\ new.tgt = N + 1 /\ new.type = "generalization"
  BY DEF new
<1>14. PICK M : M = {v \in L : v < g \/ v = u} \cup {N + 1}
  OBVIOUS
<1>15. /\ \A v \in M : v = N + 1 \/ (v \in L /\ (v < g \/ v = u))
       /\ \A v \in L : v < g \/ v = u => v \in M
       /\ N + 1 \in M
       /\ \A v \in 1 .. N : v # N + 1
  BY <1>4, <1>14
<1>16. M \in SUBSET Vertex' /\ Entry \in M
  <2>1. M \subseteq Vertex'
    BY <1>4, <1>7, <1>15
  <2>2. 1 \in 1 .. k
    BY <1>4, <1>5
  <2>3. Entry \in L /\ (Entry < g \/ Entry = u)
    BY <1>5, <1>7, <1>10, <1>11, <2>2
  <2> QED BY <1>15, <2>1, <2>3
<1>17. \A j \in 1 .. Len(path') : path'[j] \in M
  <2>1. ASSUME NEW j \in 1 .. k PROVE path'[j] \in M
    <3>1. j \in 1 .. Len(path) /\ path'[j] = path[j]
      BY <1>4, <1>5
    <3> QED BY <1>7, <1>11, <1>15, <3>1
  <2>2. path'[k + 1] \in M
    BY <1>4, <1>15
  <2>3. \A j \in 1 .. k + 1 : j = k + 1 \/ j \in 1 .. k
    BY <1>5
  <2> QED BY <1>4, <2>1, <2>2, <2>3
<1>18. ASSUME NEW e \in edge', e.src \in M
       PROVE  e.tgt \in M
  <2>1. CASE e = new
    BY <1>13, <1>15, <2>1
  <2>2. CASE e # new
    <3>1. e \in edge /\ e.src # g /\ e.src \in 1 .. N /\ e.tgt \in 1 .. N
      BY <1>6, <1>7, <2>2
    <3>2. e.src \in L /\ e.src < g
      BY <1>12, <1>15, <1>18, <3>1
    <3>3. e.tgt \in L /\ e.tgt <= g
      BY <1>1, <1>8, <3>1, <3>2 DEF LiveSet
    <3>4. e.tgt < g \/ e.tgt = g
      BY <1>9, <3>1, <3>3
    <3>5. e.tgt = g => u = g
      BY <1>6, <1>12, <2>2, <3>1, <3>2
    <3> QED BY <1>15, <3>3, <3>4, <3>5
  <2> QED BY <2>1, <2>2
<1>19. ASSUME NEW v, v \in M, v \in visited'
       PROVE  Justified(v, edge)'
  <2>1. v \in visited /\ v \in 1 .. N /\ v \in Vertex /\ v \in L /\ (v < g \/ v = u)
    BY <1>4, <1>7, <1>15, <1>19
  <2>2. CASE v = u
    <3>1. IsGeneralizationOf(Merge(st[g], st[Top]), st[g]) /\ Merge(st[g], st[Top]).pc = st[g].pc
      BY <1>4, MergeGeneralizes DEF Merge
    <3>2. IsGeneralizationOf(Merge(st[g], st[Top]), st[u]) /\ st[u].pc = st[g].pc
      <4>1. CASE u = g
        BY <3>1, <4>1
      <4>2. CASE link \in edge
        <5>1. IsGeneralizationOf(st[g], st[u]) /\ st[u].pc = st[g].pc
          BY <4>2 DEF link, ConstructionInv, GeneralizationSound
        <5> QED BY <1>4, <1>10, <3>1, <5>1, GeneralizationTransitive
      <4> QED BY <1>3, <1>6, <4>1, <4>2
    <3>3. st'[u] = st[u]
      BY <1>4, <1>7, <1>9
    <3>4. st'[N + 1] # NULL /\ st'[N + 1].pc = st[u].pc
          /\ IsGeneralizationOf(st'[N + 1], st[u])
      BY <1>4, <3>1, <3>2, NullAssumption
    <3> QED BY <1>6, <1>13, <2>2, <3>3, <3>4 DEF Justified
  <2>3. CASE v # u
    <3>1. v # g
      BY <1>9, <2>1, <2>3
    <3>2. \A e \in edge : e.src = v => e \in edge'
      BY <1>6, <2>3, <3>1 DEF link
    <3>3. Justified(v, edge)
      BY <1>1, <2>1 DEF LiveSet
    <3> QED BY <1>4, <2>1, <3>2, <3>3, JustifiedStays
  <2> QED BY <2>2, <2>3
<1>20. ASSUME NEW v, v \in M, v \notin visited', v # N + 1
       PROVE  \E e \in edge' : /\ e.tgt = v /\ e.type = "refinement"
                               /\ \E j \in 1 .. Len(path') : e.src = path'[j]
  <2>1. v \in L /\ v \in 1 .. N /\ v < g /\ v \notin visited
    <3>1. v \in L /\ v \notin visited /\ (v < g \/ v = u)
      BY <1>4, <1>15, <1>20
    <3>2. v # g
      BY <1>10, <3>1
    <3>3. v \in 1 .. N
      BY <1>7, <3>1
    <3> QED BY <1>12, <3>1, <3>2, <3>3
  <2>2. v # path[Len(path)]
    <3>1. Len(path) \in 1 .. Len(path) /\ i < Len(path)
      BY <1>4, <1>5
    <3>2. g < path[Len(path)]
      BY <1>3, <1>5, <1>8, <3>1
    <3>3. path[Len(path)] \in 1 .. N
      BY <1>7, <3>1
    <3> QED BY <1>9, <2>1, <3>2, <3>3
  <2>3. PICK e \in edge, j \in 1 .. Len(path) :
          e.tgt = v /\ e.type = "refinement" /\ e.src = path[j]
    BY <1>1, <2>1, <2>2 DEF LiveSet, Pending
  <2>4. path[j] < g
    <3>1. e.src < v
      BY <1>8, <2>3
    <3>2. path[j] \in 1 .. N
      BY <1>7
    <3> QED BY <1>9, <2>1, <2>3, <3>1, <3>2
  <2>5. j \in 1 .. Len(path') /\ e.src = path'[j]
    <3>1. j <= k
      BY <1>11, <2>4
    <3>2. j \in 1 .. k /\ j \in 1 .. k + 1
      BY <1>5, <3>1
    <3> QED BY <1>4, <2>3, <3>2
  <2>6. e.src # g
    BY <1>7, <1>9, <2>3, <2>4
  <2>7. e # link
    <3>1. link.type = "generalization"
      BY DEF link
    <3> QED BY <2>3, <3>1
  <2> QED BY <1>6, <2>3, <2>5, <2>6, <2>7
<1>21. path' # <<>> /\ path'[Len(path')] = N + 1
  <2>1. Len(path') # 0
    BY <1>4, <1>5
  <2> QED BY <1>4, <2>1
<1> QED BY <1>16, <1>17, <1>18, <1>19, <1>20, <1>21, LiveNow
-----------------------------------------------------------------------------
\* A live set depends on nothing but the graph and the path.
LEMMA LiveStays ==
  ASSUME UNCHANGED <<st, visited, edge, path>>
  PROVE  \A L : LiveSet(L) => LiveSet(L)'
<1>1. \A v : Justified(v, edge)' <=> Justified(v, edge)
  <2> SUFFICES ASSUME NEW v PROVE Justified(v, edge)' <=> Justified(v, edge)
    OBVIOUS
  <2>1. st' = st /\ edge' = edge
    OBVIOUS
  <2> QED BY <2>1 DEF Justified
<1>2. \A v : Pending(v)' <=> Pending(v)
  BY DEF Pending
<1>3. Vertex' = Vertex /\ Entry' = Entry
  BY DEF Vertex, Entry
<1> QED BY <1>1, <1>2, <1>3 DEF LiveSet

\* The construction keeps a live part.
LEMMA LiveNext ==
  ASSUME ConstructionInv, LiveInv, [Next]_segVars
  PROVE  LiveInv'
<1>1. CASE LeaveEnd \/ Generalize \/ Backtrack
  BY <1>1, LivePop
<1>2. CASE MergeStates
  BY <1>2, LiveMerge
<1>3. CASE EvaluateOne \/ EvaluateRet \/ EvaluateTwo
  BY <1>3, LiveExpand
<1>4. CASE Descend
  BY <1>4, LiveDescend
<1>5. CASE UNCHANGED <<st, visited, edge, path>>
  <2>1. \A L : LiveSet(L) => LiveSet(L)'
    BY <1>5, LiveStays
  <2> QED BY <2>1 DEF LiveInv
<1> QED BY <1>1, <1>2, <1>3, <1>4, <1>5 DEF Next, Exit, segVars

(***************************************************************************)
(* The invariant of main: before simplifySEG nothing is copied, from then  *)
(* on the copied vertices are in the live part, every edge out of a copied *)
(* vertex is copied unless a call of dfs on the vertex is active, and      *)
(* toKITTEL runs when dfs has returned.                                    *)
(***************************************************************************)
Copying ==
  /\ path = <<>>
  /\ \E L : LiveSet(L) /\ copied \subseteq L
  /\ Entry \in copied
  /\ \A i \in 1 .. Len(calls) : calls[i] \in copied
  /\ \A e \in dest : e.tgt \in copied
  /\ \A v \in copied :
       (\E i \in 1 .. Len(calls) : calls[i] = v) \/ Out(v) \subseteq dest

\* The rules of the edges toKITTEL is done with are in the file.
RulesWritten ==
  rules = {Rule(e) : e \in {d \in written : Satisfiable(st[d.src])}}

ManagerInv ==
  /\ ConstructionInv /\ LiveInv /\ ManagerTypeOK
  /\ phase = "constructSEG" =>
       calls = <<>> /\ copied = {} /\ dest = {}
  /\ phase # "constructSEG" => Copying
  /\ phase \in {"toKITTEL", "done", "unopened"} => calls = <<>>
  /\ phase = "done" => written = dest
  /\ RulesWritten

\* main begins with the construction.
LEMMA ManagerInitInv == ManagerInit => ManagerInv
<1> SUFFICES ASSUME ManagerInit PROVE ManagerInv
  OBVIOUS
<1>1. ConstructionInv /\ LiveInv /\ TypeOK
  BY InitInv, LiveInit DEF ManagerInit, ConstructionInv
<1>2. ManagerTypeOK
  BY <1>1 DEF ManagerInit, ManagerTypeOK
<1> QED BY <1>1, <1>2 DEF ManagerInit, ManagerInv, RulesWritten

\* What a rule says depends on nothing but the graph.
LEMMA RuleStays ==
  ASSUME UNCHANGED <<st, edge>>, NEW e
  PROVE  Rule(e)' = Rule(e)
<1>1. st' = st /\ edge' = edge
  OBVIOUS
<1> QED BY <1>1 DEF Rule, Mu, LV, Vertex, Origin, Renews, Defined

\* The file as it is goes on saying what it said.
LEMMA FileStays ==
  ASSUME UNCHANGED <<st, edge, written, rules>>, RulesWritten
  PROVE  RulesWritten'
BY RuleStays DEF RulesWritten, Satisfiable

\* simplifySEG and toKITTEL leave the graph as the construction made it.
LEMMA GraphStays ==
  ASSUME ManagerInv, UNCHANGED <<st, visited, edge, path>>,
         status' \in {"running", "exited"}
  PROVE  /\ ConstructionInv' /\ LiveInv' /\ TypeOK' /\ Vertex' = Vertex
         /\ \A v : Out(v)' = Out(v)
         /\ \A L : LiveSet(L) => LiveSet(L)'
<1>1. ConstructionInv'
  BY InvStays DEF ManagerInv
<1>2. Vertex' = Vertex /\ \A v : Out(v)' = Out(v)
  BY DEF Vertex, Out
<1>3. \A L : LiveSet(L) => LiveSet(L)'
  BY LiveStays
<1>4. LiveInv'
  BY <1>3 DEF ManagerInv, LiveInv
<1> QED BY <1>1, <1>2, <1>3, <1>4 DEF ConstructionInv

\* What simplifySEG has copied is still what the graph needs.
LEMMA CopyingStays ==
  ASSUME ManagerInv, Copying, status' \in {"running", "exited"},
         UNCHANGED <<st, visited, edge, path, calls, copied, dest>>
  PROVE  Copying'
<1>1. \E L : LiveSet(L)' /\ copied' \subseteq L
  BY GraphStays DEF Copying
<1>2. \A v : Out(v)' = Out(v)
  BY GraphStays
<1> QED BY <1>1, <1>2 DEF Copying, Entry

\* simplifySEG writes no file.
LEMMA SimplifyStays ==
  ASSUME ManagerInv, UNCHANGED <<segVars, written, rules>>
  PROVE  /\ ConstructionInv' /\ LiveInv' /\ TypeOK' /\ Vertex' = Vertex
         /\ \A v : Out(v)' = Out(v)
         /\ \A L : LiveSet(L) => LiveSet(L)'
         /\ RulesWritten' /\ rules' \subseteq {Rule(e) : e \in written}'
<1>1. UNCHANGED <<st, visited, edge, path>> /\ status' \in {"running", "exited"}
  BY DEF segVars, ManagerInv, ManagerTypeOK, TypeOK
<1>2. RulesWritten'
  BY <1>1, FileStays DEF ManagerInv
<1>3. rules' \subseteq {Rule(e) : e \in written}'
  BY <1>2 DEF RulesWritten
<1> QED BY <1>1, <1>2, <1>3, GraphStays

\* simplifySEG begins when nothing is left to expand.
LEMMA SimplifyInv == ManagerInv /\ SimplifySEG => ManagerInv'
<1> SUFFICES ASSUME ManagerInv, SimplifySEG PROVE ManagerInv'
  OBVIOUS
<1>1. UNCHANGED <<segVars, written, rules>> /\ path = <<>> /\ path' = <<>>
  BY DEF SimplifySEG, segVars, kittel
<1>2. PICK L : LiveSet(L)
  BY DEF ManagerInv, LiveInv
<1>3. Entry \in L /\ Entry \in Vertex /\ LiveSet(L)'
  BY <1>1, <1>2, SimplifyStays DEF LiveSet
<1>4. /\ phase' = "simplifySEG" /\ copied' = {Entry} /\ calls' = <<Entry>>
      /\ dest' = {} /\ UNCHANGED <<written, rules>> /\ written = {}
  BY DEF SimplifySEG, kittel, ManagerInv, ManagerTypeOK
<1>5. Len(calls') = 1 /\ calls'[1] = Entry /\ 1 \in 1 .. Len(calls')
  BY <1>4
<1>6. ManagerTypeOK'
  <2>1. calls' \in Seq(Vertex) /\ copied' \subseteq Vertex
    BY <1>3, <1>4
  <2> QED BY <1>1, <1>4, <2>1, SimplifyStays DEF ManagerTypeOK
<1>7. Copying'
  <2>1. Entry' = Entry
    BY DEF Entry
  <2>2. \A v \in copied' : \E i \in 1 .. Len(calls') : calls'[i] = v
    BY <1>4, <1>5
  <2>3. \A i \in 1 .. Len(calls') : calls'[i] \in copied'
    BY <1>4, <1>5
  <2> QED BY <1>1, <1>3, <1>4, <2>1, <2>2, <2>3 DEF Copying
<1> QED BY <1>1, <1>4, <1>6, <1>7, SimplifyStays DEF ManagerInv

\* dfs copies an edge and, at most once, its target.
LEMMA DfsChildInv == ManagerInv /\ DfsChild => ManagerInv'
<1> SUFFICES ASSUME ManagerInv, DfsChild PROVE ManagerInv'
  OBVIOUS
<1>1. /\ UNCHANGED segVars /\ Copying /\ ManagerTypeOK /\ TypeOK /\ calls # <<>>
      /\ phase' = phase /\ phase = "simplifySEG" /\ UNCHANGED <<written, rules>>
  BY DEF DfsChild, segVars, kittel, ManagerInv, ManagerTypeOK
<1>2. PICK e \in Out(Caller) \ dest :
        /\ dest' = dest \cup {e}
        /\ copied' = copied \cup {e.tgt}
        /\ calls' = IF e.tgt \in copied THEN calls ELSE Append(calls, e.tgt)
  BY DEF DfsChild
<1>3. PICK L : LiveSet(L) /\ copied \subseteq L
  BY <1>1 DEF Copying
<1>4. Len(calls) \in Nat \ {0} /\ Caller = calls[Len(calls)] /\ Caller \in copied
  <2>1. Len(calls) \in Nat \ {0}
    BY <1>1, EmptySeq DEF ManagerTypeOK
  <2>2. Len(calls) \in 1 .. Len(calls)
    BY <2>1
  <2> QED BY <1>1, <2>1, <2>2 DEF Copying, Caller
<1>5. e \in edge /\ e.src = Caller /\ e.tgt \in Vertex /\ e.tgt \in L
  BY <1>1, <1>2, <1>3, <1>4 DEF Out, LiveSet, TypeOK
<1>6. /\ calls' \in Seq(Vertex)
      /\ Len(calls') \in Nat /\ Len(calls) <= Len(calls')
      /\ \A i \in 1 .. Len(calls) : calls'[i] = calls[i]
      /\ \A i \in 1 .. Len(calls') : i \in 1 .. Len(calls) \/ calls'[i] = e.tgt
      /\ e.tgt \notin copied => \E i \in 1 .. Len(calls') : calls'[i] = e.tgt
  <2>1. calls \in Seq(Vertex)
    BY <1>1 DEF ManagerTypeOK
  <2>2. CASE e.tgt \in copied
    BY <1>2, <1>4, <2>1, <2>2
  <2>3. CASE e.tgt \notin copied
    <3>1. calls' = Append(calls, e.tgt)
      BY <1>2, <2>3
    <3>2. /\ calls' \in Seq(Vertex) /\ Len(calls') = Len(calls) + 1
          /\ \A i \in 1 .. Len(calls) : calls'[i] = calls[i]
          /\ calls'[Len(calls) + 1] = e.tgt
      BY <1>5, <2>1, <3>1, AppendProperties
    <3>3. \A i \in 1 .. Len(calls') : i \in 1 .. Len(calls) \/ i = Len(calls) + 1
      BY <1>4, <3>2
    <3>4. Len(calls) + 1 \in 1 .. Len(calls') /\ Len(calls') \in Nat /\ Len(calls) <= Len(calls')
      BY <1>4, <3>2
    <3> QED BY <3>2, <3>3, <3>4
  <2> QED BY <2>2, <2>3
<1>7. ManagerTypeOK'
  <2>1. copied' \subseteq Vertex /\ dest' \subseteq edge /\ edge' = edge
    BY <1>1, <1>2, <1>5 DEF ManagerTypeOK, segVars
  <2>2. written' \subseteq dest' /\ rules' \subseteq {Rule(f) : f \in written}'
    BY <1>1, <1>2, SimplifyStays DEF ManagerTypeOK
  <2>3. TypeOK' /\ Vertex' = Vertex
    BY <1>1, SimplifyStays
  <2> QED BY <1>1, <1>6, <2>1, <2>2, <2>3 DEF ManagerTypeOK
<1>8. Copying'
  <2>1. path' = <<>> /\ Entry' = Entry /\ LiveSet(L)' /\ copied' \subseteq L
    BY <1>1, <1>2, <1>3, <1>5, SimplifyStays DEF Copying, segVars, Entry
  <2>2. \A i \in 1 .. Len(calls') : calls'[i] \in copied'
    BY <1>1, <1>2, <1>6 DEF Copying
  <2>3. Entry \in copied' /\ \A f \in dest' : f.tgt \in copied'
    BY <1>1, <1>2 DEF Copying
  <2>4. ASSUME NEW v, v \in copied'
        PROVE  (\E i \in 1 .. Len(calls') : calls'[i] = v) \/ Out(v)' \subseteq dest'
    <3>1. CASE v \notin copied
      BY <1>2, <1>6, <2>4, <3>1
    <3>2. CASE v \in copied /\ Out(v) \subseteq dest
      BY <1>1, <1>2, <3>2, SimplifyStays
    <3>3. CASE \E i \in 1 .. Len(calls) : calls[i] = v
      <4>1. PICK i \in 1 .. Len(calls) : calls[i] = v
        BY <3>3
      <4>2. i \in 1 .. Len(calls') /\ calls'[i] = v
        BY <1>4, <1>6, <4>1
      <4> QED BY <4>2
    <3> QED BY <1>1, <3>1, <3>2, <3>3 DEF Copying
  <2> QED BY <2>1, <2>2, <2>3, <2>4 DEF Copying
<1> QED BY <1>1, <1>7, <1>8, SimplifyStays DEF ManagerInv

\* dfs returns when all edges of the caller are copied.
LEMMA DfsReturnInv == ManagerInv /\ DfsReturn => ManagerInv'
<1> SUFFICES ASSUME ManagerInv, DfsReturn PROVE ManagerInv'
  OBVIOUS
<1>1. /\ UNCHANGED segVars /\ Copying /\ ManagerTypeOK /\ calls # <<>>
      /\ phase = "simplifySEG" /\ UNCHANGED <<phase, copied, dest, written, rules>>
      /\ Out(Caller) \subseteq dest /\ calls' = Pop(calls)
  BY DEF DfsReturn, segVars, kittel, ManagerInv
<1>2. /\ calls' \in Seq(Vertex) /\ Len(calls') = Len(calls) - 1
      /\ \A i \in 1 .. Len(calls) - 1 : calls'[i] = calls[i]
  BY <1>1, PopPath DEF ManagerTypeOK
<1>3. Len(calls) \in Nat \ {0} /\ Caller = calls[Len(calls)]
  BY <1>1, EmptySeq DEF ManagerTypeOK, Caller
<1>4. ManagerTypeOK'
  <2>1. edge' = edge
    BY <1>1 DEF segVars
  <2> QED BY <1>1, <1>2, <2>1, SimplifyStays DEF ManagerTypeOK
<1>5. Copying'
  <2>1. path' = <<>> /\ Entry' = Entry /\ \E L : LiveSet(L)' /\ copied' \subseteq L
    BY <1>1, SimplifyStays DEF Copying, segVars, Entry
  <2>2. \A i \in 1 .. Len(calls') : calls'[i] \in copied'
    <3>1. \A i \in 1 .. Len(calls') : i \in 1 .. Len(calls) - 1 /\ i \in 1 .. Len(calls)
      BY <1>2, <1>3
    <3> QED BY <1>1, <1>2, <3>1 DEF Copying
  <2>3. Entry \in copied' /\ \A f \in dest' : f.tgt \in copied'
    BY <1>1 DEF Copying
  <2>4. ASSUME NEW v, v \in copied'
        PROVE  (\E i \in 1 .. Len(calls') : calls'[i] = v) \/ Out(v)' \subseteq dest'
    <3>1. CASE v = Caller \/ Out(v) \subseteq dest
      BY <1>1, <3>1, SimplifyStays
    <3>2. CASE v # Caller /\ \E i \in 1 .. Len(calls) : calls[i] = v
      <4>1. PICK i \in 1 .. Len(calls) : calls[i] = v
        BY <3>2
      <4>2. i # Len(calls)
        BY <1>3, <3>2, <4>1
      <4>3. i \in 1 .. Len(calls') /\ calls'[i] = v
        BY <1>2, <1>3, <4>1, <4>2
      <4> QED BY <4>3
    <3> QED BY <1>1, <2>4, <3>1, <3>2 DEF Copying
  <2> QED BY <2>1, <2>2, <2>3, <2>4 DEF Copying
<1> QED BY <1>1, <1>4, <1>5, SimplifyStays DEF ManagerInv

\* What toKITTEL leaves alone
LEMMA StillInv ==
  ASSUME ManagerInv,
         UNCHANGED <<st, visited, edge, path, calls, copied, dest, written, rules>>,
         status' \in {"running", "exited"},
         phase' \in {"constructSEG", "simplifySEG", "toKITTEL", "done", "unopened"}
  PROVE  ManagerTypeOK' /\ (Copying => Copying') /\ RulesWritten'
<1>1. ManagerTypeOK'
  <2>1. \A e : Rule(e)' = Rule(e)
    BY RuleStays
  <2>2. {Rule(e) : e \in written}' = {Rule(e) : e \in written}
    BY <2>1
  <2> QED BY <2>2, GraphStays DEF ManagerInv, ManagerTypeOK
<1>2. ASSUME Copying PROVE Copying'
  BY <1>2, CopyingStays
<1>3. RulesWritten'
  BY FileStays DEF ManagerInv
<1> QED BY <1>1, <1>2, <1>3

\* toKITTEL is done with one more edge.
LEMMA WriteRulesInv == ManagerInv /\ WriteRules => ManagerInv'
<1> SUFFICES ASSUME ManagerInv, WriteRules PROVE ManagerInv'
  OBVIOUS
<1>1. /\ UNCHANGED <<segVars, phase, calls, copied, dest>> /\ phase = "toKITTEL"
      /\ UNCHANGED <<st, visited, edge, path>> /\ status' \in {"running", "exited"}
      /\ ManagerTypeOK /\ RulesWritten /\ Copying /\ calls = <<>>
  BY DEF WriteRules, Writing, segVars, ManagerInv, ManagerTypeOK, TypeOK
<1>2. PICK e \in Left :
        /\ written' = written \cup {e}
        /\ rules' = IF Satisfiable(st[e.src]) THEN rules \cup {Rule(e)} ELSE rules
  BY DEF WriteRules
<1>3. e \in dest
  BY <1>2 DEF Left
<1>4. \A f : Rule(f)' = Rule(f)
  BY <1>1, RuleStays
<1>5. RulesWritten'
  <2>1. rules' = {Rule(f) : f \in {d \in written' : Satisfiable(st[d.src])}}
    BY <1>1, <1>2 DEF RulesWritten
  <2>2. \A d : Satisfiable(st[d.src])' = Satisfiable(st[d.src])
    BY <1>1 DEF Satisfiable
  <2> QED BY <1>4, <2>1, <2>2 DEF RulesWritten
<1>6. ManagerTypeOK'
  <2>1. written' \subseteq dest' /\ dest' \subseteq edge'
    BY <1>1, <1>2, <1>3 DEF ManagerTypeOK
  <2>2. rules' \subseteq {Rule(f)' : f \in written'}
    BY <1>5 DEF RulesWritten
  <2> QED BY <1>1, <2>1, <2>2, GraphStays DEF ManagerTypeOK
<1>7. Copying'
  BY <1>1, CopyingStays
<1> QED BY <1>1, <1>5, <1>6, <1>7, GraphStays DEF ManagerInv

\* Every step of main keeps the invariant.
LEMMA ManagerNextInv == ManagerInv /\ [ManagerNext]_vars => ManagerInv'
<1> SUFFICES ASSUME ManagerInv, [ManagerNext]_vars PROVE ManagerInv'
  OBVIOUS
<1>0. status \in {"running", "exited"}
  BY DEF ManagerInv, ManagerTypeOK, TypeOK
<1>1. CASE ConstructSEG
  <2>1. ConstructionInv' /\ LiveInv'
    BY <1>1, NextInv, LiveNext DEF ConstructSEG, ManagerInv
  <2>2. /\ phase = "constructSEG" /\ calls = <<>> /\ copied = {} /\ dest = {}
        /\ written = {} /\ rules = {}
        /\ UNCHANGED <<phase, calls, copied, dest, written, rules>>
    BY <1>1 DEF ConstructSEG, kittel, ManagerInv, ManagerTypeOK, RulesWritten
  <2>3. ManagerTypeOK'
    BY <2>1, <2>2 DEF ManagerTypeOK, ConstructionInv
  <2>4. RulesWritten'
    BY <2>2 DEF RulesWritten
  <2> QED BY <2>1, <2>2, <2>3, <2>4 DEF ManagerInv
<1>2. CASE SimplifySEG
  BY <1>2, SimplifyInv
<1>3. CASE DfsChild
  BY <1>3, DfsChildInv
<1>4. CASE DfsReturn
  BY <1>4, DfsReturnInv
<1>5. CASE ToKITTEL
  <2>1. /\ UNCHANGED <<segVars, calls, copied, dest, written, rules>>
        /\ phase' \in {"toKITTEL", "unopened"} /\ calls = <<>> /\ Copying
    BY <1>5 DEF ToKITTEL, kittel, ManagerInv
  <2>2. ManagerTypeOK' /\ Copying' /\ RulesWritten'
    BY <2>1, <1>0, StillInv DEF segVars
  <2> QED BY <2>1, <2>2, SimplifyStays DEF ManagerInv
<1>6. CASE WriteRules
  BY <1>6, WriteRulesInv
<1>7. CASE ExitInReduce
  <2>1. /\ UNCHANGED <<st, visited, edge, path, phase, calls, copied, dest, written, rules>>
        /\ status' = "exited" /\ phase = "toKITTEL"
    BY <1>7 DEF ExitInReduce, Writing, kittel
  <2>2. ManagerTypeOK' /\ (Copying => Copying') /\ RulesWritten'
    BY <2>1, StillInv DEF ManagerInv, ManagerTypeOK
  <2> QED BY <2>1, <2>2, GraphStays DEF ManagerInv
<1>8. CASE CloseFile
  <2>1. /\ UNCHANGED <<segVars, calls, copied, dest, written, rules>>
        /\ phase' = "done" /\ phase = "toKITTEL" /\ calls = <<>> /\ Copying
        /\ dest \subseteq written /\ written \subseteq dest
    BY <1>8 DEF CloseFile, Writing, Left, kittel, ManagerInv, ManagerTypeOK
  <2>2. ManagerTypeOK' /\ Copying' /\ RulesWritten'
    BY <2>1, <1>0, StillInv DEF segVars
  <2> QED BY <2>1, <2>2, SimplifyStays DEF ManagerInv
<1>9. CASE UNCHANGED vars
  <2>1. /\ UNCHANGED <<segVars, phase, calls, copied, dest, written, rules>>
        /\ phase' \in {"constructSEG", "simplifySEG", "toKITTEL", "done", "unopened"}
    BY <1>9 DEF vars, kittel, ManagerInv, ManagerTypeOK
  <2>2. ManagerTypeOK' /\ (Copying => Copying') /\ RulesWritten'
    BY <2>1, <1>0, StillInv DEF segVars
  <2> QED BY <2>1, <2>2, SimplifyStays DEF ManagerInv
<1> QED BY <1>1, <1>2, <1>3, <1>4, <1>5, <1>6, <1>7, <1>8, <1>9 DEF ManagerNext

\* The invariant of main holds throughout a run.
THEOREM ManagerInvariant == ManagerSpec => []ManagerInv
BY ManagerInitInv, ManagerNextInv, PTL DEF ManagerSpec

\* Every variable of main keeps its type.
THEOREM ManagerTypeCorrect == ManagerSpec => []ManagerTypeOK
<1>1. ManagerInv => ManagerTypeOK
  BY DEF ManagerInv
<1> QED BY <1>1, ManagerInvariant, PTL

\* A vertex all of whose edges are delivered stays justified.
LEMMA DeliveredIsJustified == ManagerInv => DeliveredJustified
<1> SUFFICES ASSUME ManagerInv, phase = "done"
             PROVE  /\ Entry \in copied
                    /\ \A v \in copied : Justified(v, dest)
                    /\ \A e \in dest : e.tgt \in copied
  BY DEF DeliveredJustified
<1>1. Copying /\ calls = <<>>
  BY DEF ManagerInv
<1>2. PICK L : LiveSet(L) /\ copied \subseteq L
  BY <1>1 DEF Copying
<1>3. ASSUME NEW v \in copied
      PROVE  Justified(v, dest)
  <2>1. Out(v) \subseteq dest
    BY <1>1 DEF Copying
  <2>2. v \in visited
    BY <1>1, <1>2 DEF Copying, LiveSet, Pending
  <2>3. Justified(v, edge)
    BY <1>2, <2>2 DEF LiveSet
  <2>4. \A e \in edge : e.src = v => e \in dest
    BY <2>1 DEF Out
  <2> QED BY <2>3, <2>4 DEF Justified
<1> QED BY <1>1, <1>3 DEF Copying

(***************************************************************************)
(* Whatever the program and the solver, every vertex of the graph main     *)
(* hands to KITTeL is accounted for by edges of that graph.                *)
(***************************************************************************)
THEOREM DeliveredGraphIsComplete == ManagerSpec => []DeliveredJustified
BY DeliveredIsJustified, ManagerInvariant, PTL

(***************************************************************************)
(* Whatever the program and the solver, a delivered vertex that stands for *)
(* some state of the program has a rule.                                   *)
(***************************************************************************)
THEOREM NormalFormsAreEnds == ManagerSpec => []NoSpuriousNormalForm
<1>1. ManagerInv => NoSpuriousNormalForm
  <2> SUFFICES ASSUME ManagerInv, phase = "done", NEW v \in copied,
                      st[v] # NULL, Satisfiable(st[v])
               PROVE  \E r \in rules : r.src = v
    BY DEF NoSpuriousNormalForm
  <2>1. Justified(v, dest)
    BY DeliveredIsJustified DEF DeliveredJustified
  <2>2. PICK e \in dest : e.src = v
    BY <2>1 DEF Justified
  <2>3. Rule(e) \in rules /\ Rule(e).src = v
    BY <2>2 DEF ManagerInv, RulesWritten, Rule
  <2> QED BY <2>3
<1> QED BY <1>1, ManagerInvariant, PTL
-----------------------------------------------------------------------------
\* What a memory meets, it also meets of the conclusions of the solver.
LEMMA MeetsImplied ==
  ASSUME NEW s \in State, NEW p, NEW m \in Memory, Describes(s, p, m)
  PROVE  Meets(m, Implied[FO(s)]) /\ Meets(m, Implied[s.kb])
<1>1. s.kb \cup s.al \cup s.pt \in SUBSET (Pred \cup Cells) /\ s.kb \in SUBSET Pred
  BY DEF State, Cells
<1>2. Meets(m, FO(s)) /\ FO(s) \in SUBSET Pred
  BY <1>1, SemanticsAssumption, FOType DEF Describes, FO
<1>3. Meets(m, s.kb)
  BY DEF Describes, Meets
<1> QED BY <1>1, <1>2, <1>3, SemanticsAssumption

\* A more general state stands for at least as much.
LEMMA GeneralStandsFor ==
  ASSUME NEW g \in State, NEW s \in State, NEW p, NEW m \in Memory,
         IsGeneralizationOf(g, s), g.pc = s.pc, Describes(s, p, m)
  PROVE  Describes(g, p, m)
<1>1. Meets(m, Implied[FO(s)])
  BY MeetsImplied
<1>2. \A q \in g.kb : m \in Sat[q]
  BY <1>1 DEF IsGeneralizationOf, Implies, Meets
<1>3. \A q \in g.al \cup g.pt : m \in Sat[q]
  BY DEF IsGeneralizationOf, Describes, Meets
<1>4. g # NULL
  BY NullAssumption
<1> QED BY <1>2, <1>3, <1>4 DEF Describes, Meets

\* One of the halves of a refinement stands for each memory the whole does.
LEMMA HalvesStandFor ==
  ASSUME NEW s \in State, NeedsRefinement(s), NEW p, NEW m \in Memory,
         Describes(s, p, m)
  PROVE  Describes(RefineTrue(s), p, m) \/ Describes(RefineFalse(s), p, m)
<1>1. s.pc \in PC /\ Inst[s.pc].kind \in {"icmp", "cond"}
  BY DEF State, NeedsRefinement
<1>2. m \in Sat[Inst[s.pc].ifTrue] \/ m \in Sat[Inst[s.pc].ifFalse]
  BY <1>1, SemanticsAssumption
<1>3. /\ RefineTrue(s).pc = s.pc /\ RefineFalse(s).pc = s.pc
      /\ RefineTrue(s).al = s.al /\ RefineFalse(s).al = s.al
      /\ RefineTrue(s).pt = s.pt /\ RefineFalse(s).pt = s.pt
      /\ RefineTrue(s).kb = s.kb \cup {Inst[s.pc].ifTrue}
      /\ RefineFalse(s).kb = s.kb \cup {Inst[s.pc].ifFalse}
  BY DEF RefineTrue, RefineFalse, State
<1>4. RefineTrue(s) # NULL /\ RefineFalse(s) # NULL
  BY RefineType, NullAssumption
<1> QED BY <1>2, <1>3, <1>4 DEF Describes, Meets

\* reduce drops no rule of a state that stands for some memory.
LEMMA StandsForKeepsRule ==
  ASSUME NEW s \in State, NEW p, NEW m \in Memory, Describes(s, p, m)
  PROVE  Satisfiable(s)
BY MeetsImplied, SemanticsAssumption DEF Satisfiable
-----------------------------------------------------------------------------
\* The successor of a state along one instruction, when the facts are right.
LEMMA MoveIsRight ==
  ASSUME NEW s \in State, NEW k, NEW fresh, NEW facts, NEW m \in Memory, NEW n,
         Describes(s, s.pc, m),
         NEW p, p = Inst[s.pc].next[k],
         Meets(n, facts),
         \A q \in Pred : m \in Sat[q] /\ About[q] \cap fresh = {} => n \in Sat[q],
         \A q \in Cells : m \in Sat[q] => n \in Sat[q],
         Move(s, k, fresh, facts, s.al, s.pt) \in State
  PROVE  Describes(Move(s, k, fresh, facts, s.al, s.pt), p, n)
<1> DEFINE t == Move(s, k, fresh, facts, s.al, s.pt)
<1>1. /\ t.pc = p /\ t.kb = Kept(s, fresh) \cup facts /\ t.al = s.al /\ t.pt = s.pt
  BY DEF Move
<1>2. Meets(m, Implied[s.kb]) /\ Meets(m, s.kb \cup s.al \cup s.pt)
  BY MeetsImplied DEF Describes
<1>3. /\ s.kb \subseteq Pred /\ Implied[s.kb] \subseteq Pred
      /\ s.al \cup s.pt \subseteq Cells
  BY SolverAssumption DEF State, Cells
<1>4. \A q \in Kept(s, fresh) : q \in Pred /\ m \in Sat[q] /\ About[q] \cap fresh = {}
  BY <1>2, <1>3 DEF Kept, Meets
<1>5. \A q \in t.kb : n \in Sat[q]
  BY <1>1, <1>4 DEF Meets
<1>6. \A q \in t.al \cup t.pt : n \in Sat[q]
  BY <1>1, <1>2, <1>3 DEF Meets
<1>7. t # NULL
  BY NullAssumption
<1> QED BY <1>1, <1>5, <1>6, <1>7 DEF Describes, Meets

\* evaluate is right about every instruction of a program without memory
\* accesses: it follows a condition that is known, and forgets what may change.
LEMMA EvaluateIsRight ==
  ASSUME InstructionsRight, NEW s \in State, ~NeedsRefinement(s),
         NEW t \in Evaluate(s)
  PROVE  EvaluatesRight(s, t)
<1> DEFINE inst == Inst[s.pc]
<1> SUFFICES ASSUME NEW m \in Memory, Describes(s, s.pc, m),
                    NEW next \in Step[<<s.pc, m>>]
             PROVE  Describes(t, next[1], next[2])
  BY DEF EvaluatesRight
<1>1. /\ s.pc \in PC /\ inst \in Instruction /\ t \in State
      /\ inst.kind \in Kinds \ {"alloca", "load", "store"}
  BY ProgramAssumption, EvaluateType DEF State, Instruction, InstructionsRight
<1>2. PICK k \in 1 .. Len(inst.next) :
        /\ next[1] = inst.next[k]
        /\ inst.kind = "cond" =>
             /\ k = 1 <=> m \in Sat[inst.ifTrue]
             /\ k = 2 <=> m \in Sat[inst.ifFalse]
        /\ IF inst.kind = "icmp"
             THEN /\ m \in Sat[inst.ifTrue] => next[2] \in Sat[inst.one]
                  /\ m \in Sat[inst.ifFalse] => next[2] \in Sat[inst.zero]
             ELSE \A f \in inst.learn : Meets(next[2], f)
        /\ \A q \in Pred : m \in Sat[q] /\ About[q] \cap Defined(s.pc, k) = {} =>
             next[2] \in Sat[q]
        /\ \A q \in Cells : m \in Sat[q] => next[2] \in Sat[q]
  BY <1>1 DEF InstructionsRight
<1>3. \A q : Implies(s, q) => m \in Sat[q]
  BY MeetsImplied DEF Implies, Meets
<1>4. inst.kind \notin {"ret", "unsupported", "cond"} => k = 1
  <2> SUFFICES ASSUME inst.kind \notin {"ret", "unsupported", "cond"} PROVE k = 1
    OBVIOUS
  <2>1. Len(inst.next) = 1
    BY <1>1, ProgramAssumption
  <2>2. k \in 1 .. 1
    BY <2>1
  <2> QED BY <2>2
<1>5. ASSUME NEW f, NEW j, j = k, Meets(next[2], f),
             t = Move(s, j, Defined(s.pc, j), f, s.al, s.pt)
      PROVE  Describes(t, next[1], next[2])
  BY <1>1, <1>2, <1>5, MoveIsRight
<1>6. CASE inst.kind = "assign"
  <2>1. PICK f \in inst.learn : t = Move(s, 1, {s.pc}, f, s.al, s.pt)
    BY <1>6 DEF Evaluate, Assign
  <2>2. Defined(s.pc, 1) = {s.pc}
    BY <1>6 DEF Defined
  <2> QED BY <1>2, <1>4, <1>5, <1>6, <2>1, <2>2
<1>7. CASE inst.kind = "icmp"
  <2>1. Defined(s.pc, 1) = {s.pc} /\ k = 1
    BY <1>4, <1>7 DEF Defined
  <2>2. CASE Implies(s, inst.ifTrue)
    <3>1. t = Move(s, 1, {s.pc}, {inst.one}, s.al, s.pt)
      BY <1>7, <2>2 DEF Evaluate, ICmp
    <3>2. Meets(next[2], {inst.one})
      BY <1>2, <1>3, <1>7, <2>2 DEF Meets
    <3> QED BY <1>5, <2>1, <3>1, <3>2
  <2>3. CASE ~Implies(s, inst.ifTrue)
    <3>1. t = Move(s, 1, {s.pc}, {inst.zero}, s.al, s.pt)
      BY <1>7, <2>3 DEF Evaluate, ICmp
    <3>2. Implies(s, inst.ifFalse)
      BY <1>7, <2>3 DEF NeedsRefinement
    <3>3. Meets(next[2], {inst.zero})
      BY <1>2, <1>3, <1>7, <3>2 DEF Meets
    <3> QED BY <1>5, <2>1, <3>1, <3>3
  <2> QED BY <2>2, <2>3
<1>8. ASSUME inst.kind \in {"br", "cond"}, t \in Branch(s, k)
      PROVE  Describes(t, next[1], next[2])
  <2>1. PICK f \in inst.learn : t = Move(s, k, inst.phi[k], f, s.al, s.pt)
    BY <1>8 DEF Branch
  <2>2. Defined(s.pc, k) = inst.phi[k]
    BY <1>8 DEF Defined
  <2>3. Meets(next[2], f)
    BY <1>2, <1>8
  <2> QED BY <1>5, <2>1, <2>2, <2>3
<1>9. CASE inst.kind = "br"
  BY <1>4, <1>8, <1>9 DEF Evaluate
<1>10. CASE inst.kind = "cond"
  <2>1. CASE Implies(s, inst.ifTrue)
    <3>1. k = 1
      BY <1>2, <1>3, <1>10, <2>1
    <3> QED BY <1>8, <1>10, <2>1, <3>1 DEF Evaluate, CondBranch
  <2>2. CASE ~Implies(s, inst.ifTrue)
    <3>1. Implies(s, inst.ifFalse)
      BY <1>10, <2>2 DEF NeedsRefinement
    <3>2. k = 2
      BY <1>2, <1>3, <1>10, <3>1
    <3> QED BY <1>8, <1>10, <2>2, <3>2 DEF Evaluate, CondBranch
  <2> QED BY <2>1, <2>2
<1>11. CASE inst.kind \in {"ret", "unsupported"}
  BY <1>11 DEF Evaluate
<1> QED BY <1>1, <1>6, <1>7, <1>9, <1>10, <1>11 DEF Kinds
-----------------------------------------------------------------------------
\* The entry stands for every memory main can be called with.
EntryKept == Len(st) >= 1 /\ st[Entry] = EntryState

\* No turn of expandSEG replaces a state.
LEMMA EntryStays ==
  ASSUME ConstructionInv, EntryKept, [Next]_segVars
  PROVE  EntryKept'
<1>1. TypeOK /\ Len(st) \in Nat /\ Entry \in 1 .. Len(st) /\ Entry' = Entry
  BY DEF ConstructionInv, TypeOK, EntryKept, Entry
<1>2. Len(st') \in Nat
  BY NextInv DEF ConstructionInv, TypeOK
<1>3. CASE MergeStates
  <2>1. PICK i \in GenTarget(Top), k \in Nat : MergeAt(i, k)
    BY <1>1, <1>3, MergeShape
  <2>2. Len(st') = Len(st) + 1 /\ \A v \in Vertex : st'[v] = st[v]
    BY <1>3, <2>1, MergeFacts
  <2> QED BY <1>1, <2>2 DEF EntryKept, Vertex
<1>4. CASE EvaluateOne \/ EvaluateRet \/ EvaluateTwo
  <2>1. st'[Entry] = st[Entry]
    BY <1>1, <1>4, ExpandKeepsStates
  <2>2. Len(st') >= Len(st)
    <3>1. PICK ss, type : ExpandTo(ss, type)
      BY <1>1, <1>4, EvaluateShape
    <3>2. /\ st \in Seq(State \cup {NULL}) /\ ss \in Seq(State \cup {NULL})
          /\ st' = st \o ss /\ Len(ss) \in Nat
      BY <1>1, <3>1 DEF TypeOK, ExpandTo
    <3>3. Len(st') = Len(st) + Len(ss)
      BY <3>2, ConcatProperties
    <3> QED BY <1>1, <3>2, <3>3
  <2> QED BY <1>1, <1>2, <2>1, <2>2 DEF EntryKept
<1>5. CASE st' = st
  BY <1>1, <1>5 DEF EntryKept
<1> QED
  BY <1>3, <1>4, <1>5
  DEF Next, LeaveEnd, Generalize, Exit, Descend, Backtrack, segVars

\* What the walks rest on beyond the invariant of main.
FollowInv == ManagerInv /\ SilentInv /\ EntryKept

LEMMA FollowInvariant == ManagerSpec => []FollowInv
<1>1. ManagerInit => SilentInv /\ EntryKept
  BY DEF ManagerInit, Init, SilentInv, BackFromEvaluation, MergedOnce,
         HalvesDecided, EntryKept, Entry
<1>2. ManagerInv /\ SilentInv /\ EntryKept /\ [ManagerNext]_vars =>
        SilentInv' /\ EntryKept'
  <2> SUFFICES ASSUME ManagerInv, SilentInv, EntryKept, [ManagerNext]_vars
               PROVE  SilentInv' /\ EntryKept'
    OBVIOUS
  <2>1. CASE [Next]_segVars
    BY <2>1, NextSilent, EntryStays DEF ManagerInv
  <2>2. CASE UNCHANGED <<st, edge, path>>
    BY <2>2 DEF SilentInv, BackFromEvaluation, MergedOnce, HalvesDecided, EntryKept,
                Entry
  <2>3. [Next]_segVars \/ UNCHANGED <<st, edge, path>>
    BY DEF ManagerNext, ConstructSEG, SimplifySEG, DfsChild, DfsReturn, ToKITTEL,
           WriteRules, ExitInReduce, CloseFile, vars, segVars
  <2> QED BY <2>1, <2>2, <2>3
<1> QED BY <1>1, <1>2, ManagerInitInv, ManagerNextInv, PTL DEF ManagerSpec, FollowInv
-----------------------------------------------------------------------------
\* The evaluations that justify a vertex are right about their instruction.
Trusted == InstructionsRight \/ EvaluatedRight

(***************************************************************************)
(* From a vertex that stands for a memory an edge with a rule leads on:    *)
(* either without an instruction to a vertex that stands for it too, or by *)
(* an evaluation to one that stands for whatever the instruction makes of  *)
(* it.                                                                     *)
(***************************************************************************)
LEMMA EdgeLeadsOn ==
  ASSUME FollowInv, phase = "done", Trusted,
         NEW v \in copied, NEW p, NEW m \in Memory, Describes(st[v], p, m)
  PROVE  \E e \in Ruled : /\ e.src = v
                          /\ \/ e.type # "evaluation" /\ Describes(st[e.tgt], p, m)
                             \/ /\ e.type = "evaluation"
                                /\ \A next \in Step[<<p, m>>] :
                                     Describes(st[e.tgt], next[1], next[2])
<1>1. /\ TypeOK /\ v \in Vertex /\ dest \subseteq edge /\ GeneralizationSound
      /\ \A e \in dest : Satisfiable(st[e.src]) => e \in Ruled
  <2>1. \A e \in dest : Satisfiable(st[e.src]) => Rule(e) \in rules
    BY DEF FollowInv, ManagerInv, RulesWritten
  <2> QED BY <2>1 DEF FollowInv, ManagerInv, ManagerTypeOK, ConstructionInv, Ruled, Rule
<1>2. \A u \in Vertex : st[u] \in State \cup {NULL}
  BY <1>1 DEF TypeOK, Vertex
<1>3. st[v] \in State /\ st[v] # NULL /\ st[v].pc = p
  BY <1>1, <1>2 DEF Describes
<1>4. Justified(v, dest)
  BY DeliveredIsJustified DEF FollowInv, DeliveredJustified
<1>5. Satisfiable(st[v])
  BY <1>3, StandsForKeepsRule
<1>6. \A e \in dest : e.src = v => e \in Ruled /\ e.tgt \in Vertex
  BY <1>1, <1>5 DEF TypeOK
<1>7. ASSUME NEW e \in dest, e.src = v, e.type = "generalization",
             st[e.tgt] # NULL, st[e.tgt].pc = st[v].pc,
             IsGeneralizationOf(st[e.tgt], st[v])
      PROVE  e \in Ruled /\ e.type # "evaluation" /\ Describes(st[e.tgt], p, m)
  BY <1>2, <1>3, <1>6, <1>7, GeneralStandsFor
<1>8. ASSUME NeedsRefinement(st[v]),
             NEW e \in dest, e.src = v, e.type = "refinement",
             st[e.tgt] = RefineTrue(st[v]),
             NEW f \in dest, f.src = v, f.type = "refinement",
             st[f.tgt] = RefineFalse(st[v])
      PROVE  /\ e \in Ruled /\ f \in Ruled
             /\ Describes(st[e.tgt], p, m) \/ Describes(st[f.tgt], p, m)
  BY <1>3, <1>6, <1>8, HalvesStandFor
<1>9. ASSUME ~NeedsRefinement(st[v]),
             NEW e \in dest, e.src = v, e.type = "evaluation",
             \/ Inst[st[v].pc].kind = "ret" /\ st[e.tgt] = NULL
             \/ st[e.tgt] \in Evaluate(st[v])
      PROVE  /\ e \in Ruled
             /\ \A next \in Step[<<p, m>>] : Describes(st[e.tgt], next[1], next[2])
  <2>1. e \in Ruled
    BY <1>6, <1>9
  <2>2. EvaluatesRight(st[v], st[e.tgt])
    <3>1. CASE EvaluatedRight
      BY <1>9, <3>1 DEF EvaluatedRight
    <3>2. CASE InstructionsRight /\ st[e.tgt] \in Evaluate(st[v])
      BY <1>3, <1>9, <3>2, EvaluateIsRight
    <3>3. CASE Inst[st[v].pc].kind = "ret"
      <4>1. st[v].pc \in PC
        BY <1>3 DEF State
      <4>2. \A n \in Memory : Step[<<st[v].pc, n>>] = {}
        BY <3>3, <4>1, SemanticsAssumption
      <4> QED BY <4>2 DEF EvaluatesRight
    <3> QED BY <1>9, <3>1, <3>2, <3>3 DEF Trusted
  <2> QED BY <1>3, <2>1, <2>2 DEF EvaluatesRight
<1> QED BY <1>3, <1>4, <1>7, <1>8, <1>9 DEF Justified

\* One more edge that runs no instruction is taken into account.
LEMMA SilentlyGrows ==
  ASSUME NEW V, NEW p, NEW m
  PROVE  /\ V \subseteq Silently(V, p, m)
         /\ \A e \in Ruled :
              e.src \in V /\ e.type # "evaluation" /\ Describes(st[e.tgt], p, m)
                => e.tgt \in Silently(V, p, m)
BY DEF Silently

\* Within three edges that run no instruction comes one that does.
LEMMA WalkFollowsStep ==
  ASSUME FollowInv, phase = "done", Trusted,
         NEW v \in copied, NEW p, NEW m \in Memory, Describes(st[v], p, m),
         NEW next \in Step[<<p, m>>]
  PROVE  \E e \in EvaluatedFrom(v, p, m) : Describes(st[e.tgt], next[1], next[2])
<1> DEFINE V1 == Silently({v}, p, m)
           V2 == Silently(V1, p, m)
           V3 == Silently(V2, p, m)
<1>1. /\ v \in V1 /\ V1 \subseteq V2 /\ V2 \subseteq V3
      /\ \A e \in Ruled : e.type # "evaluation" /\ Describes(st[e.tgt], p, m) =>
           /\ e.src = v => e.tgt \in V1
           /\ e.src \in V1 => e.tgt \in V2
           /\ e.src \in V2 => e.tgt \in V3
  BY SilentlyGrows
<1>2. EvaluatedFrom(v, p, m) = {e \in Ruled : e.src \in V3 /\ e.type = "evaluation"}
  BY DEF EvaluatedFrom
<1> HIDE DEF V1, V2, V3
<1> SUFFICES ASSUME ~\E e \in EvaluatedFrom(v, p, m) :
                        Describes(st[e.tgt], next[1], next[2])
             PROVE  FALSE
  OBVIOUS
<1>3. ASSUME NEW u \in V3, u \in copied, Describes(st[u], p, m)
      PROVE  \E e \in Ruled : /\ e.src = u /\ e.type # "evaluation"
                              /\ Describes(st[e.tgt], p, m) /\ e.tgt \in copied
  <2>1. PICK e \in Ruled :
          /\ e.src = u
          /\ \/ e.type # "evaluation" /\ Describes(st[e.tgt], p, m)
             \/ /\ e.type = "evaluation"
                /\ \A n \in Step[<<p, m>>] : Describes(st[e.tgt], n[1], n[2])
    BY <1>3, EdgeLeadsOn
  <2>2. e.tgt \in copied
    BY DEF FollowInv, ManagerInv, Copying, Ruled
  <2> QED BY <1>2, <1>3, <2>1, <2>2
<1>4. PICK a \in Ruled : /\ a.src = v /\ a.type # "evaluation"
                         /\ Describes(st[a.tgt], p, m) /\ a.tgt \in copied
  BY <1>1, <1>3
<1>5. a.tgt \in V1
  BY <1>1, <1>4
<1>6. PICK b \in Ruled : /\ b.src = a.tgt /\ b.type # "evaluation"
                         /\ Describes(st[b.tgt], p, m) /\ b.tgt \in copied
  BY <1>1, <1>3, <1>4, <1>5
<1>7. b.tgt \in V2
  BY <1>1, <1>5, <1>6
<1>8. PICK c \in Ruled : /\ c.src = b.tgt /\ c.type # "evaluation"
                         /\ Describes(st[c.tgt], p, m) /\ c.tgt \in copied
  BY <1>1, <1>3, <1>6, <1>7
<1>9. c.tgt \in V3
  BY <1>1, <1>7, <1>8
<1>10. PICK d \in Ruled : d.src = c.tgt /\ d.type # "evaluation"
  BY <1>3, <1>8, <1>9
<1>11. SilentStepsEnd /\ Ruled \subseteq edge
  BY SilentInvSuffices DEF FollowInv, ManagerInv, ManagerTypeOK, Ruled
<1>12. /\ a \in edge /\ b \in Silent(a.tgt) /\ c \in Silent(b.tgt)
       /\ d \in Silent(c.tgt)
  BY <1>4, <1>6, <1>8, <1>10, <1>11 DEF Silent, Out
<1> QED BY <1>4, <1>11, <1>12 DEF SilentStepsEnd

(***************************************************************************)
(* Whatever the program, however often states are merged and whatever the  *)
(* solver leaves undecided, each run of main is a walk over the delivered  *)
(* graph along edges that have a rule. Of the rules it says no more than   *)
(* that they are there: what they do to v0, ..., vn is not in it, and      *)
(* SEGRules.EndlessRunsRewritten fails.                                    *)
(***************************************************************************)
THEOREM RunsAreWalked == ManagerSpec => []RunsWalked
<1>1. FollowInv => RunsWalked
  <2> SUFFICES ASSUME FollowInv, phase = "done", Trusted
               PROVE  /\ Entry \in copied
                      /\ \A m \in Memory : Describes(st[Entry], EntryPC, m)
                      /\ WalkGoesOn
    BY DEF RunsWalked, Trusted
  <2>1. Entry \in copied
    BY DEF FollowInv, ManagerInv, Copying
  <2>2. EntryState \in State
    BY ProgramAssumption DEF EntryState, State
  <2>3. \A m \in Memory : Describes(st[Entry], EntryPC, m)
    <3>1. /\ EntryState.pc = EntryPC
          /\ EntryState.kb = {} /\ EntryState.al = {} /\ EntryState.pt = {}
      BY DEF EntryState
    <3>2. st[Entry] = EntryState /\ EntryState # NULL
      BY <2>2, NullAssumption DEF FollowInv, EntryKept
    <3> QED BY <3>1, <3>2 DEF Describes, Meets
  <2>4. WalkGoesOn
    BY WalkFollowsStep DEF WalkGoesOn
  <2> QED BY <2>1, <2>3, <2>4
<1> QED BY <1>1, FollowInvariant, PTL

-----------------------------------------------------------------------------
\* A run of main that never ends: a program counter and a memory after another.
Positive == Nat \ {0}

EndlessRun(run) ==
  /\ run \in [Positive -> PC \X Memory]
  /\ run[1][1] = EntryPC
  /\ \A n \in Positive : run[n + 1] \in Step[run[n]]

(***************************************************************************)
(* Vertices that follow a run, one for each instruction: they stand for    *)
(* what the run reaches, and edges that have a rule lead from each to the  *)
(* next, only the last of them running an instruction.                     *)
(***************************************************************************)
Follows(walk, run) ==
  /\ walk \in [Positive -> copied] /\ walk[1] = Entry
  /\ \A n \in Positive :
       /\ Describes(st[walk[n]], run[n][1], run[n][2])
       /\ \E e \in EvaluatedFrom(walk[n], run[n][1], run[n][2]) :
            e.tgt = walk[n + 1]

\* A walk that can always go on can go on for ever.
LEMMA FollowForEver ==
  ASSUME FollowInv, RunsWalked, phase = "done", Trusted,
         NEW run, EndlessRun(run)
  PROVE  \E walk : Follows(walk, run)
<1>1. /\ Entry \in copied /\ WalkGoesOn
      /\ \A m \in Memory : Describes(st[Entry], EntryPC, m)
  BY DEF RunsWalked, Trusted
<1>2. \A e \in Ruled : e.tgt \in copied
  BY DEF FollowInv, ManagerInv, Copying, Ruled
<1> DEFINE Stands(u, n) == Describes(st[u], run[n][1], run[n][2])
           Leads(u, n, w) ==
             \E e \in EvaluatedFrom(u, run[n][1], run[n][2]) : e.tgt = w
           Good(u, n, w) ==
             n \in Positive /\ Stands(u, n) => Stands(w, n + 1) /\ Leads(u, n, w)
<1>3. \A n \in Positive :
        /\ run[n] \in PC \X Memory /\ run[n + 1] \in Step[run[n]]
        /\ run[n] = <<run[n][1], run[n][2]>>
        /\ run[n][1] \in PC /\ run[n][2] \in Memory
  BY DEF EndlessRun
<1>4. \A u \in copied, n \in Int : \E w \in copied : Good(u, n, w)
  <2> SUFFICES ASSUME NEW u \in copied, NEW n \in Int
               PROVE  \E w \in copied : Good(u, n, w)
    OBVIOUS
  <2>1. CASE n \in Positive /\ Stands(u, n)
    <3>1. PICK e \in EvaluatedFrom(u, run[n][1], run[n][2]) : Stands(e.tgt, n + 1)
      BY <1>1, <1>3, <2>1 DEF WalkGoesOn
    <3>2. e.tgt \in copied
      BY <1>2 DEF EvaluatedFrom
    <3>3. Leads(u, n, e.tgt)
      OBVIOUS
    <3> QED BY <3>1, <3>2, <3>3
  <2>2. CASE ~(n \in Positive /\ Stands(u, n))
    BY <1>1, <2>2
  <2> QED BY <2>1, <2>2
<1> DEFINE F == [x \in Nat \X copied |->
                   CHOOSE w \in copied : Good(x[2], x[1] - 1, w)]
<1> HIDE DEF Good
<1>5. \A n \in Nat, u \in copied :
        F[<<n, u>>] \in copied /\ Good(u, n - 1, F[<<n, u>>])
  <2> SUFFICES ASSUME NEW n \in Nat, NEW u \in copied
               PROVE  F[<<n, u>>] \in copied /\ Good(u, n - 1, F[<<n, u>>])
    OBVIOUS
  <2>1. F[<<n, u>>] = CHOOSE w \in copied : Good(u, n - 1, w)
    OBVIOUS
  <2> QED BY <1>4, <2>1
<1>6. F \in [Nat \X copied -> copied]
  <2>1. ASSUME NEW x \in Nat \X copied
        PROVE  (CHOOSE w \in copied : Good(x[2], x[1] - 1, w)) \in copied
    <3>1. x[2] \in copied /\ x[1] - 1 \in Int
      OBVIOUS
    <3> QED BY <1>4, <3>1
  <2> QED BY <2>1
<1> HIDE DEF F
<1>7. PICK walk \in [Positive -> copied] :
        walk[1] = Entry /\ \A k \in Positive : walk[k + 1] = F[<<k + 1, walk[k]>>]
  BY <1>1, <1>6, EndlessRecursion DEF Positive
<1>8. \A k \in Positive : Good(walk[k], k, walk[k + 1])
  <2> SUFFICES ASSUME NEW k \in Positive PROVE Good(walk[k], k, walk[k + 1])
    OBVIOUS
  <2>1. k \in Nat /\ k + 1 \in Nat /\ (k + 1) - 1 = k
    BY DEF Positive
  <2> QED BY <1>5, <1>7, <2>1
<1>9. ASSUME NEW n \in Positive PROVE Stands(walk[n], n)
  <2> DEFINE P == {k \in 1 .. n : Stands(walk[k], k)}
  <2>1. 1 \in Nat /\ n \in Nat /\ n \in 1 .. n /\ 1 \in 1 .. n /\ 1 \in Positive
    BY DEF Positive
  <2>2. 1 \in P
    <3>1. Stands(walk[1], 1)
      BY <1>1, <1>3, <1>7, <2>1 DEF EndlessRun
    <3> QED BY <2>1, <3>1
  <2>3. ASSUME NEW k \in 1 .. n - 1, k \in P PROVE k + 1 \in P
    <3>1. k \in Positive /\ k + 1 \in 1 .. n
      BY <2>1 DEF Positive
    <3>2. Stands(walk[k + 1], k + 1)
      BY <1>8, <2>3, <3>1 DEF Good
    <3> QED BY <3>1, <3>2
  <2> HIDE DEF P
  <2>4. \A k \in 1 .. n : k \in P
    BY <2>1, <2>2, <2>3, IntervalInduction
  <2> QED BY <2>1, <2>4 DEF P
<1>10. \A n \in Positive : Leads(walk[n], n, walk[n + 1])
  BY <1>8, <1>9 DEF Good
<1> QED BY <1>7, <1>9, <1>10 DEF Follows

(***************************************************************************)
(* For every program: when main can run for ever, an endless walk over the *)
(* graph follows it. No program that runs for ever has a delivered graph   *)
(* without a cycle of edges that have a rule. That KITTeL can rewrite for  *)
(* ever along that walk does not follow.                                   *)
(***************************************************************************)
THEOREM EndlessRunsAreWalked ==
  ManagerSpec =>
    [](phase = "done" /\ Trusted =>
         \A run : EndlessRun(run) => \E walk : Follows(walk, run))
<1>1. FollowInv /\ RunsWalked =>
        (phase = "done" /\ Trusted =>
           \A run : EndlessRun(run) => \E walk : Follows(walk, run))
  BY FollowForEver
<1> QED BY <1>1, FollowInvariant, RunsAreWalked, PTL
=============================================================================
