----------------------- MODULE SEGConstruction_proofs -----------------------
(***************************************************************************)
(* Invariants of the construction of the symbolic execution graph, for     *)
(* every program, every solver that satisfies SolverAssumption and every   *)
(* bound on the number of vertices.                                        *)
(***************************************************************************)
EXTENDS SEGConstruction, SEGState_proofs, SequenceTheorems

-----------------------------------------------------------------------------
(***************************************************************************)
(* The path, a sequence of vertices, is only popped and pushed.            *)
(***************************************************************************)
LEMMA PopPath ==
  ASSUME NEW S, NEW p \in Seq(S), p # <<>>
  PROVE  /\ Pop(p) \in Seq(S)
         /\ Len(Pop(p)) = Len(p) - 1
         /\ \A j \in 1 .. Len(p) - 1 : Pop(p)[j] = p[j]
<1>1. Len(p) \in Nat \ {0}
  BY EmptySeq
<1>2. \A j \in 1 .. Len(p) - 1 : p[j] \in S
  BY <1>1, ElementOfSeq
<1> DEFINE n == Len(p) - 1
           q == SubSeq(p, 1, n)
<1>3. /\ q \in Seq(S)
      /\ Len(q) = IF 1 <= n THEN n - 1 + 1 ELSE 0
      /\ \A j \in 1 .. n - 1 + 1 : q[j] = p[1 + j - 1]
  BY <1>1, <1>2, SubSeqProperties
<1>4. n \in Nat
  BY <1>1
<1> HIDE DEF n, q
<1>5. Len(q) = n
  BY <1>3, <1>4
<1>6. \A j \in 1 .. n : q[j] = p[j]
  BY <1>3, <1>4
<1> QED BY <1>3, <1>5, <1>6 DEF Pop, n, q

\* A merge cuts the path and pushes the merged vertex.
LEMMA CutAndPush ==
  ASSUME NEW S, NEW p \in Seq(S), NEW k \in Nat, k <= Len(p), NEW v \in S
  PROVE  LET q == Append(SubSeq(p, 1, k), v) IN
         /\ q \in Seq(S)
         /\ Len(q) = k + 1
         /\ \A j \in 1 .. k : q[j] = p[j]
         /\ q[k + 1] = v
<1>1. \A j \in 1 .. k : p[j] \in S
  BY ElementOfSeq
<1>2. /\ SubSeq(p, 1, k) \in Seq(S)
      /\ Len(SubSeq(p, 1, k)) = k
      /\ \A j \in 1 .. k : SubSeq(p, 1, k)[j] = p[j]
  BY <1>1, SubSeqProperties
<1> QED BY <1>2, AppendProperties

\* The vertex expandSEG works on, and those below it, are vertices.
LEMMA PathVertices ==
  ASSUME TypeOK, path # <<>>
  PROVE  /\ Len(st) \in Nat
         /\ Len(path) \in Nat \ {0}
         /\ Top \in Vertex
         /\ \A i \in 1 .. Len(path) : path[i] \in Vertex
         /\ \A v \in Vertex : st[v] \in State \cup {NULL}
<1>1. path \in Seq(Vertex) /\ st \in Seq(State \cup {NULL})
  BY DEF TypeOK
<1>2. Len(path) \in Nat \ {0}
  BY <1>1, EmptySeq
<1> QED BY <1>1, <1>2, ElementOfSeq DEF Top, Vertex

\* A vertex stays one when st grows.
LEMMA PathStaysTyped ==
  ASSUME TypeOK, Len(st') \in Nat, Len(st) <= Len(st'),
         NEW S, S = Vertex'
  PROVE  path \in Seq(S) /\ Vertex \subseteq S
<1>1. Len(st) \in Nat
  BY DEF TypeOK
<1>2. Vertex \subseteq S
  BY <1>1 DEF Vertex
<1> QED BY <1>2, SeqMonotonic DEF TypeOK
-----------------------------------------------------------------------------
(***************************************************************************)
(* MergeStates cuts the path below position k, genTarget's or the one      *)
(* before it, and hangs the merged vertex below what is left.              *)
(***************************************************************************)
MergeAt(i, k) ==
  /\ ~IsGeneralizationOf(st[path[i]], st[Top])
  /\ st' = Append(st, Merge(st[path[i]], st[Top]))
  /\ 1 <= k /\ k <= i /\ k < Len(path)
  /\ path' = Append(SubSeq(path, 1, k), Len(st) + 1)
  /\ \/ /\ k = i
        /\ i = 1 \/ Edge(path[i - 1], path[i], "generalization") \notin edge
        /\ edge' = (edge \ Out(path[i]))
                     \cup {Edge(path[k], Len(st) + 1, "generalization")}
     \/ /\ k = i - 1 /\ Edge(path[k], path[i], "generalization") \in edge
        /\ edge' = (edge \ (Out(path[i])
                              \cup {Edge(path[k], path[i], "generalization")}))
                     \cup {Edge(path[k], Len(st) + 1, "generalization")}

\* What a merge appends, removes and keeps, in either case.
LEMMA MergeShape ==
  ASSUME TypeOK, MergeStates
  PROVE  \E i \in GenTarget(Top), k \in Nat : MergeAt(i, k)
<1>1. PICK i \in GenTarget(Top) :
        LET link == Edge(path[i - 1], path[i], "generalization") IN
        /\ ~IsGeneralizationOf(st[path[i]], st[Top])
        /\ st' = Append(st, Merge(st[path[i]], st[Top]))
        /\ \/ /\ i > 1 /\ link \in edge
              /\ edge' = (edge \ (Out(path[i]) \cup {link}))
                           \cup {Edge(path[i - 1], Len(st) + 1, "generalization")}
              /\ path' = Append(SubSeq(path, 1, i - 1), Len(st) + 1)
           \/ /\ i = 1 \/ link \notin edge
              /\ edge' = (edge \ Out(path[i]))
                           \cup {Edge(path[i], Len(st) + 1, "generalization")}
              /\ path' = Append(SubSeq(path, 1, i), Len(st) + 1)
  BY DEF MergeStates
<1>2. i \in 1 .. Len(path) - 1 /\ Len(path) \in Nat
  BY DEF GenTarget, Candidates, TypeOK
<1>3. CASE /\ i > 1 /\ Edge(path[i - 1], path[i], "generalization") \in edge
           /\ edge' = (edge \ (Out(path[i])
                                 \cup {Edge(path[i - 1], path[i], "generalization")}))
                        \cup {Edge(path[i - 1], Len(st) + 1, "generalization")}
           /\ path' = Append(SubSeq(path, 1, i - 1), Len(st) + 1)
  <2>1. i - 1 \in Nat /\ 1 <= i - 1 /\ i - 1 <= i /\ i - 1 < Len(path)
    BY <1>2, <1>3
  <2>2. MergeAt(i, i - 1)
    BY <1>1, <1>3, <2>1 DEF MergeAt
  <2> QED BY <2>1, <2>2
<1>4. CASE /\ i = 1 \/ Edge(path[i - 1], path[i], "generalization") \notin edge
           /\ edge' = (edge \ Out(path[i]))
                        \cup {Edge(path[i], Len(st) + 1, "generalization")}
           /\ path' = Append(SubSeq(path, 1, i), Len(st) + 1)
  <2>1. i \in Nat /\ 1 <= i /\ i <= i /\ i < Len(path)
    BY <1>2
  <2>2. MergeAt(i, i)
    BY <1>1, <1>4, <2>1 DEF MergeAt
  <2> QED BY <2>1, <2>2
<1> QED BY <1>1, <1>3, <1>4
-----------------------------------------------------------------------------
\* An initial state is well typed.
LEMMA InitType == Init => TypeOK
<1> SUFFICES ASSUME Init PROVE TypeOK
  OBVIOUS
<1>1. EntryState \in State
  BY ProgramAssumption DEF EntryState, State
<1>2. st \in Seq(State \cup {NULL}) /\ Len(st) = 1
  BY <1>1 DEF Init
<1>3. Vertex = 1 .. 1 /\ Entry \in Vertex
  BY <1>2 DEF Vertex, Entry
<1>4. path \in Seq(Vertex)
  BY <1>3 DEF Init
<1> QED BY <1>2, <1>4 DEF Init, TypeOK

(***************************************************************************)
(* procEvaluation hangs one or two new vertices below the top.             *)
(***************************************************************************)
ExpandTo(ss, type) ==
  /\ ss \in Seq(State \cup {NULL})
  /\ \/ /\ Len(ss) = 1 /\ type = "evaluation"
        /\ edge' = edge \cup {Edge(Top, Len(st) + 1, type)}
     \/ /\ Len(ss) = 2 /\ type = "refinement"
        /\ edge' = edge \cup {Edge(Top, Len(st) + 1, type),
                              Edge(Top, Len(st) + 2, type)}
  /\ st' = st \o ss
  /\ visited' = visited \cup {Top}
  /\ path' = Append(path, Len(st) + 1)
  /\ UNCHANGED status

\* What an expansion appends: one or two younger vertices.
LEMMA EvaluateShape ==
  ASSUME TypeOK, EvaluateOne \/ EvaluateRet \/ EvaluateTwo
  PROVE  /\ Running /\ st[Top] \in State /\ Top \in Vertex \ visited
         /\ \E ss, type : ExpandTo(ss, type)
<1>1. Running /\ st[Top] \in State /\ Top \in Vertex \ visited
  BY PathVertices
  DEF EvaluateOne, EvaluateRet, EvaluateTwo, Expands, AtState, AtFresh, Running
<1>2. st \in Seq(State \cup {NULL})
  BY DEF TypeOK
<1>3. ASSUME NEW s \in State \cup {NULL}, st' = Append(st, s),
             edge' = edge \cup {Edge(Top, Len(st) + 1, "evaluation")},
             path' = Append(path, Len(st) + 1), Expands
      PROVE  ExpandTo(<<s>>, "evaluation")
  <2> DEFINE ss == <<s>>
  <2>1. ss \in Seq(State \cup {NULL}) /\ Len(ss) = 1
    OBVIOUS
  <2>2. st' = st \o ss
    BY <1>2, <1>3, AppendIsConcat
  <2> HIDE DEF ss
  <2>3. ExpandTo(ss, "evaluation")
    BY <1>3, <2>1, <2>2 DEF ExpandTo, Expands
  <2> QED BY <2>3 DEF ss
<1>4. CASE EvaluateOne
  <2>1. PICK s \in Evaluate(st[Top]) : st' = Append(st, s)
    BY <1>4 DEF EvaluateOne
  <2>2. s \in State
    BY <1>1, <2>1, EvaluateType
  <2> QED BY <1>1, <1>3, <1>4, <2>1, <2>2 DEF EvaluateOne
<1>5. CASE EvaluateRet
  BY <1>1, <1>3, <1>5 DEF EvaluateRet
<1>6. CASE EvaluateTwo
  <2> DEFINE ss == <<RefineTrue(st[Top]), RefineFalse(st[Top])>>
  <2>1. RefineTrue(st[Top]) \in State /\ RefineFalse(st[Top]) \in State
    BY <1>1, RefineType
  <2>2. ss \in Seq(State \cup {NULL}) /\ Len(ss) = 2
    BY <2>1
  <2>3. st' = st \o ss /\ UNCHANGED status /\ visited' = visited \cup {Top}
    BY <1>6 DEF EvaluateTwo, Expands
  <2>4. /\ edge' = edge \cup {Edge(Top, Len(st) + 1, "refinement"),
                              Edge(Top, Len(st) + 2, "refinement")}
        /\ path' = Append(path, Len(st) + 1)
    BY <1>6 DEF EvaluateTwo
  <2> HIDE DEF ss
  <2>5. ExpandTo(ss, "refinement")
    BY <2>2, <2>3, <2>4 DEF ExpandTo
  <2> QED BY <1>1, <2>5
<1> QED BY <1>4, <1>5, <1>6

\* An expansion appends one state, or both halves of a refinement.
LEMMA ExpandKeepsStates ==
  ASSUME TypeOK, EvaluateOne \/ EvaluateRet \/ EvaluateTwo
  PROVE  /\ \A v \in 1 .. Len(st) : st'[v] = st[v]
         /\ EvaluateTwo =>
              /\ st'[Len(st) + 1] = RefineTrue(st[Top])
              /\ st'[Len(st) + 2] = RefineFalse(st[Top])
<1>1. st \in Seq(State \cup {NULL}) /\ Len(st) \in Nat /\ st[Top] \in State
  BY EvaluateShape DEF TypeOK
<1>2. ASSUME NEW s \in State \cup {NULL}, st' = Append(st, s)
      PROVE  \A v \in 1 .. Len(st) : st'[v] = st[v]
  BY <1>1, <1>2, AppendProperties
<1>3. CASE EvaluateTwo
  <2> DEFINE ss == <<RefineTrue(st[Top]), RefineFalse(st[Top])>>
  <2>1. /\ ss \in Seq(State \cup {NULL}) /\ Len(ss) = 2
        /\ ss[1] = RefineTrue(st[Top]) /\ ss[2] = RefineFalse(st[Top])
    BY <1>1, RefineType
  <2>2. st' = st \o ss
    BY <1>3 DEF EvaluateTwo
  <2> HIDE DEF ss
  <2>3. \A i \in 1 .. Len(st) + 2 :
          st'[i] = IF i <= Len(st) THEN st[i] ELSE ss[i - Len(st)]
    BY <1>1, <2>1, <2>2, ConcatProperties
  <2> QED BY <1>1, <2>1, <2>3
<1>4. CASE ~EvaluateTwo
  BY <1>1, <1>2, <1>4, EvaluateType DEF EvaluateOne, EvaluateRet
<1> QED BY <1>3, <1>4

-----------------------------------------------------------------------------
(***************************************************************************)
(* The inductive invariant: GeneralizationSound needs the types of the     *)
(* states it compares, hence that the path holds no end but at its top     *)
(* (PathIsChain), hence the shape of the graph (Structure).                *)
(***************************************************************************)
ConstructionInv ==
  TypeOK /\ PathIsChain /\ Structure /\ GeneralizationSound

\* expandSEG begins with the entry alone on the path.
LEMMA InitInv == Init => ConstructionInv
<1> SUFFICES ASSUME Init PROVE ConstructionInv
  OBVIOUS
<1>1. TypeOK
  BY InitType
<1>2. Len(path) = 1 /\ path[1] = Entry /\ edge = {}
  BY DEF Init
<1>3. PathIsChain
  BY <1>2 DEF PathIsChain
<1>4. PathAscends /\ InnerVisited
  BY <1>2 DEF PathAscends, InnerVisited
<1>5. SourcesExpanded /\ EdgesAhead /\ OneOlderParent /\ PendingChildren /\ NoEdgeOver
  BY <1>2
  DEF SourcesExpanded, EdgesAhead, OneOlderParent, PendingChildren, NoEdgeOver, Out
<1>6. GeneralizationSound
  BY <1>2 DEF GeneralizationSound
<1> QED BY <1>1, <1>3, <1>4, <1>5, <1>6 DEF ConstructionInv, Structure

\* An edge has three fields.
LEMMA EdgeFields ==
  ASSUME NEW u, NEW v, NEW t
  PROVE  Edge(u, v, t).src = u /\ Edge(u, v, t).tgt = v /\ Edge(u, v, t).type = t
BY DEF Edge

(***************************************************************************)
(* What the steps that pop the path preserve. Generalize adds an edge to a *)
(* vertex further up, the others add none.                                 *)
(***************************************************************************)
LEMMA PopInv ==
  ASSUME ConstructionInv, LeaveEnd \/ Generalize \/ Backtrack
  PROVE  ConstructionInv'
<1> USE EdgeFields
<1>1. TypeOK /\ path # <<>>
  BY DEF ConstructionInv, LeaveEnd, Generalize, Backtrack, AtState, AtFresh, Running
<1>2. /\ Len(path) \in Nat \ {0} /\ Top \in Vertex /\ Len(st) \in Nat
      /\ \A i \in 1 .. Len(path) : path[i] \in Vertex
      /\ Top = path[Len(path)]
  BY <1>1, PathVertices DEF Top
<1>3. st' = st /\ status' = status /\ path' = Pop(path)
  BY DEF LeaveEnd, Generalize, Backtrack
<1>4. /\ Len(path') = Len(path) - 1
      /\ path' \in Seq(Vertex)
      /\ \A i \in 1 .. Len(path) - 1 : path'[i] = path[i]
  BY <1>1, <1>3, PopPath DEF TypeOK
<1>5. visited \subseteq visited' /\ visited' \subseteq visited \cup {Top} /\ Top \in visited'
  BY DEF LeaveEnd, Generalize, Backtrack
<1>6. \/ edge' = edge
      \/ /\ st[Top] # NULL
         /\ \E i \in 1 .. Len(path) - 1 :
              /\ st[path[i]].pc = st[Top].pc
              /\ IsGeneralizationOf(st[path[i]], st[Top])
              /\ edge' = edge \cup {Edge(Top, path[i], "generalization")}
  BY DEF LeaveEnd, Generalize, Backtrack, GenTarget, Candidates, AtState
<1>7. \A e \in edge' \ edge :
        \E i \in 1 .. Len(path) - 1 :
          /\ e = Edge(Top, path[i], "generalization")
          /\ st[Top] # NULL /\ st[path[i]].pc = st[Top].pc
          /\ IsGeneralizationOf(st[path[i]], st[Top])
  BY <1>6
<1>8. edge \subseteq edge'
  BY <1>6
<1>9. \A i \in 1 .. Len(path) - 1 :
        /\ path[i] \in visited /\ st[path[i]] # NULL /\ path[i] < Top
  BY <1>2
  DEF ConstructionInv, Structure, PathIsChain, InnerVisited, PathAscends
<1>10. TypeOK'
  <2>1. \A e \in edge' \ edge :
          e \in [src : Vertex, tgt : Vertex, type : EdgeType]
    BY <1>2, <1>7 DEF Edge, EdgeType
  <2> QED BY <1>1, <1>2, <1>3, <1>4, <1>5, <2>1 DEF TypeOK, Vertex
<1>11. PathIsChain'
  BY <1>2, <1>3, <1>4, <1>8 DEF ConstructionInv, PathIsChain, Entry
<1>12. PathAscends' /\ InnerVisited'
  BY <1>2, <1>4, <1>5
  DEF ConstructionInv, Structure, PathAscends, InnerVisited
<1>13. SourcesExpanded'
  BY <1>3, <1>5, <1>7 DEF ConstructionInv, Structure, SourcesExpanded
<1>14. EdgesAhead'
  BY <1>5, <1>7, <1>9 DEF ConstructionInv, Structure, EdgesAhead
<1>15. OneOlderParent'
  <2>1. \A e \in edge' \ edge : ~(e.src < e.tgt)
    BY <1>2, <1>7, <1>9 DEF Vertex
  <2> QED BY <2>1 DEF ConstructionInv, Structure, OneOlderParent
<1>16. PendingChildren'
  <2> SUFFICES ASSUME NEW i \in 1 .. Len(path'), NEW e \in edge',
                      e.src = path'[i], e.tgt \notin visited'
               PROVE  e.type = "refinement"
    BY DEF PendingChildren, Out
  <2>1. i \in 1 .. Len(path) /\ e.src = path[i]
    BY <1>2, <1>4
  <2>2. e \in edge
    BY <1>5, <1>7, <1>9
  <2> QED BY <1>5, <2>1, <2>2
      DEF ConstructionInv, Structure, PendingChildren, Out
<1>17. NoEdgeOver'
  <2> SUFFICES ASSUME NEW i \in 1 .. Len(path')
               PROVE  \/ \E e \in edge' : e.tgt = path'[i] /\ e.type = "refinement"
                      \/ \A e \in edge' : e.src < path'[i] => e.tgt <= path'[i]
    BY DEF NoEdgeOver, HasInRefEdge, In
  <2>1. i \in 1 .. Len(path) - 1 /\ path'[i] = path[i]
    BY <1>2, <1>4
  <2>2. HasInRefEdge(path[i]) =>
          \E e \in edge' : e.tgt = path'[i] /\ e.type = "refinement"
    BY <1>8, <2>1 DEF HasInRefEdge, In
  <2>3. \A e \in edge' \ edge : ~(e.src < path[i])
    BY <1>2, <1>7, <1>9, <2>1 DEF Vertex
  <2> QED BY <2>1, <2>2, <2>3 DEF ConstructionInv, Structure, NoEdgeOver
<1>18. GeneralizationSound'
  <2>1. \A e \in edge' \ edge :
          /\ st[e.src] # NULL /\ st[e.tgt] # NULL
          /\ st[e.src].pc = st[e.tgt].pc
          /\ IsGeneralizationOf(st[e.tgt], st[e.src])
    BY <1>7, <1>9
  <2> QED BY <1>3, <2>1 DEF ConstructionInv, GeneralizationSound
<1> QED
  BY <1>10, <1>11, <1>12, <1>13, <1>14, <1>15, <1>16, <1>17, <1>18
  DEF ConstructionInv, Structure

\* What firstUnvisitedChild finds is younger than the top and was made by the
\* refinement of the top.
LEMMA DescendInv ==
  ASSUME ConstructionInv, Descend
  PROVE  ConstructionInv'
<1>1. TypeOK /\ path # <<>> /\ Top \in visited
  BY DEF ConstructionInv, Descend, Running
<1>2. /\ Len(path) \in Nat \ {0} /\ Top \in Vertex /\ Len(st) \in Nat
      /\ \A i \in 1 .. Len(path) : path[i] \in Vertex
      /\ Top = path[Len(path)]
  BY <1>1, PathVertices DEF Top
<1>3. PICK u \in UnvisitedChildren(Top) : path' = Append(path, u)
  BY DEF Descend
<1>4. PICK d \in edge : d.src = Top /\ d.tgt = u /\ u \notin visited
  BY <1>3 DEF UnvisitedChildren, Out
<1>5. UNCHANGED <<st, visited, edge, status>>
  BY DEF Descend
<1>6. u \in Vertex /\ Top < u
  BY <1>1, <1>4 DEF ConstructionInv, Structure, EdgesAhead, TypeOK
<1>7. /\ path' \in Seq(Vertex) /\ Len(path') = Len(path) + 1
      /\ \A i \in 1 .. Len(path) : path'[i] = path[i]
      /\ path'[Len(path) + 1] = u
  BY <1>1, <1>3, <1>6, AppendProperties DEF TypeOK
<1>8. Top' = u
  BY <1>7 DEF Top
<1>9. \A i \in 1 .. Len(path) : path[i] \in visited /\ path[i] < u
  BY <1>1, <1>2, <1>6
  DEF ConstructionInv, Structure, InnerVisited, PathAscends, Vertex
<1>10. TypeOK'
  BY <1>1, <1>5, <1>7 DEF TypeOK, Vertex
<1>11. PathIsChain'
  <2>1. st[Top] # NULL
    BY <1>4 DEF ConstructionInv, Structure, SourcesExpanded
  <2>2. \A i \in 1 .. Len(path) :
          st[path[i]] # NULL /\ \E e \in edge : e.src = path'[i] /\ e.tgt = path'[i + 1]
    BY <1>2, <1>4, <1>7, <2>1 DEF ConstructionInv, PathIsChain
  <2> QED BY <1>2, <1>5, <1>7, <2>2 DEF ConstructionInv, PathIsChain, Entry
<1>12. PathAscends' /\ InnerVisited'
  BY <1>2, <1>5, <1>7, <1>9 DEF ConstructionInv, Structure, PathAscends, InnerVisited
<1>13. SourcesExpanded' /\ EdgesAhead' /\ OneOlderParent' /\ GeneralizationSound'
  BY <1>5 DEF ConstructionInv, Structure, SourcesExpanded, EdgesAhead,
              OneOlderParent, GeneralizationSound
<1>14. PendingChildren'
  <2> SUFFICES ASSUME NEW i \in 1 .. Len(path'), NEW e \in edge,
                      e.src = path'[i], e.tgt \notin visited
               PROVE  e.type = "refinement"
    BY <1>5 DEF PendingChildren, Out
  <2>1. e.src # u
    BY <1>4 DEF ConstructionInv, Structure, SourcesExpanded
  <2>2. i \in 1 .. Len(path) /\ e.src = path[i]
    BY <1>2, <1>7, <2>1
  <2> QED BY <1>1, <2>2 DEF ConstructionInv, Structure, PendingChildren, Out
<1>15. NoEdgeOver'
  <2>1. d.type = "refinement"
    BY <1>1, <1>2, <1>4 DEF ConstructionInv, Structure, PendingChildren, Out
  <2>2. HasInRefEdge(u)
    BY <1>4, <2>1 DEF HasInRefEdge, In
  <2> QED BY <1>2, <1>5, <1>7, <2>2
      DEF ConstructionInv, Structure, NoEdgeOver, HasInRefEdge, In
<1> QED
  BY <1>10, <1>11, <1>12, <1>13, <1>14, <1>15 DEF ConstructionInv, Structure

\* procEvaluation keeps the invariant: its edges lead to new vertices.
LEMMA ExpandInv ==
  ASSUME ConstructionInv, EvaluateOne \/ EvaluateRet \/ EvaluateTwo
  PROVE  ConstructionInv'
<1> USE EdgeFields
<1>1. TypeOK
  BY DEF ConstructionInv
<1>2. /\ path # <<>> /\ st[Top] # NULL /\ Top \notin visited
      /\ \E ss, type : ExpandTo(ss, type)
  BY <1>1, EvaluateShape, NullAssumption DEF Running
<1>3. PICK ss, type : ExpandTo(ss, type)
  BY <1>2
<1>4. /\ Len(path) \in Nat \ {0} /\ Top \in Vertex /\ Len(st) \in Nat
      /\ \A i \in 1 .. Len(path) : path[i] \in Vertex
      /\ Top = path[Len(path)]
  BY <1>1, <1>2, PathVertices DEF Top
<1> DEFINE N == Len(st)
           n == Len(ss)
<1>5. (n = 1 /\ type = "evaluation") \/ (n = 2 /\ type = "refinement")
  BY <1>3 DEF ExpandTo
<1>6. /\ st' \in Seq(State \cup {NULL}) /\ Len(st') = N + n
      /\ \A v \in Vertex : st'[v] = st[v]
  <2>1. st \in Seq(State \cup {NULL}) /\ ss \in Seq(State \cup {NULL}) /\ st' = st \o ss
    BY <1>1, <1>3 DEF TypeOK, ExpandTo
  <2>2. /\ st \o ss \in Seq(State \cup {NULL}) /\ Len(st \o ss) = N + n
        /\ \A i \in 1 .. N + n : (st \o ss)[i] = IF i <= N THEN st[i] ELSE ss[i - N]
    BY <2>1, ConcatProperties
  <2> QED BY <1>4, <1>5, <2>1, <2>2 DEF Vertex
<1>7. /\ edge \subseteq edge'
      /\ \A e \in edge' \ edge :
           \E j \in 1 .. n : e = Edge(Top, N + j, type)
      /\ \A j \in 1 .. n : Edge(Top, N + j, type) \in edge'
  <2>1. CASE n = 1
    <3>1. edge' = edge \cup {Edge(Top, N + 1, type)}
      BY <1>3, <2>1 DEF ExpandTo
    <3>2. 1 .. n = {1}
      BY <2>1
    <3> HIDE DEF n, N
    <3> QED BY <3>1, <3>2
  <2>2. CASE n = 2
    <3>1. edge' = edge \cup {Edge(Top, N + 1, type), Edge(Top, N + 2, type)}
      BY <1>3, <2>2 DEF ExpandTo
    <3>2. 1 .. n = {1, 2}
      BY <2>2
    <3> HIDE DEF n, N
    <3> QED BY <3>1, <3>2
  <2> QED BY <1>5, <2>1, <2>2
<1>8. /\ path \in Seq(Vertex') /\ Vertex \subseteq Vertex'
      /\ \A j \in 1 .. n : N + j \in Vertex'
  <2>1. Len(st') \in Nat /\ N <= Len(st')
    BY <1>4, <1>5, <1>6
  <2> QED BY <1>1, <1>4, <1>5, <1>6, <2>1, PathStaysTyped DEF Vertex
<1>9. /\ path' \in Seq(Vertex') /\ Len(path') = Len(path) + 1
      /\ \A i \in 1 .. Len(path) : path'[i] = path[i]
      /\ path'[Len(path) + 1] = N + 1
  <2>1. path' = Append(path, N + 1)
    BY <1>3 DEF ExpandTo
  <2>2. N + 1 \in Vertex'
    <3> HIDE DEF n, N
    <3> QED BY <1>5, <1>8
  <2> QED BY <1>8, <2>1, <2>2, AppendProperties
<1>10. visited' = visited \cup {Top} /\ status' = status
  BY <1>3 DEF ExpandTo
<1>11. Top' = N + 1
  BY <1>9 DEF Top
<1>12. \A e \in edge : e.src \in Vertex /\ e.tgt \in Vertex
  BY <1>1 DEF TypeOK
<1> HIDE DEF N, n
<1>13. N \in Nat /\ Vertex = 1 .. N
  BY <1>4 DEF N, Vertex
<1>14. TypeOK'
  <2>1. \A e \in edge' \ edge : e \in [src : Vertex', tgt : Vertex', type : EdgeType]
    BY <1>4, <1>5, <1>7, <1>8 DEF Edge, EdgeType
  <2>2. \A e \in edge : e \in [src : Vertex', tgt : Vertex', type : EdgeType]
    BY <1>1, <1>8 DEF TypeOK
  <2>3. visited' \subseteq Vertex'
    BY <1>1, <1>4, <1>8, <1>10 DEF TypeOK
  <2>4. (edge \subseteq [src : Vertex, tgt : Vertex, type : EdgeType])'
    BY <2>1, <2>2
  <2> QED BY <1>1, <1>6, <1>9, <1>10, <2>3, <2>4 DEF TypeOK
<1>15. PathIsChain'
  <2>1. \A i \in 1 .. Len(path) - 1 :
          /\ st[path[i]] # NULL
          /\ \E e \in edge : e.src = path[i] /\ e.tgt = path[i + 1]
    BY DEF ConstructionInv, PathIsChain
  <2>2. path[1] = Entry
    BY <1>2 DEF ConstructionInv, PathIsChain
  <2>3. Edge(Top, N + 1, type) \in edge'
    BY <1>5, <1>7
  <2>4. ASSUME NEW i \in 1 .. Len(path') - 1
        PROVE  /\ st'[path'[i]] # NULL
               /\ \E e \in edge' : e.src = path'[i] /\ e.tgt = path'[i + 1]
    <3>1. CASE i = Len(path)
      BY <1>2, <1>4, <1>6, <1>9, <2>3, <3>1
    <3>2. CASE i \in 1 .. Len(path) - 1
      BY <1>4, <1>6, <1>7, <1>9, <2>1, <3>2
    <3> QED BY <1>4, <1>9, <3>1, <3>2
  <2> QED BY <1>4, <1>9, <2>2, <2>4 DEF PathIsChain, Entry
<1>16. PathAscends' /\ InnerVisited'
  <2>1. \A i \in 1 .. Len(path) : path[i] \in 1 .. N /\ path[i] \in visited'
    BY <1>4, <1>10, <1>13 DEF ConstructionInv, Structure, InnerVisited
  <2>2. PathAscends'
    <3> SUFFICES ASSUME NEW i \in 1 .. Len(path'), NEW j \in 1 .. Len(path'), i < j
                 PROVE  path'[i] < path'[j]
      BY DEF PathAscends
    <3>1. i \in 1 .. Len(path) /\ path'[i] = path[i]
      BY <1>4, <1>9
    <3>2. CASE j \in 1 .. Len(path)
      BY <1>9, <3>1, <3>2 DEF ConstructionInv, Structure, PathAscends
    <3>3. CASE j = Len(path) + 1
      BY <1>9, <1>13, <2>1, <3>1, <3>3
    <3> QED BY <1>4, <1>9, <3>2, <3>3
  <2>3. InnerVisited'
    BY <1>4, <1>9, <2>1 DEF InnerVisited
  <2> QED BY <2>2, <2>3
<1>17. SourcesExpanded'
  BY <1>2, <1>4, <1>6, <1>7, <1>10, <1>12
  DEF ConstructionInv, Structure, SourcesExpanded
<1>18. EdgesAhead'
  BY <1>4, <1>7, <1>10, <1>13 DEF ConstructionInv, Structure, EdgesAhead
<1>19. OneOlderParent'
  <2>1. \A e, f \in edge' \ edge : e.tgt = f.tgt => e = f
    BY <1>7, <1>13
  <2>2. \A e \in edge, f \in edge' \ edge : e.tgt # f.tgt
    BY <1>7, <1>12, <1>13
  <2> QED BY <2>1, <2>2 DEF ConstructionInv, Structure, OneOlderParent
<1>20. PendingChildren'
  <2> SUFFICES ASSUME NEW i \in 1 .. Len(path'), NEW e \in edge', e.src = path'[i],
                      e.tgt \notin visited', e.tgt # N + 1
               PROVE  e.type = "refinement"
    BY <1>11 DEF PendingChildren, Out
  <2>1. CASE e \in edge
    <3>1. i \in 1 .. Len(path) /\ e.src = path[i]
      BY <1>4, <1>9, <1>12, <1>13, <2>1
    <3> QED BY <1>10, <2>1, <3>1
        DEF ConstructionInv, Structure, PendingChildren, Out
  <2>2. CASE e \notin edge
    BY <1>5, <1>7, <2>2
  <2> QED BY <2>1, <2>2
<1>21. NoEdgeOver'
  <2> SUFFICES ASSUME NEW i \in 1 .. Len(path')
               PROVE  \/ \E e \in edge' : e.tgt = path'[i] /\ e.type = "refinement"
                      \/ \A e \in edge' : e.src < path'[i] => e.tgt <= path'[i]
    BY DEF NoEdgeOver, HasInRefEdge, In
  <2>1. CASE i \in 1 .. Len(path)
    <3>1. HasInRefEdge(path[i]) =>
            \E e \in edge' : e.tgt = path'[i] /\ e.type = "refinement"
      BY <1>7, <1>9, <2>1 DEF HasInRefEdge, In
    <3>2. path[i] <= Top
      BY <1>4, <1>13, <2>1 DEF ConstructionInv, Structure, PathAscends
    <3>3. \A e \in edge' \ edge : ~(e.src < path[i])
      BY <1>4, <1>7, <1>13, <2>1, <3>2
    <3> QED BY <1>9, <2>1, <3>1, <3>3 DEF ConstructionInv, Structure, NoEdgeOver
  <2>2. CASE i = Len(path) + 1
    <3>1. CASE type = "refinement"
      BY <1>5, <1>7, <1>9, <2>2, <3>1
    <3>2. CASE n = 1
      BY <1>7, <1>9, <1>12, <1>13, <2>2, <3>2
    <3> QED BY <1>5, <3>1, <3>2
  <2> QED BY <1>4, <1>9, <2>1, <2>2
<1>22. GeneralizationSound'
  <2>1. \A e \in edge' \ edge : e.type # "generalization"
    BY <1>5, <1>7
  <2> QED BY <1>6, <1>12, <2>1 DEF ConstructionInv, GeneralizationSound
<1> QED
  BY <1>14, <1>15, <1>16, <1>17, <1>18, <1>19, <1>20, <1>21, <1>22
  DEF ConstructionInv, Structure

(***************************************************************************)
(* The facts about a merge the invariants need: genTarget is an expanded   *)
(* vertex with the same domain as the top, below or at the cut, and the    *)
(* edges that are removed leave genTarget or enter it from the vertex      *)
(* above the cut.                                                          *)
(***************************************************************************)
LEMMA MergeFacts ==
  ASSUME ConstructionInv, MergeStates,
         NEW i \in GenTarget(Top), NEW k \in Nat, MergeAt(i, k)
  PROVE  /\ path # <<>> /\ Len(path) \in Nat \ {0} /\ Len(st) \in Nat
         /\ i \in 1 .. Len(path) - 1 /\ k \in 1 .. i
         /\ st[path[i]] \in State /\ st[Top] \in State
         /\ st[path[i]].pc = st[Top].pc /\ st[path[i]].dom = st[Top].dom
         /\ Merge(st[path[i]], st[Top]) \in State
         /\ ~HasInRefEdge(path[i])
         /\ st' \in Seq(State \cup {NULL}) /\ Len(st') = Len(st) + 1
         /\ \A v \in Vertex : st'[v] = st[v]
         /\ st'[Len(st) + 1] = Merge(st[path[i]], st[Top])
         /\ Vertex \subseteq Vertex' /\ Len(st) + 1 \in Vertex'
         /\ path' \in Seq(Vertex') /\ Len(path') = k + 1
         /\ \A j \in 1 .. k : path'[j] = path[j]
         /\ path'[k + 1] = Len(st) + 1
         /\ UNCHANGED <<visited, status>>
<1>1. /\ TypeOK /\ path # <<>> /\ Top \in Vertex /\ st[Top] \in State
      /\ Len(path) \in Nat \ {0} /\ Len(st) \in Nat
      /\ \A j \in 1 .. Len(path) : path[j] \in Vertex /\ st[path[j]] \in State \cup {NULL}
  BY PathVertices DEF ConstructionInv, MergeStates, AtState, AtFresh, Running
<1>2. /\ i \in 1 .. Len(path) - 1 /\ st[path[i]].pc = st[Top].pc
      /\ st[path[i]].dom = st[Top].dom /\ ~HasInRefEdge(path[i])
  BY DEF GenTarget, Candidates
<1>3. k \in 1 .. i /\ k <= Len(path)
  BY <1>1, <1>2 DEF MergeAt
<1>4. st[path[i]] \in State
  BY <1>1, <1>2 DEF ConstructionInv, PathIsChain
<1>5. Merge(st[path[i]], st[Top]) \in State
  BY <1>1, <1>4, MergeType
<1>6. /\ st' \in Seq(State \cup {NULL}) /\ Len(st') = Len(st) + 1
      /\ \A v \in Vertex : st'[v] = st[v]
      /\ st'[Len(st) + 1] = Merge(st[path[i]], st[Top])
  <2>1. st \in Seq(State \cup {NULL}) /\ st' = Append(st, Merge(st[path[i]], st[Top]))
    BY <1>1 DEF TypeOK, MergeAt
  <2> QED BY <1>5, <2>1, AppendProperties DEF Vertex
<1>7. path \in Seq(Vertex') /\ Vertex \subseteq Vertex' /\ Len(st) + 1 \in Vertex'
  <2>1. Len(st') \in Nat /\ Len(st) <= Len(st') /\ Len(st) + 1 \in 1 .. Len(st')
    BY <1>1, <1>6
  <2> QED BY <1>1, <2>1, PathStaysTyped DEF Vertex
<1>8. /\ path' \in Seq(Vertex') /\ Len(path') = k + 1
      /\ \A j \in 1 .. k : path'[j] = path[j]
      /\ path'[k + 1] = Len(st) + 1
  <2>1. path' = Append(SubSeq(path, 1, k), Len(st) + 1)
    BY DEF MergeAt
  <2> QED BY <1>3, <1>7, <2>1, CutAndPush
<1>9. UNCHANGED <<visited, status>>
  BY DEF MergeStates
<1> QED BY <1>1, <1>2, <1>3, <1>4, <1>5, <1>6, <1>7, <1>8, <1>9

\* A merge keeps the invariant: what it abandons is off the path.
LEMMA MergeInv ==
  ASSUME ConstructionInv, MergeStates
  PROVE  ConstructionInv'
<1> USE EdgeFields
<1>1. TypeOK
  BY DEF ConstructionInv
<1>2. PICK i \in GenTarget(Top), k \in Nat : MergeAt(i, k)
  BY <1>1, MergeShape
<1> DEFINE N == Len(st)
           g == path[i]
           new == Edge(path[k], N + 1, "generalization")
<1>3. /\ path # <<>> /\ Len(path) \in Nat \ {0} /\ N \in Nat
      /\ i \in 1 .. Len(path) - 1 /\ k \in 1 .. i
      /\ st[g] \in State /\ st[Top] \in State
      /\ st[g].pc = st[Top].pc /\ st[g].dom = st[Top].dom
      /\ Merge(st[g], st[Top]) \in State
      /\ st' \in Seq(State \cup {NULL}) /\ Len(st') = N + 1
      /\ \A v \in Vertex : st'[v] = st[v]
      /\ st'[N + 1] = Merge(st[g], st[Top])
      /\ Vertex \subseteq Vertex' /\ N + 1 \in Vertex'
      /\ path' \in Seq(Vertex') /\ Len(path') = k + 1
      /\ \A j \in 1 .. k : path'[j] = path[j]
      /\ path'[k + 1] = N + 1
      /\ UNCHANGED <<visited, status>>
  BY <1>2, MergeFacts
<1>4. /\ \A e \in edge' : e \in edge \/ e = new
      /\ new \in edge'
      /\ \A e \in edge : \/ e \in edge' \/ e.src = g
                         \/ k = i - 1 /\ e = Edge(path[k], g, "generalization")
  BY <1>2 DEF MergeAt, Out
<1>5. /\ Vertex = 1 .. N
      /\ \A j \in 1 .. Len(path) : path[j] \in 1 .. N
      /\ \A e \in edge : e.src \in 1 .. N /\ e.tgt \in 1 .. N
  BY <1>1, <1>3, PathVertices DEF TypeOK, Vertex
<1>6. \A j \in 1 .. k : /\ j \in 1 .. Len(path) - 1 /\ path[j] \in visited
                        /\ st[path[j]] # NULL
                        /\ path[j] <= path[k] /\ path[k] <= g
                        /\ (j < i => path[j] < g)
                        /\ (j < k => path[j] < path[k])
                        /\ path[j] \in 1 .. N
  <2> SUFFICES ASSUME NEW j \in 1 .. k
               PROVE  /\ j \in 1 .. Len(path) - 1 /\ path[j] \in visited
                      /\ st[path[j]] # NULL
                      /\ path[j] <= path[k] /\ path[k] <= g
                      /\ (j < i => path[j] < g)
                      /\ (j < k => path[j] < path[k])
                      /\ path[j] \in 1 .. N
    OBVIOUS
  <2> HIDE DEF N
  <2>1. j \in 1 .. Len(path) - 1 /\ k \in 1 .. Len(path) - 1
    BY <1>3
  <2>2. path[j] \in visited /\ st[path[j]] # NULL
    BY <2>1 DEF ConstructionInv, Structure, PathIsChain, InnerVisited
  <2>3. \A l, m \in 1 .. Len(path) : l < m => path[l] < path[m]
    BY DEF ConstructionInv, Structure, PathAscends
  <2>4. path[j] \in 1 .. N /\ path[k] \in 1 .. N /\ path[i] \in 1 .. N
    BY <1>3, <1>5, <2>1
  <2>8. i \in 1 .. Len(path) /\ j \in 1 .. Len(path) /\ k \in 1 .. Len(path)
    BY <1>3
  <2>9. i \in Nat /\ j \in Nat /\ k \in Nat /\ j <= k /\ k <= i
    BY <1>3
  <2>5. (j < i => path[j] < path[i]) /\ (j < k => path[j] < path[k])
    BY <2>3, <2>8
  <2>6. path[j] <= path[k]
    BY <2>4, <2>5, <2>9
  <2>7. path[k] <= path[i]
    <3>1. k < i => path[k] < path[i]
      BY <2>3, <2>8
    <3> QED BY <2>4, <2>9, <3>1
  <2> QED BY <2>1, <2>2, <2>4, <2>5, <2>6, <2>7 DEF g
<1>7. Top' = N + 1 /\ Top = path[Len(path)]
  BY <1>3 DEF Top
<1> HIDE DEF N, g, new
<1>8. TypeOK'
  <2>1. \A e \in edge' : e \in [src : Vertex', tgt : Vertex', type : EdgeType]
    <3>1. new \in [src : Vertex', tgt : Vertex', type : EdgeType]
      BY <1>3, <1>5, <1>6 DEF new, Edge, EdgeType
    <3>2. \A e \in edge : e \in [src : Vertex', tgt : Vertex', type : EdgeType]
      BY <1>1, <1>3 DEF TypeOK
    <3> QED BY <1>4, <3>1, <3>2
  <2>2. (edge \subseteq [src : Vertex, tgt : Vertex, type : EdgeType])'
    BY <2>1
  <2> QED BY <1>1, <1>3, <2>2 DEF TypeOK
<1>9. PathIsChain'
  <2>1. path[1] = Entry
    BY <1>3 DEF ConstructionInv, PathIsChain
  <2>2. ASSUME NEW j \in 1 .. k
        PROVE  /\ st'[path'[j]] # NULL
               /\ \E e \in edge' : e.src = path'[j] /\ e.tgt = path'[j + 1]
    <3>1. st'[path'[j]] # NULL /\ path'[j] = path[j]
      BY <1>3, <1>5, <1>6
    <3>2. CASE j = k
      BY <1>3, <1>4, <3>1, <3>2 DEF new
    <3>3. CASE j < k
      <4>1. PICK e \in edge : e.src = path[j] /\ e.tgt = path[j + 1]
        BY <1>6 DEF ConstructionInv, PathIsChain
      <4>2. path[j] < g /\ path[j] < path[k]
        <5>1. j < i
          BY <1>3, <3>3
        <5> QED BY <1>6, <3>3, <5>1
      <4>3. e \in edge'
        <5>1. e.src # g /\ e.src # path[k]
          BY <1>5, <1>6, <4>1, <4>2
        <5>2. Edge(path[k], g, "generalization").src = path[k]
          OBVIOUS
        <5> QED BY <1>4, <5>1, <5>2
      <4>4. path'[j + 1] = path[j + 1]
        BY <1>3, <3>3
      <4> QED BY <3>1, <4>1, <4>3, <4>4
    <3>4. j = k \/ j < k
      BY <1>3
    <3> QED BY <3>2, <3>3, <3>4
  <2> QED BY <1>3, <2>1, <2>2 DEF PathIsChain, Entry
<1>10. PathAscends' /\ InnerVisited'
  <2>1. PathAscends'
    <3> SUFFICES ASSUME NEW j \in 1 .. Len(path'), NEW l \in 1 .. Len(path'), j < l
                 PROVE  path'[j] < path'[l]
      BY DEF PathAscends
    <3>1. j \in 1 .. k /\ path'[j] = path[j]
      BY <1>3
    <3>2. CASE l \in 1 .. k
      <4>1. j \in 1 .. Len(path) /\ l \in 1 .. Len(path)
        BY <1>6, <3>1, <3>2
      <4> QED BY <1>3, <3>1, <3>2, <4>1
          DEF ConstructionInv, Structure, PathAscends
    <3>3. CASE l = k + 1
      BY <1>3, <1>5, <1>6, <3>1, <3>3
    <3> QED BY <1>3, <3>2, <3>3
  <2>2. InnerVisited'
    <3>1. \A j \in 1 .. k : path'[j] \in visited'
      BY <1>3, <1>6
    <3>2. Len(path') - 1 = k
      BY <1>3
    <3> QED BY <3>1, <3>2 DEF InnerVisited
  <2> QED BY <2>1, <2>2
<1>11. new.src = path[k] /\ new.tgt = N + 1 /\ new.type = "generalization"
  BY DEF new
<1>12. SourcesExpanded'
  <2>1. k \in 1 .. k
    BY <1>3
  <2>2. path[k] \in visited /\ st'[path[k]] # NULL
    BY <1>3, <1>5, <1>6, <2>1
  <2>3. \A e \in edge : e.src \in visited /\ st'[e.src] # NULL
    BY <1>3, <1>5 DEF ConstructionInv, Structure, SourcesExpanded
  <2> QED BY <1>3, <1>4, <1>11, <2>2, <2>3 DEF SourcesExpanded
<1>13. EdgesAhead'
  BY <1>3, <1>4, <1>5, <1>6, <1>11 DEF ConstructionInv, Structure, EdgesAhead
<1>14. OneOlderParent'
  <2>1. \A e \in edge : e.tgt # new.tgt
    BY <1>3, <1>5, <1>11
  <2> QED BY <1>4, <2>1 DEF ConstructionInv, Structure, OneOlderParent
<1>15. PendingChildren'
  <2> SUFFICES ASSUME NEW j \in 1 .. Len(path'), NEW e \in edge', e.src = path'[j],
                      e.tgt \notin visited, e.tgt # N + 1
               PROVE  e.type = "refinement"
    BY <1>3, <1>7 DEF PendingChildren, Out
  <2>1. e \in edge /\ e.src \in 1 .. N
    BY <1>4, <1>5, <1>11
  <2>2. j \in 1 .. k /\ e.src = path[j]
    BY <1>3, <2>1
  <2>3. CASE e.tgt # Top
    <3>1. j \in 1 .. Len(path) /\ e \in Out(path[j])
      BY <1>6, <2>1, <2>2 DEF Out
    <3> QED BY <2>3, <3>1 DEF ConstructionInv, Structure, PendingChildren
  <2>4. CASE e.tgt = Top
    <3>1. PICK f \in edge : f.src = path[Len(path) - 1] /\ f.tgt = Top
      <4>1. /\ Len(path) - 1 \in 1 .. Len(path) - 1
            /\ (Len(path) - 1) + 1 = Len(path)
        BY <1>3
      <4>2. \A m \in 1 .. Len(path) - 1 :
              \E f \in edge : f.src = path[m] /\ f.tgt = path[m + 1]
        BY DEF ConstructionInv, PathIsChain
      <4>3. \E f \in edge : /\ f.src = path[Len(path) - 1]
                             /\ f.tgt = path[(Len(path) - 1) + 1]
        BY <4>1, <4>2
      <4>4. path[(Len(path) - 1) + 1] = Top
        BY <1>7, <4>1
      <4> QED BY <4>3, <4>4
    <3>0. /\ Len(path) - 1 \in 1 .. Len(path) /\ j \in 1 .. Len(path)
          /\ Len(path) \in 1 .. Len(path) /\ j < Len(path)
      <4>1. j \in 1 .. Len(path) - 1
        BY <1>6, <2>2
      <4>2. Len(path) \in Nat
        BY <1>3
      <4> QED BY <4>1, <4>2
    <3>2. path[Len(path) - 1] < Top /\ path[j] < Top
      BY <1>3, <1>7, <3>0 DEF ConstructionInv, Structure, PathAscends
    <3>3. e = f
      BY <2>1, <2>2, <2>4, <3>1, <3>2 DEF ConstructionInv, Structure, OneOlderParent
    <3>4. j = Len(path) - 1
      <4>1. path[j] = path[Len(path) - 1] /\ path[j] \in 1 .. N
        BY <1>6, <2>2, <3>1, <3>3
      <4>2. j < Len(path) - 1 => path[j] < path[Len(path) - 1]
        BY <3>0 DEF ConstructionInv, Structure, PathAscends
      <4>3. ~(j < Len(path) - 1)
        BY <4>1, <4>2
      <4>4. j \in Nat /\ Len(path) \in Nat /\ j < Len(path)
        BY <3>0
      <4> QED BY <4>3, <4>4
    <3>5. k = i /\ j = i
      BY <1>3, <2>2, <3>4
    <3>6. e \notin Out(g)
      BY <1>2, <1>3, <1>5, <2>1, <3>5 DEF MergeAt, N, g, new
    <3> QED BY <2>1, <2>2, <3>5, <3>6 DEF g, Out
  <2> QED BY <2>3, <2>4
<1>16. NoEdgeOver'
  <2> SUFFICES ASSUME NEW j \in 1 .. Len(path')
               PROVE  \/ \E e \in edge' : e.tgt = path'[j] /\ e.type = "refinement"
                      \/ \A e \in edge' : e.src < path'[j] => e.tgt <= path'[j]
    BY DEF NoEdgeOver, HasInRefEdge, In
  <2>1. CASE j \in 1 .. k
    <3>1. path'[j] = path[j] /\ path[j] <= path[k] /\ path[j] <= g /\ j \in 1 .. Len(path)
      <4>1. path'[j] = path[j]
        BY <1>3, <2>1
      <4>2. path[j] \in 1 .. N /\ path[k] \in 1 .. N /\ path[j] <= path[k] /\ path[k] <= g
        BY <1>3, <1>6, <2>1
      <4>3. g \in 1 .. N
        BY <1>3, <1>5 DEF g
      <4>4. path[j] <= g
        BY <4>2, <4>3
      <4>5. j \in 1 .. Len(path)
        BY <1>3, <1>6, <2>1
      <4> QED BY <4>1, <4>2, <4>4, <4>5
    <3>2. CASE HasInRefEdge(path[j])
      <4>1. PICK e \in edge : e.tgt = path[j] /\ e.type = "refinement"
        BY <3>2 DEF HasInRefEdge, In
      <4>2. e.src < path[j]
        BY <4>1 DEF ConstructionInv, Structure, EdgesAhead
      <4>3. e.src # g /\ e # Edge(path[k], g, "generalization")
        BY <1>5, <3>1, <4>1, <4>2, <1>3, <1>6 DEF g
      <4> QED BY <1>4, <3>1, <4>1, <4>3
    <3>3. CASE \A e \in edge : e.src < path[j] => e.tgt <= path[j]
      <4>1. ~(new.src < path[j])
        BY <1>3, <1>5, <1>6, <1>11, <3>1
      <4> QED BY <1>4, <3>1, <3>3, <4>1
    <3> QED BY <3>1, <3>2, <3>3 DEF ConstructionInv, Structure, NoEdgeOver
  <2>2. CASE j = k + 1
    BY <1>3, <1>4, <1>5, <1>11, <2>2
  <2> QED BY <1>3, <2>1, <2>2
<1>17. GeneralizationSound'
  <2>1. ASSUME NEW e \in edge, e.type = "generalization"
        PROVE  /\ st'[e.src] # NULL /\ st'[e.tgt] # NULL
               /\ st'[e.src].pc = st'[e.tgt].pc
               /\ IsGeneralizationOf(st'[e.tgt], st'[e.src])
    BY <1>3, <1>5, <2>1 DEF ConstructionInv, GeneralizationSound
  <2>2. st'[N + 1] # NULL /\ st'[path[k]] = st[path[k]] /\ st[path[k]] # NULL
    BY <1>3, <1>5, <1>6, NullAssumption
  <2>3. /\ IsGeneralizationOf(st'[N + 1], st[g])
        /\ st'[N + 1].pc = st[g].pc
    <3>1. IsGeneralizationOf(Merge(st[g], st[Top]), st[g])
      BY <1>3, MergeGeneralizes
    <3>2. Merge(st[g], st[Top]).pc = st[g].pc
      BY DEF Merge
    <3> QED BY <1>3, <3>1, <3>2
  <2>4. /\ IsGeneralizationOf(st'[N + 1], st[path[k]])
        /\ st'[N + 1].pc = st[path[k]].pc
    <3>1. CASE k = i
      BY <2>3, <3>1 DEF g
    <3>2. CASE Edge(path[k], g, "generalization") \in edge
      <4>1. IsGeneralizationOf(st[g], st[path[k]]) /\ st[path[k]].pc = st[g].pc
        BY <3>2 DEF ConstructionInv, GeneralizationSound
      <4>2. st[path[k]] \in State
        BY <1>1, <1>3, <1>5, <1>6, <2>2, PathVertices
      <4> QED BY <1>3, <2>3, <4>1, <4>2, GeneralizationTransitive
    <3> QED BY <1>2, <3>1, <3>2 DEF MergeAt, g
  <2> QED BY <1>4, <1>11, <2>1, <2>2, <2>4 DEF GeneralizationSound
<1> QED
  BY <1>8, <1>9, <1>10, <1>12, <1>13, <1>14, <1>15, <1>16, <1>17
  DEF ConstructionInv, Structure

\* The invariant depends on nothing but the graph and the path.
LEMMA InvStays ==
  ASSUME ConstructionInv, UNCHANGED <<st, visited, edge, path>>,
         status' \in {"running", "exited"}
  PROVE  ConstructionInv'
<1>1. TypeOK'
  BY DEF ConstructionInv, TypeOK, Vertex
<1>2. PathIsChain' /\ GeneralizationSound'
  BY DEF ConstructionInv, PathIsChain, GeneralizationSound, Entry
<1>3. PathAscends' /\ InnerVisited' /\ SourcesExpanded' /\ EdgesAhead' /\ OneOlderParent'
  BY DEF ConstructionInv, Structure, PathAscends, InnerVisited,
         SourcesExpanded, EdgesAhead, OneOlderParent
<1>4. PendingChildren' /\ NoEdgeOver'
  BY DEF ConstructionInv, Structure, PendingChildren, NoEdgeOver, Out, In,
         HasInRefEdge, Top
<1> QED BY <1>1, <1>2, <1>3, <1>4 DEF ConstructionInv, Structure

\* Every turn of the loop of expandSEG keeps the invariant.
LEMMA NextInv == ConstructionInv /\ [Next]_segVars => ConstructionInv'
<1> SUFFICES ASSUME ConstructionInv, [Next]_segVars PROVE ConstructionInv'
  OBVIOUS
<1>1. CASE LeaveEnd \/ Generalize \/ Backtrack
  BY <1>1, PopInv
<1>2. CASE MergeStates
  BY <1>2, MergeInv
<1>3. CASE EvaluateOne \/ EvaluateRet \/ EvaluateTwo
  BY <1>3, ExpandInv
<1>4. CASE Descend
  BY <1>4, DescendInv
<1>5. CASE Exit \/ UNCHANGED segVars
  BY <1>5, InvStays DEF Exit, segVars, ConstructionInv, TypeOK
<1> QED BY <1>1, <1>2, <1>3, <1>4, <1>5 DEF Next

\* The invariant of expandSEG holds throughout the construction.
THEOREM ConstructionInvariant == Spec => []ConstructionInv
BY InitInv, NextInv, PTL DEF Spec

\* Every variable of the construction keeps its type.
THEOREM TypeCorrect == Spec => []TypeOK
<1>1. ConstructionInv => TypeOK
  BY DEF ConstructionInv
<1> QED BY <1>1, ConstructionInvariant, PTL

(***************************************************************************)
(* findSamePC never meets an end on the path, and there is an edge between *)
(* two neighbours on it for procGeneralization to look at.                 *)
(***************************************************************************)
THEOREM PathStaysChain == Spec => []PathIsChain
<1>1. ConstructionInv => PathIsChain
  BY DEF ConstructionInv
<1> QED BY <1>1, ConstructionInvariant, PTL

\* The shape of graph and path that makes a merge abandon a closed part.
THEOREM StructureKept == Spec => []Structure
<1>1. ConstructionInv => Structure
  BY DEF ConstructionInv
<1> QED BY <1>1, ConstructionInvariant, PTL

(***************************************************************************)
(* Every generalization edge, also one redirected by a later merge, leads  *)
(* to a state that generalises its source.                                 *)
(***************************************************************************)
THEOREM GeneralizationIsSound == Spec => []GeneralizationSound
<1>1. ConstructionInv => GeneralizationSound
  BY DEF ConstructionInv
<1> QED BY <1>1, ConstructionInvariant, PTL

(***************************************************************************)
(* Every merge generalises both states and is strictly weaker than the     *)
(* older one.                                                              *)
(***************************************************************************)
LEMMA MergeStep ==
  ASSUME ConstructionInv, MergeStates
  PROVE  LET c == st'[Len(st')] IN
         \A i \in GenTarget(Top) :
           /\ IsGeneralizationOf(c, st[path[i]])
           /\ IsGeneralizationOf(c, st[Top])
           /\ ~IsGeneralizationOf(st[path[i]], c)
<1>1. PICK i \in GenTarget(Top), k \in Nat : MergeAt(i, k)
  BY MergeShape DEF ConstructionInv
<1>2. \A j \in GenTarget(Top) : j = i
  <2>1. \A j \in GenTarget(Top) : j <= i /\ i <= j /\ j \in Nat /\ i \in Nat
    BY DEF GenTarget, Candidates
  <2> QED BY <2>1
<1>3. /\ st[path[i]] \in State /\ st[Top] \in State
      /\ st[path[i]].dom = st[Top].dom
      /\ st'[Len(st')] = Merge(st[path[i]], st[Top])
  BY <1>1, MergeFacts
<1>4. ~IsGeneralizationOf(st[path[i]], st[Top])
  BY <1>1 DEF MergeAt
<1> QED BY <1>2, <1>3, <1>4, MergeGeneralizes, MergeStrictlyWeaker

\* Each merge of procGeneralization makes a strictly more general state.
THEOREM MergesWeaken == Spec => MergeWeakens
<1>1. ConstructionInv /\ [Next]_segVars =>
        [MergeStates =>
           LET c == st'[Len(st')] IN
           \A i \in GenTarget(Top) :
             /\ IsGeneralizationOf(c, st[path[i]])
             /\ IsGeneralizationOf(c, st[Top])
             /\ ~IsGeneralizationOf(st[path[i]], c)]_segVars
  BY MergeStep
<1> QED BY <1>1, ConstructionInvariant, PTL DEF Spec, MergeWeakens
-----------------------------------------------------------------------------
(***************************************************************************)
(* Why the rules that run no instruction come to an end. An edge back to   *)
(* an older vertex leaves a vertex that an evaluation alone leads to and   *)
(* that is off the path for good. A merged vertex hangs below one that is  *)
(* not itself the product of a merge. A half of a condition decides it, so *)
(* only evaluations leave it.                                              *)
(***************************************************************************)
BackFromEvaluation ==
  \A e \in edge : ~(e.src < e.tgt) =>
    /\ \A i \in 1 .. Len(path) : path[i] # e.src
    /\ \A f \in edge : f.tgt = e.src => f.type = "evaluation"

MergedOnce ==
  \A e, f \in edge :
    ~(/\ e.type = "generalization" /\ e.src < e.tgt
      /\ f.type = "generalization" /\ f.src < f.tgt
      /\ e.tgt = f.src)

HalvesDecided ==
  \A e \in edge : e.type = "refinement" =>
    /\ st[e.tgt] # NULL
    /\ ~NeedsRefinement(st[e.tgt])
    /\ \A f \in edge : f.src = e.tgt => f.type = "evaluation"

SilentInv == BackFromEvaluation /\ MergedOnce /\ HalvesDecided

\* At most one back edge, one merge and one refinement follow each other.
LEMMA SilentInvSuffices ==
  ASSUME ConstructionInv, SilentInv
  PROVE  SilentStepsEnd
<1> SUFFICES ASSUME NEW a \in edge, a.type # "evaluation",
                    NEW b \in edge, b.type # "evaluation", b.src = a.tgt,
                    NEW c \in edge, c.type # "evaluation", c.src = b.tgt,
                    NEW d \in edge, d.type # "evaluation", d.src = c.tgt
             PROVE  FALSE
  BY DEF SilentStepsEnd, Silent, Out
<1>1. b.src < b.tgt /\ c.src < c.tgt
  BY DEF SilentInv, BackFromEvaluation
<1>2. b.type # "refinement" /\ c.type # "refinement"
  BY DEF SilentInv, HalvesDecided
<1>3. b.type = "generalization" /\ c.type = "generalization"
  BY <1>2 DEF ConstructionInv, TypeOK, EdgeType
<1> QED BY <1>1, <1>3 DEF SilentInv, MergedOnce

\* A vertex expandSEG meets for the first time was made by one edge.
LEMMA OneWayIn ==
  ASSUME ConstructionInv, NEW v, v \notin visited,
         NEW e \in edge, NEW f \in edge, e.tgt = v, f.tgt = v
  PROVE  e = f
BY DEF ConstructionInv, Structure, EdgesAhead, OneOlderParent

\* A refinement adds the condition or its negation: the solver knows which.
LEMMA HalfDecides ==
  ASSUME NEW s \in State
  PROVE  ~NeedsRefinement(RefineTrue(s)) /\ ~NeedsRefinement(RefineFalse(s))
<1>1. RefineTrue(s) \in State /\ RefineFalse(s) \in State
  BY RefineType
<1>2. RefineTrue(s).pc = s.pc /\ RefineFalse(s).pc = s.pc
  BY DEF RefineTrue, RefineFalse, State
<1>3. /\ Inst[s.pc].ifTrue \in RefineTrue(s).kb
      /\ Inst[s.pc].ifFalse \in RefineFalse(s).kb
  BY DEF RefineTrue, RefineFalse, State
<1>4. /\ Implies(RefineTrue(s), Inst[s.pc].ifTrue)
      /\ Implies(RefineFalse(s), Inst[s.pc].ifFalse)
  BY <1>1, <1>3, KnowsItsOwn
<1> QED BY <1>2, <1>4 DEF NeedsRefinement

\* Leaving, backtracking and descending add no edge.
LEMMA MoveSilent ==
  ASSUME ConstructionInv, SilentInv, LeaveEnd \/ Backtrack \/ Descend
  PROVE  SilentInv'
<1>1. UNCHANGED <<st, edge>> /\ TypeOK /\ path # <<>>
  BY DEF ConstructionInv, LeaveEnd, Backtrack, Descend, AtFresh, Running
<1>2. MergedOnce' /\ HalvesDecided'
  BY <1>1 DEF SilentInv, MergedOnce, HalvesDecided
<1>3. /\ path \in Seq(Vertex) /\ Len(path) \in Nat \ {0}
      /\ \A e \in edge : e.src \in visited
  BY <1>1, PathVertices
  DEF ConstructionInv, TypeOK, Structure, SourcesExpanded
<1>4. ASSUME NEW e \in edge, ~(e.src < e.tgt), NEW i \in 1 .. Len(path')
      PROVE  path'[i] # e.src
  <2>1. CASE LeaveEnd \/ Backtrack
    <3>1. path' = Pop(path)
      BY <2>1 DEF LeaveEnd, Backtrack
    <3>2. i \in 1 .. Len(path) /\ path'[i] = path[i]
      BY <1>1, <1>3, <3>1, PopPath
    <3> QED BY <1>4, <3>2 DEF SilentInv, BackFromEvaluation
  <2>2. CASE Descend
    <3>1. PICK u \in UnvisitedChildren(Top) : path' = Append(path, u)
      BY <2>2 DEF Descend
    <3>2. u \notin visited /\ u \in Vertex
      BY <1>1, <3>1 DEF UnvisitedChildren, Out, TypeOK
    <3>3. \/ i \in 1 .. Len(path) /\ path'[i] = path[i]
          \/ path'[i] = u
      BY <1>3, <3>1, <3>2, AppendProperties
    <3> QED BY <1>3, <1>4, <3>2, <3>3 DEF SilentInv, BackFromEvaluation
  <2> QED BY <2>1, <2>2
<1>5. BackFromEvaluation'
  BY <1>1, <1>4 DEF SilentInv, BackFromEvaluation
<1> QED BY <1>2, <1>5 DEF SilentInv

\* The vertex that is generalised was made by an evaluation, and leaves the path.
LEMMA GeneralizeSilent ==
  ASSUME ConstructionInv, SilentInv, Generalize
  PROVE  SilentInv'
<1>1. /\ TypeOK /\ path # <<>> /\ Top \notin visited /\ st' = st
      /\ path' = Pop(path)
  BY DEF ConstructionInv, Generalize, AtState, AtFresh, Running
<1>2. PICK i \in Candidates(Top) :
        edge' = edge \cup {Edge(Top, path[i], "generalization")}
  BY DEF Generalize, GenTarget
<1>3. /\ Len(path) \in Nat \ {0} /\ Top = path[Len(path)]
      /\ \A j \in 1 .. Len(path) : path[j] \in Nat
      /\ Len(path') = Len(path) - 1
      /\ \A j \in 1 .. Len(path) - 1 : path'[j] = path[j]
  <2>1. Len(path) \in Nat \ {0} /\ \A j \in 1 .. Len(path) : path[j] \in Vertex
    BY <1>1, PathVertices
  <2>2. path \in Seq(Vertex) /\ Vertex \subseteq Nat
    BY <1>1 DEF TypeOK, Vertex
  <2>3. /\ Len(Pop(path)) = Len(path) - 1
        /\ \A j \in 1 .. Len(path) - 1 : Pop(path)[j] = path[j]
    BY <1>1, <2>2, PopPath
  <2> QED BY <1>1, <2>1, <2>2, <2>3 DEF Top
<1>4. i \in 1 .. Len(path) - 1 /\ HasInEvalEdge(Top)
  BY <1>2 DEF Candidates
<1> DEFINE new == Edge(Top, path[i], "generalization")
<1>5. new.src = Top /\ new.tgt = path[i] /\ new.type = "generalization"
  BY EdgeFields
<1>6. path[i] < Top
  BY <1>3, <1>4 DEF ConstructionInv, Structure, PathAscends
<1>7. \A f \in edge : f.tgt = Top => f.type = "evaluation"
  BY <1>1, <1>4, OneWayIn DEF HasInEvalEdge, In
<1>8. ~(new.src < new.tgt) /\ new.src # new.tgt
  BY <1>3, <1>4, <1>5, <1>6
<1>9. edge' = edge \cup {new}
  BY <1>2
<1> HIDE DEF new
<1>10. BackFromEvaluation'
  <2> SUFFICES ASSUME NEW e \in edge', ~(e.src < e.tgt)
               PROVE  /\ \A j \in 1 .. Len(path') : path'[j] # e.src
                      /\ \A f \in edge' : f.tgt = e.src => f.type = "evaluation"
    BY DEF BackFromEvaluation
  <2>1. CASE e = new
    <3>1. \A j \in 1 .. Len(path') : path'[j] # Top
      BY <1>3 DEF ConstructionInv, Structure, PathAscends
    <3> QED BY <1>5, <1>7, <1>8, <1>9, <2>1, <3>1
  <2>2. CASE e \in edge
    <3>1. path[i] # e.src
      BY <1>3, <1>4, <2>2 DEF SilentInv, BackFromEvaluation
    <3>2. \A j \in 1 .. Len(path') : path'[j] # e.src
      BY <1>3, <2>2 DEF SilentInv, BackFromEvaluation
    <3> QED BY <1>5, <1>9, <2>2, <3>1, <3>2 DEF SilentInv, BackFromEvaluation
  <2> QED BY <1>9, <2>1, <2>2
<1>11. MergedOnce'
  BY <1>8, <1>9 DEF SilentInv, MergedOnce
<1>12. HalvesDecided'
  BY <1>1, <1>5, <1>7, <1>9 DEF SilentInv, HalvesDecided
<1> QED BY <1>10, <1>11, <1>12 DEF SilentInv

\* The vertex a merged one is hung below is neither merged nor half a condition.
LEMMA MergeSilent ==
  ASSUME ConstructionInv, SilentInv, MergeStates
  PROVE  SilentInv'
<1>1. TypeOK
  BY DEF ConstructionInv
<1>2. PICK i \in GenTarget(Top), k \in Nat : MergeAt(i, k)
  BY <1>1, MergeShape
<1> DEFINE N == Len(st)
           new == Edge(path[k], N + 1, "generalization")
<1>3. /\ path # <<>> /\ Len(path) \in Nat \ {0} /\ N \in Nat
      /\ i \in 1 .. Len(path) - 1 /\ k \in 1 .. i
      /\ ~HasInRefEdge(path[i])
      /\ \A v \in Vertex : st'[v] = st[v]
      /\ Len(path') = k + 1
      /\ \A j \in 1 .. k : path'[j] = path[j]
      /\ path'[k + 1] = N + 1
  BY <1>2, MergeFacts
<1>4. /\ \A j \in 1 .. Len(path) : path[j] \in 1 .. N
      /\ \A e \in edge : e.src \in 1 .. N /\ e.tgt \in 1 .. N
      /\ Vertex = 1 .. N
  BY <1>1, <1>3, PathVertices DEF TypeOK, Vertex
<1>5. new.src = path[k] /\ new.tgt = N + 1 /\ new.type = "generalization"
  BY EdgeFields
<1>6. edge' \subseteq edge \cup {new}
  BY <1>2 DEF MergeAt
<1>7. \/ k = i /\ (i = 1 \/ Edge(path[i - 1], path[i], "generalization") \notin edge)
      \/ k = i - 1 /\ Edge(path[k], path[i], "generalization") \in edge
  BY <1>2 DEF MergeAt
<1>8. path[k] \in 1 .. N /\ k \in 1 .. Len(path) /\ i \in 1 .. Len(path)
  BY <1>3, <1>4
<1> HIDE DEF N, new
<1>9. \A e \in edge : e.tgt = path[k] => e.type # "refinement"
  <2>1. CASE k = i
    BY <1>3, <2>1 DEF HasInRefEdge, In
  <2>2. CASE Edge(path[k], path[i], "generalization") \in edge
    BY <2>2, EdgeFields DEF SilentInv, HalvesDecided
  <2> QED BY <1>7, <2>1, <2>2
<1>10. \A e \in edge :
         ~(e.type = "generalization" /\ e.src < e.tgt /\ e.tgt = path[k])
  <2> SUFFICES ASSUME NEW e \in edge, e.type = "generalization", e.src < e.tgt,
                      e.tgt = path[k]
               PROVE  FALSE
    OBVIOUS
  <2>1. CASE k = i /\ i = 1
    <3>1. e.tgt = 1
      BY <1>3, <2>1 DEF ConstructionInv, PathIsChain, Entry
    <3> QED BY <1>4, <3>1
  <2>2. CASE k = i /\ i # 1
    <3>1. i - 1 \in 1 .. Len(path) - 1 /\ i - 1 \in 1 .. Len(path) /\ (i - 1) + 1 = i
      BY <1>3, <2>2
    <3>2. PICK f \in edge : f.src = path[i - 1] /\ f.tgt = path[(i - 1) + 1]
      BY <3>1 DEF ConstructionInv, PathIsChain
    <3>3. f.tgt = path[i] /\ path[i - 1] < path[i]
      BY <1>8, <3>1, <3>2 DEF ConstructionInv, Structure, PathAscends
    <3>4. e = f
      BY <2>2, <3>2, <3>3 DEF ConstructionInv, Structure, OneOlderParent
    <3>5. e = Edge(path[i - 1], path[i], "generalization")
      BY <1>1, <3>2, <3>3, <3>4 DEF TypeOK, Edge
    <3> QED BY <1>3, <1>7, <2>2, <3>5
  <2>3. CASE k = i - 1 /\ Edge(path[k], path[i], "generalization") \in edge
    <3>1. path[k] < path[i]
      BY <1>3, <1>8, <2>3 DEF ConstructionInv, Structure, PathAscends
    <3> QED BY <2>3, <3>1, EdgeFields DEF SilentInv, MergedOnce
  <2> QED BY <1>7, <2>1, <2>2, <2>3
<1>11. new.src < new.tgt /\ \A e \in edge : e.src # new.tgt /\ e.tgt # new.tgt
  BY <1>3, <1>4, <1>5, <1>8
<1>12. BackFromEvaluation'
  <2> SUFFICES ASSUME NEW e \in edge', ~(e.src < e.tgt)
               PROVE  /\ \A j \in 1 .. Len(path') : path'[j] # e.src
                      /\ \A f \in edge' : f.tgt = e.src => f.type = "evaluation"
    BY DEF BackFromEvaluation
  <2>1. e \in edge
    BY <1>6, <1>11
  <2>2. ASSUME NEW j \in 1 .. Len(path') PROVE path'[j] # e.src
    <3>1. CASE j \in 1 .. k
      <4>1. path'[j] = path[j] /\ j \in 1 .. Len(path)
        BY <1>3, <3>1
      <4> QED BY <2>1, <4>1 DEF SilentInv, BackFromEvaluation
    <3>2. CASE j = k + 1
      BY <1>3, <1>5, <1>11, <2>1, <3>2
    <3> QED BY <1>3, <3>1, <3>2
  <2>3. \A f \in edge' : f.tgt = e.src => f.type = "evaluation"
    BY <1>6, <1>11, <2>1 DEF SilentInv, BackFromEvaluation
  <2> QED BY <2>2, <2>3
<1>13. MergedOnce'
  <2>1. \A e \in edge : ~(e.type = "generalization" /\ e.src < e.tgt /\ e.tgt = new.src)
    BY <1>5, <1>10
  <2>2. new.src # new.tgt
    BY <1>3, <1>5, <1>8
  <2>3. \A e, f \in edge :
          ~(/\ e.type = "generalization" /\ e.src < e.tgt
            /\ f.type = "generalization" /\ f.src < f.tgt
            /\ e.tgt = f.src)
    BY DEF SilentInv, MergedOnce
  <2>4. \A e, f \in edge \cup {new} :
          ~(/\ e.type = "generalization" /\ e.src < e.tgt
            /\ f.type = "generalization" /\ f.src < f.tgt
            /\ e.tgt = f.src)
    BY <1>11, <2>1, <2>2, <2>3, Zenon
  <2> QED BY <1>6, <2>4 DEF MergedOnce
<1>14. HalvesDecided'
  <2> SUFFICES ASSUME NEW e \in edge', e.type = "refinement"
               PROVE  /\ st'[e.tgt] # NULL /\ ~NeedsRefinement(st'[e.tgt])
                      /\ \A f \in edge' : f.src = e.tgt => f.type = "evaluation"
    BY DEF HalvesDecided
  <2>1. e \in edge
    BY <1>5, <1>6
  <2>2. st'[e.tgt] = st[e.tgt]
    BY <1>3, <1>4, <2>1
  <2>3. new.src # e.tgt
    BY <1>5, <1>9, <2>1
  <2> QED BY <1>6, <2>1, <2>2, <2>3 DEF SilentInv, HalvesDecided
<1> QED BY <1>12, <1>13, <1>14 DEF SilentInv

\* A refinement splits a vertex that is not itself half of a refinement.
LEMMA ExpandSilent ==
  ASSUME ConstructionInv, SilentInv, EvaluateOne \/ EvaluateRet \/ EvaluateTwo
  PROVE  SilentInv'
<1>1. TypeOK
  BY DEF ConstructionInv
<1>2. /\ path # <<>> /\ st[Top] \in State /\ Top \in Vertex
  BY <1>1, EvaluateShape DEF Running
<1> DEFINE N == Len(st)
<1>3. /\ N \in Nat /\ Vertex = 1 .. N
      /\ Len(path) \in Nat \ {0} /\ Top = path[Len(path)]
      /\ path \in Seq(Nat)
      /\ \A j \in 1 .. Len(path) : path[j] \in 1 .. N
      /\ \A e \in edge : e.src \in 1 .. N /\ e.tgt \in 1 .. N
  <2>1. path \in Seq(Nat)
    BY <1>1, SeqMonotonic DEF TypeOK, Vertex
  <2> QED BY <1>1, <1>2, <2>1, PathVertices DEF TypeOK, Vertex, Top
<1>4. path' = Append(path, N + 1)
  BY DEF EvaluateOne, EvaluateRet, EvaluateTwo
<1>5. /\ Len(path') = Len(path) + 1
      /\ \A j \in 1 .. Len(path) : path'[j] = path[j]
      /\ path'[Len(path) + 1] = N + 1
  BY <1>3, <1>4, AppendProperties
<1>6. /\ \A e \in edge' \ edge :
           /\ e.src = Top /\ e.tgt \in {N + 1, N + 2}
           /\ e.type \in {"evaluation", "refinement"}
      /\ edge \subseteq edge'
  <2>1. CASE edge' = edge \cup {Edge(Top, N + 1, "evaluation")}
    BY <2>1, EdgeFields
  <2>2. CASE edge' = edge \cup {Edge(Top, N + 1, "refinement"),
                                Edge(Top, N + 2, "refinement")}
    BY <2>2, EdgeFields
  <2> QED BY <2>1, <2>2 DEF EvaluateOne, EvaluateRet, EvaluateTwo
<1>7. \A v \in 1 .. N : st'[v] = st[v]
  BY <1>1, <1>2, ExpandKeepsStates
<1> HIDE DEF N
<1>8. BackFromEvaluation'
  <2> SUFFICES ASSUME NEW e \in edge', ~(e.src < e.tgt)
               PROVE  /\ \A j \in 1 .. Len(path') : path'[j] # e.src
                      /\ \A f \in edge' : f.tgt = e.src => f.type = "evaluation"
    BY DEF BackFromEvaluation
  <2>1. e \in edge
    BY <1>2, <1>3, <1>6
  <2>2. ASSUME NEW j \in 1 .. Len(path') PROVE path'[j] # e.src
    <3>1. CASE j \in 1 .. Len(path)
      BY <1>5, <2>1, <3>1 DEF SilentInv, BackFromEvaluation
    <3>2. CASE j = Len(path) + 1
      BY <1>3, <1>5, <2>1, <3>2
    <3> QED BY <1>3, <1>5, <3>1, <3>2
  <2>3. \A f \in edge' : f.tgt = e.src => f.type = "evaluation"
    BY <1>3, <1>6, <2>1 DEF SilentInv, BackFromEvaluation
  <2> QED BY <2>2, <2>3
<1>9. MergedOnce'
  <2>1. \A e \in edge' : e.type = "generalization" => e \in edge
    BY <1>6
  <2> QED BY <2>1 DEF SilentInv, MergedOnce
<1>10. HalvesDecided'
  <2> SUFFICES ASSUME NEW e \in edge', e.type = "refinement"
               PROVE  /\ st'[e.tgt] # NULL /\ ~NeedsRefinement(st'[e.tgt])
                      /\ \A f \in edge' : f.src = e.tgt => f.type = "evaluation"
    BY DEF HalvesDecided
  <2>1. CASE e \in edge
    <3>1. st'[e.tgt] = st[e.tgt]
      BY <1>3, <1>7, <2>1
    <3>2. \A f \in edge' \ edge : f.src = e.tgt => f.type = "evaluation"
      <4>1. CASE EvaluateTwo
        BY <1>6, <2>1, <4>1 DEF EvaluateTwo, SilentInv, HalvesDecided
      <4>2. CASE EvaluateOne \/ EvaluateRet
        BY <4>2, EdgeFields DEF EvaluateOne, EvaluateRet
      <4> QED BY <4>1, <4>2
    <3> QED BY <2>1, <3>1, <3>2 DEF SilentInv, HalvesDecided
  <2>2. CASE e \notin edge
    <3>1. EvaluateTwo
      BY <2>2, EdgeFields DEF EvaluateOne, EvaluateRet
    <3>2. /\ st'[N + 1] = RefineTrue(st[Top])
          /\ st'[N + 2] = RefineFalse(st[Top])
      BY <1>1, <1>2, <3>1, ExpandKeepsStates DEF N
    <3>3. /\ st'[e.tgt] \in State /\ ~NeedsRefinement(st'[e.tgt])
      BY <1>2, <1>6, <2>2, <3>2, RefineType, HalfDecides
    <3>4. \A f \in edge' : f.src # e.tgt
      BY <1>2, <1>3, <1>6, <2>2
    <3> QED BY <3>3, <3>4, NullAssumption
  <2> QED BY <2>1, <2>2
<1> QED BY <1>8, <1>9, <1>10 DEF SilentInv

\* Every turn of the loop keeps what makes the silent edges end.
LEMMA NextSilent ==
  ConstructionInv /\ SilentInv /\ [Next]_segVars => SilentInv'
<1> SUFFICES ASSUME ConstructionInv, SilentInv, [Next]_segVars PROVE SilentInv'
  OBVIOUS
<1>1. CASE LeaveEnd \/ Backtrack \/ Descend
  BY <1>1, MoveSilent
<1>2. CASE Generalize
  BY <1>2, GeneralizeSilent
<1>3. CASE MergeStates
  BY <1>3, MergeSilent
<1>4. CASE EvaluateOne \/ EvaluateRet \/ EvaluateTwo
  BY <1>4, ExpandSilent
<1>5. CASE UNCHANGED <<st, edge, path>>
  BY <1>5 DEF SilentInv, BackFromEvaluation, MergedOnce, HalvesDecided
<1>6. CASE Exit \/ UNCHANGED segVars
  BY <1>5, <1>6 DEF Exit, segVars
<1> QED BY <1>1, <1>2, <1>3, <1>4, <1>6 DEF Next

(***************************************************************************)
(* At every moment of the construction, after an edge that runs no         *)
(* instruction at most two more follow before one that does: no cycle of   *)
(* the graph toKITTEL goes over is without an instruction of the program.  *)
(***************************************************************************)
THEOREM SilentStepsAreFew == Spec => []SilentStepsEnd
<1>1. Init => SilentInv
  BY DEF Init, SilentInv, BackFromEvaluation, MergedOnce, HalvesDecided
<1>2. Spec => [](ConstructionInv /\ SilentInv)
  BY <1>1, InitInv, NextInv, NextSilent, PTL DEF Spec
<1>3. ConstructionInv /\ SilentInv => SilentStepsEnd
  BY SilentInvSuffices
<1> QED BY <1>2, <1>3, PTL
=============================================================================
