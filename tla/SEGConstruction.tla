-------------------------- MODULE SEGConstruction --------------------------
(***************************************************************************)
(* The construction of the symbolic execution graph: SEGManager's          *)
(* expandSEG with findSamePC, procGeneralization and procEvaluation        *)
(* (src/src/Termination/SEGManager.cpp). One action per turn of the while  *)
(* loop of expandSEG. Vertices are numbered in the order add_vertex makes  *)
(* them, which is also their label s0, s1, ... plus one.                   *)
(***************************************************************************)
EXTENDS SEGState

CONSTANTS
  NULL,         \* the state after a ret
  MaxVertices   \* bound of the model: no vertex is added beyond it

ASSUME BoundAssumption == MaxVertices \in Nat \ {0}

ASSUME NullAssumption == NULL \notin State

VARIABLES
  st,       \* ptrState of each vertex
  visited,  \* the vertices whose visited flag is set
  edge,     \* the edges, each with its EdgeType
  path,     \* the path from the entry that is being expanded
  status    \* "running", or "exited" after exit(-1)

segVars == <<st, visited, edge, path, status>>

EdgeType == {"evaluation", "refinement", "generalization"}

Vertex == 1 .. Len(st)
Entry == 1

Edge(u, v, t) == [src |-> u, tgt |-> v, type |-> t]

Out(u) == {e \in edge : e.src = u}
In(v)  == {e \in edge : e.tgt = v}

Top == path[Len(path)]

\* hasInEvalEdge, hasInRefEdge
HasInEvalEdge(v) == \E e \in In(v) : e.type = "evaluation"
HasInRefEdge(v)  == \E e \in In(v) : e.type = "refinement"

\* a path with its last vertex removed
Pop(p) == SubSeq(p, 1, Len(p) - 1)
-----------------------------------------------------------------------------
\* The same without the test that an evaluation made v: the state a refinement
\* makes may be generalised to one of the states above its condition.
CandidatesOfAny(v) ==
  {i \in 1 .. Len(path) - 1 :
     /\ st[path[i]].pc = st[v].pc
     /\ st[path[i]].dom = st[v].dom
     /\ ~HasInRefEdge(path[i])}

(***************************************************************************)
(* The positions on the path of the vertices v may be generalised to: the  *)
(* same program counter (findSamePC) and domain as v, not made by a        *)
(* refinement, and v itself made by an evaluation.                         *)
(***************************************************************************)
Candidates(v) ==
  {i \in 1 .. Len(path) - 1 :
     /\ st[path[i]].pc = st[v].pc
     /\ st[path[i]].dom = st[v].dom
     /\ HasInEvalEdge(v)
     /\ ~HasInRefEdge(path[i])}

\* The nearest of them, if there is one: findSamePC lists the path from its end.
GenTarget(v) == {i \in Candidates(v) : \A j \in Candidates(v) : j <= i}

\* The loop of expandSEG runs: the path is not empty and the process lives.
Running == status = "running" /\ path # <<>>

\* The top of the path is a vertex expandSEG visits for the first time.
AtFresh == Running /\ Top \notin visited

\* It holds a state of the program, not the NULL state after a ret, and the
\* bound of the model leaves room for two more vertices.
AtState == AtFresh /\ st[Top] # NULL /\ Len(st) + 1 < MaxVertices
-----------------------------------------------------------------------------
Init ==
  /\ st = <<EntryState>>
  /\ visited = {}
  /\ edge = {}
  /\ path = <<Entry>>
  /\ status = "running"

\* expandSEG: an end vertex needs no expansion
LeaveEnd ==
  /\ AtFresh
  /\ st[Top] = NULL
  /\ visited' = visited \cup {Top}
  /\ path' = Pop(path)
  /\ UNCHANGED <<st, edge, status>>

\* procGeneralization, genTarget generalises v
Generalize ==
  /\ AtState
  /\ \E i \in GenTarget(Top) :
       /\ IsGeneralizationOf(st[path[i]], st[Top])
       /\ edge' = edge \cup {Edge(Top, path[i], "generalization")}
  /\ visited' = visited \cup {Top}
  /\ path' = Pop(path)
  /\ UNCHANGED <<st, status>>

\* A merge that leaves the edges out of genTarget where they are.
MergeStatesKeepingEdges ==
  /\ AtState
  /\ \E i \in GenTarget(Top) :
       /\ ~IsGeneralizationOf(st[path[i]], st[Top])
       /\ st' = Append(st, Merge(st[path[i]], st[Top]))
       /\ edge' = edge \cup {Edge(path[i], Len(st) + 1, "generalization")}
       /\ path' = Append(SubSeq(path, 1, i), Len(st) + 1)
  /\ UNCHANGED <<visited, status>>

\* A merge that replaces genTarget and leaves it on the path.
MergeStatesKeepingTarget ==
  /\ AtState
  /\ \E i \in GenTarget(Top) :
       LET link == Edge(path[i - 1], path[i], "generalization") IN
       /\ ~IsGeneralizationOf(st[path[i]], st[Top])
       /\ st' = Append(st, Merge(st[path[i]], st[Top]))
       /\ path' = Append(SubSeq(path, 1, i), Len(st) + 1)
       /\ edge' = (edge \ (Out(path[i]) \cup {link}))
                    \cup {Edge(IF link \in edge THEN path[i - 1] ELSE path[i],
                               Len(st) + 1, "generalization")}
  /\ UNCHANGED <<visited, status>>

\* procGeneralization, genTarget is too special: merge it with v into a new
\* vertex below genTarget, or in the place of genTarget when genTarget is itself
\* the product of a merge
MergeStates ==
  /\ AtState
  /\ \E i \in GenTarget(Top) :
       LET g    == path[i]
           vc   == Len(st) + 1
           link == Edge(path[i - 1], g, "generalization")
       IN
       /\ ~IsGeneralizationOf(st[g], st[Top])
       /\ st' = Append(st, Merge(st[g], st[Top]))
       /\ \/ /\ i > 1 /\ link \in edge
             /\ edge' = (edge \ (Out(g) \cup {link}))
                          \cup {Edge(path[i - 1], vc, "generalization")}
             /\ path' = Append(SubSeq(path, 1, i - 1), vc)
          \/ /\ i = 1 \/ link \notin edge
             /\ edge' = (edge \ Out(g)) \cup {Edge(g, vc, "generalization")}
             /\ path' = Append(SubSeq(path, 1, i), vc)
  /\ UNCHANGED <<visited, status>>

\* Top is expanded by evaluate.
Expands ==
  /\ AtState
  /\ Candidates(Top) = {}
  /\ visited' = visited \cup {Top}
  /\ UNCHANGED status

\* procEvaluation, one state
EvaluateOne ==
  /\ Expands
  /\ ~NeedsRefinement(st[Top])
  /\ \E s \in Evaluate(st[Top]) : st' = Append(st, s)
  /\ edge' = edge \cup {Edge(Top, Len(st) + 1, "evaluation")}
  /\ path' = Append(path, Len(st) + 1)

\* procEvaluation of a ret: the one state is NULL
EvaluateRet ==
  /\ Expands
  /\ Inst[st[Top].pc].kind = "ret"
  /\ st' = Append(st, NULL)
  /\ edge' = edge \cup {Edge(Top, Len(st) + 1, "evaluation")}
  /\ path' = Append(path, Len(st) + 1)

\* A refinement that adds the edge to its second state but not the state.
EvaluateTwoAddingOne ==
  /\ Expands
  /\ NeedsRefinement(st[Top])
  /\ st' = Append(st, RefineTrue(st[Top]))
  /\ edge' = edge \cup {Edge(Top, Len(st) + 1, "refinement"),
                        Edge(Top, Len(st) + 2, "refinement")}
  /\ path' = Append(path, Len(st) + 1)

\* procEvaluation, two states: only the first is pushed
EvaluateTwo ==
  /\ Expands
  /\ NeedsRefinement(st[Top])
  /\ st' = st \o <<RefineTrue(st[Top]), RefineFalse(st[Top])>>
  /\ edge' = edge \cup {Edge(Top, Len(st) + 1, "refinement"),
                        Edge(Top, Len(st) + 2, "refinement")}
  /\ path' = Append(path, Len(st) + 1)

\* exit(-1): the solver answers unknown, a load or store is not proved to hit
\* an allocated cell, or the instruction is not supported. Only the expansion
\* of a ret asks nothing of the solver.
Exit ==
  /\ AtState
  /\ Inst[st[Top].pc].kind = "ret" => Candidates(Top) # {}
  /\ status' = "exited"
  /\ UNCHANGED <<st, visited, edge, path>>

\* firstUnvisitedChild: out edges are kept in the order their targets were made
UnvisitedChildren(v) == {e.tgt : e \in Out(v)} \ visited

Descend ==
  /\ Running
  /\ Top \in visited
  /\ \E u \in UnvisitedChildren(Top) :
       /\ \A w \in UnvisitedChildren(Top) : u <= w
       /\ path' = Append(path, u)
  /\ UNCHANGED <<st, visited, edge, status>>

Backtrack ==
  /\ Running
  /\ Top \in visited
  /\ UnvisitedChildren(Top) = {}
  /\ path' = Pop(path)
  /\ UNCHANGED <<st, visited, edge, status>>

Next ==
  \/ LeaveEnd \/ Generalize \/ MergeStates \/ EvaluateOne \/ EvaluateRet
  \/ EvaluateTwo \/ Exit \/ Descend \/ Backtrack

Spec == Init /\ [][Next]_segVars /\ WF_segVars(Next)
-----------------------------------------------------------------------------
TypeOK ==
  /\ st \in Seq(State \cup {NULL})
  /\ visited \subseteq Vertex
  /\ edge \subseteq [src : Vertex, tgt : Vertex, type : EdgeType]
  /\ path \in Seq(Vertex)
  /\ status \in {"running", "exited"}

(***************************************************************************)
(* The path is a path of the graph that starts at the entry, and only its  *)
(* last vertex may be an end. findSamePC dereferences the state of every   *)
(* other vertex of the path, and procGeneralization the edge between two   *)
(* neighbours on it, without checking that there is one.                   *)
(***************************************************************************)
PathIsChain ==
  /\ path # <<>> => path[1] = Entry
  /\ \A i \in 1 .. Len(path) - 1 :
       /\ st[path[i]] # NULL
       /\ \E e \in edge : e.src = path[i] /\ e.tgt = path[i + 1]

(***************************************************************************)
(* A generalization edge leads to a state at the same instruction that     *)
(* generalises its source, also after the edge into a merged vertex was    *)
(* redirected to the vertex that replaced it, which was never compared     *)
(* with the source: toKITTEL turns the edge into a rule that relates the   *)
(* two states by mu alone.                                                 *)
(***************************************************************************)
GeneralizationSound ==
  \A e \in edge : e.type = "generalization" =>
    /\ st[e.src] # NULL /\ st[e.tgt] # NULL
    /\ st[e.src].pc = st[e.tgt].pc
    /\ IsGeneralizationOf(st[e.tgt], st[e.src])

(***************************************************************************)
(* What the loop of expandSEG keeps of the shape of the graph and the path.*)
(* The path goes from older to younger vertices, and all of it but its     *)
(* last vertex is expanded. Only expanded vertices that are not ends have  *)
(* edges. An edge leads to a younger vertex or back to an expanded one, a  *)
(* vertex has one edge from an older one. What the vertices of the path    *)
(* still have to expand is the top and second states of refinements. No    *)
(* edge passes over a vertex of the path unless a refinement made that     *)
(* vertex: when a merge abandons everything younger than genTarget, no     *)
(* edge from an older vertex is left to lead there.                        *)
(***************************************************************************)
PathAscends ==
  \A i, j \in 1 .. Len(path) : i < j => path[i] < path[j]

InnerVisited == \A i \in 1 .. Len(path) - 1 : path[i] \in visited

SourcesExpanded == \A e \in edge : e.src \in visited /\ st[e.src] # NULL

EdgesAhead ==
  \A e \in edge :
    e.src < e.tgt \/ (e.type = "generalization" /\ e.tgt \in visited)

OneOlderParent ==
  \A e, f \in edge :
    e.src < e.tgt /\ f.src < f.tgt /\ e.tgt = f.tgt => e = f

PendingChildren ==
  \A i \in 1 .. Len(path) : \A e \in Out(path[i]) :
    e.tgt \in visited \/ e.tgt = Top \/ e.type = "refinement"

NoEdgeOver ==
  \A i \in 1 .. Len(path) :
    HasInRefEdge(path[i]) \/ \A e \in edge : e.src < path[i] => e.tgt <= path[i]

Structure ==
  /\ PathAscends /\ InnerVisited /\ SourcesExpanded
  /\ EdgesAhead /\ OneOlderParent /\ PendingChildren /\ NoEdgeOver

(***************************************************************************)
(* The edges toKITTEL turns into rules that do not run an instruction.     *)
(* After one of them at most two more follow: back to an older state, on   *)
(* to the state a later merge put below that one, and into one half of its *)
(* condition. Nothing decreases along such edges, so a cycle of them could *)
(* be rewritten for ever whatever the program does; a merge that left      *)
(* edges behind, or a refinement whose halves are generalised at once,     *)
(* could close one.                                                        *)
(***************************************************************************)
Silent(v) == {e \in Out(v) : e.type # "evaluation"}

SilentStepsEnd ==
  \A a \in edge : a.type # "evaluation" =>
    \A b \in Silent(a.tgt) : \A c \in Silent(b.tgt) : Silent(c.tgt) = {}

(***************************************************************************)
(* How the edges out of a vertex account for everything the program can do *)
(* in its state: it is an end, or a more general vertex stands for it, or  *)
(* the condition was split and both halves are there, or the one edge is   *)
(* an evaluation of its instruction.                                       *)
(***************************************************************************)
Justified(v, E) ==
  \/ st[v] = NULL
  \/ \E e \in E :
       /\ e.src = v /\ e.type = "generalization" /\ st[e.tgt] # NULL
       /\ st[e.tgt].pc = st[v].pc /\ IsGeneralizationOf(st[e.tgt], st[v])
  \/ /\ NeedsRefinement(st[v])
     /\ \E e, f \in E :
          /\ e.src = v /\ e.type = "refinement" /\ st[e.tgt] = RefineTrue(st[v])
          /\ f.src = v /\ f.type = "refinement" /\ st[f.tgt] = RefineFalse(st[v])
  \/ /\ ~NeedsRefinement(st[v])
     /\ \E e \in E :
          /\ e.src = v /\ e.type = "evaluation"
          /\ \/ Inst[st[v].pc].kind = "ret" /\ st[e.tgt] = NULL
             \/ st[e.tgt] \in Evaluate(st[v])

(***************************************************************************)
(* A merge makes progress: the new state generalises genTarget and v, and  *)
(* genTarget does not generalise it, so it knows strictly less. This is    *)
(* why the loop of expandSEG cannot merge at one instruction for ever.     *)
(***************************************************************************)
MergeWeakens ==
  [][MergeStates =>
       LET c == st'[Len(st')] IN
       \A i \in GenTarget(Top) :
         /\ IsGeneralizationOf(c, st[path[i]])
         /\ IsGeneralizationOf(c, st[Top])
         /\ ~IsGeneralizationOf(st[path[i]], c)]_segVars

=============================================================================
