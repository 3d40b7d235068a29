----------------------------- MODULE SEGManager -----------------------------
(***************************************************************************)
(* The termination prover as main runs it (src/src/main.cpp): constructSEG,*)
(* then simplifySEG, which copies the part of the graph the entry reaches, *)
(* then toKITTEL, which writes rewrite rules of the copied edges, one edge *)
(* after another, for the termination tool KITTeL. The recursive dfs of    *)
(* simplifySEG is a stack of its active calls here.                        *)
(***************************************************************************)
EXTENDS SEGConstruction

VARIABLES
  phase,   \* what main is doing
  calls,   \* the source vertices of the active calls of dfs, innermost last
  copied,  \* the vertices of the graph that have a copy in dest (mapV)
  dest,    \* the edges of dest, named by the edges they copy
  written, \* the edges of dest toKITTEL is done with
  rules    \* the rules in the KITTeL file

kittel == <<written, rules>>
vars == <<segVars, phase, calls, copied, dest, kittel>>

Caller == calls[Len(calls)]

ManagerInit ==
  /\ Init
  /\ phase = "constructSEG"
  /\ calls = <<>>
  /\ copied = {}
  /\ dest = {}
  /\ written = {}
  /\ rules = {}

ConstructSEG ==
  /\ phase = "constructSEG"
  /\ Next
  /\ UNCHANGED <<phase, calls, copied, dest, kittel>>

\* simplifySEG copies the entry and calls dfs on it
SimplifySEG ==
  /\ phase = "constructSEG"
  /\ status = "running" /\ path = <<>>
  /\ phase' = "simplifySEG"
  /\ copied' = {Entry}
  /\ calls' = <<Entry>>
  /\ UNCHANGED <<segVars, dest, kittel>>

\* dfs: one turn of the loop over the children of the caller. Every copied
\* vertex has been visited by dfs, which is called as soon as it is copied.
DfsChild ==
  /\ phase = "simplifySEG" /\ calls # <<>>
  /\ \E e \in Out(Caller) \ dest :
       /\ \A f \in Out(Caller) \ dest : e.tgt <= f.tgt
       /\ dest' = dest \cup {e}
       /\ copied' = copied \cup {e.tgt}
       /\ calls' = IF e.tgt \in copied THEN calls ELSE Append(calls, e.tgt)
  /\ UNCHANGED <<segVars, phase, kittel>>

DfsReturn ==
  /\ phase = "simplifySEG" /\ calls # <<>>
  /\ Out(Caller) \subseteq dest
  /\ calls' = Pop(calls)
  /\ UNCHANGED <<segVars, phase, copied, dest, kittel>>
-----------------------------------------------------------------------------
(***************************************************************************)
(* What a rule says. The code numbers its symbols v0, v1, ...; here a      *)
(* symbol is named by the local it was made for and the vertex whose state *)
(* had it first. The symbols of allocated memory and of cells are left     *)
(* out: mu renames none of them.                                           *)
(***************************************************************************)
\* The locals an instruction gives a new value on its way to the k-th next one.
Defined(p, k) ==
  IF Inst[p].kind \in {"br", "cond"} THEN Inst[p].phi[k] ELSE {p}

\* The edge along which the state of v was made
Origin(v) == CHOOSE e \in edge : e.tgt = v /\ e.src < v

\* Is there a fresh symbol for l at the end of e? merge makes one for every
\* local, evaluate for those the instruction defines.
Renews(e, l) ==
  \/ e.type = "generalization"
  \/ /\ e.type = "evaluation"
     /\ \E k \in DOMAIN Inst[st[e.src].pc].next :
          /\ Inst[st[e.src].pc].next[k] = st[e.tgt].pc
          /\ l \in Defined(st[e.src].pc, k)

\* LVi: the symbol of each local in the state of v
LV[v \in Vertex] ==
  [l \in st[v].dom |->
     IF Renews(Origin(v), l) THEN <<l, v>> ELSE LV[Origin(v).src][l]]

\* computeMu: the target's symbols take the values of the source's
Mu(e) ==
  IF e.type = "generalization"
    THEN [s \in {LV[e.tgt][l] : l \in st[e.tgt].dom} |-> LV[e.src][s[1]]]
    ELSE <<>>

\* The rule src(v0, ..., vn) -> tgt(mu(v0), ..., mu(vn)) [ FO of src ], in which
\* every symbol outside the domain of mu stands for itself on the right as well.
Rule(e) == [src |-> e.src, tgt |-> e.tgt, mu |-> Mu(e)]

\* Utils::reduce drops a rule whose condition FO is unsatisfiable.
Satisfiable(s) == Implied[FO(s)] # Pred

\* toKITTEL opens the file, if it can.
ToKITTEL ==
  /\ phase = "simplifySEG" /\ calls = <<>>
  /\ phase' \in {"toKITTEL", "unopened"}
  /\ UNCHANGED <<segVars, calls, copied, dest, kittel>>

\* The file is being written and e is the next edge. One order stands for that
\* of edges(seg): it decides only which rules are there when the process exits.
Writing == phase = "toKITTEL" /\ status = "running"

Left == dest \ written

IsNext(e) ==
  \A f \in Left : e.src < f.src \/ (e.src = f.src /\ e.tgt <= f.tgt)

\* A toKITTEL that skips the edges to an end.
WriteRulesSkippingEnds ==
  /\ Writing
  /\ \E e \in Left :
       /\ IsNext(e)
       /\ written' = written \cup {e}
       /\ rules' = rules \cup {Rule(f) : f \in {e} \cap
                      {d \in dest : st[d.tgt] # NULL /\ Satisfiable(st[d.src])}}
  /\ UNCHANGED <<segVars, phase, calls, copied, dest>>

\* One turn of the loop of toKITTEL
WriteRules ==
  /\ Writing
  /\ \E e \in Left :
       /\ IsNext(e)
       /\ written' = written \cup {e}
       /\ rules' = IF Satisfiable(st[e.src]) THEN rules \cup {Rule(e)} ELSE rules
  /\ UNCHANGED <<segVars, phase, calls, copied, dest>>

\* The solver answers unknown when reduce asks for the next edge. The rules of
\* the edges before it are in the file, each line was flushed.
ExitInReduce ==
  /\ Writing /\ Left # {}
  /\ status' = "exited"
  /\ UNCHANGED <<st, visited, edge, path, phase, calls, copied, dest, kittel>>

CloseFile ==
  /\ Writing /\ Left = {}
  /\ phase' = "done"
  /\ UNCHANGED <<segVars, calls, copied, dest, kittel>>

ManagerNext ==
  \/ ConstructSEG \/ SimplifySEG \/ DfsChild \/ DfsReturn
  \/ ToKITTEL \/ WriteRules \/ ExitInReduce \/ CloseFile

ManagerSpec ==
  ManagerInit /\ [][ManagerNext]_vars /\ WF_vars(ManagerNext)
-----------------------------------------------------------------------------
ManagerTypeOK ==
  /\ TypeOK
  /\ phase \in {"constructSEG", "simplifySEG", "toKITTEL", "done", "unopened"}
  /\ calls \in Seq(Vertex)
  /\ copied \subseteq Vertex
  /\ dest \subseteq edge
  /\ written \subseteq dest
  /\ rules \subseteq {Rule(e) : e \in written}

(***************************************************************************)
(* What main hands to KITTeL stands for every run of the program: each     *)
(* vertex of the simplified graph is justified by edges of that graph. A   *)
(* vertex that was abandoned by a merge, or never expanded, has none, and  *)
(* would read as a state in which the program stops.                       *)
(***************************************************************************)
DeliveredJustified ==
  phase = "done" =>
    /\ Entry \in copied
    /\ \A v \in copied : Justified(v, dest)
    /\ \A e \in dest : e.tgt \in copied

(***************************************************************************)
(* When the file is complete, every vertex that stands for some state of   *)
(* the program has a rule that rewrites it, so that KITTeL cannot take it  *)
(* for a normal form, unless main has returned there. A file that was left *)
(* by an exit has no such rules, and only the exit status tells.           *)
(***************************************************************************)
NoSpuriousNormalForm ==
  phase = "done" =>
    \A v \in copied :
      st[v] # NULL /\ Satisfiable(st[v]) => \E r \in rules : r.src = v

(***************************************************************************)
(* main gets to its end or exits.                                          *)
(***************************************************************************)
EventuallyDelivered ==
  <>(phase \in {"done", "unopened"} \/ status = "exited")
=============================================================================
