------------------------------- MODULE CEGAR -------------------------------
(***************************************************************************)
(* Predicate abstraction with counterexample-guided refinement, the        *)
(* "absref" analysis of the reachability verifier: CEGAR::visit            *)
(* (src/src/DFS/CEGAR.cpp), the abstract reachability graph it expands     *)
(* (src/include/ARG.h, src/src/DFS/Absref) and the precision it refines.   *)
(* The program is given by its blocks and, for every edge between blocks,  *)
(* the pairs of valuations before and after it. A predicate is the set of  *)
(* valuations that satisfy it.                                             *)
(***************************************************************************)
EXTENDS Naturals, Sequences

CONSTANTS
  Loc,       \* basic blocks of main
  Entry,     \* the entry block
  Target,    \* the blocks whose name contains ERROR
  Succ,      \* successors of a block, in the order of its br
  PhiLoc,    \* blocks that begin with a phi node
  NoLoc,     \* the phi selector of a block that does not (-1 in the code)
  Val,       \* valuations of the program's variables
  Step,      \* Step[<<phi selector, block, successor>>]: pairs of valuations
  Pred,      \* predicates the interpolation procedure may return
  Sound,     \* AbstractState::sound, set when the loop context matched
  MayFail,   \* the solver may answer unknown
  MaxNodes,  \* bound of the model: no state is added beyond it
  RunLength  \* the blocks of the longest run that SafeIsSafe speaks of

Selector == Loc \cup {NoLoc}

ASSUME ProgramAssumption ==
  /\ Entry \in Loc /\ Entry \notin Target
  /\ Target \subseteq Loc /\ PhiLoc \subseteq Loc /\ NoLoc \notin Loc
  /\ Succ \in [Loc -> Seq(Loc)]
  /\ Val # {}
  /\ Step \in [Selector \X Loc \X Loc -> SUBSET (Val \X Val)]
  /\ Pred \subseteq SUBSET Val
  /\ Sound \in BOOLEAN /\ MayFail \in BOOLEAN
  /\ MaxNodes \in Nat \ {0}
  /\ RunLength \in Nat

VARIABLES
  node,       \* the states reached, each with its path along parentMap
  waitList,   \* the states still to expand
  cur, todo,  \* the state being expanded and its successors still to handle
  prec,       \* the predicates tracked at each block (locationPrecMap)
  path,       \* the path the last expansion found to a target
  errorPath,  \* the one found before it
  rest, phi,  \* refine: the part of path still to walk, the last interpolant
  unknown,    \* unknownErrorPathFound
  mode        \* what visit is doing, or how it ended

vars == <<node, waitList, cur, todo, prec, path, errorPath, rest, phi,
          unknown, mode>>

Modes == {"expand", "found", "refine", "SAFE", "UNSAFE", "UNKNOWN",
          "refine failed", "aborted", "hung"}

\* A literal of an abstract state: a predicate or its negation.
Literal == [pred : SUBSET Val, pos : BOOLEAN]

Holds(x) == IF x.pos THEN x.pred ELSE Val \ x.pred

AbstractState == [loc : Loc, sel : Selector, lits : SUBSET Literal]

Start == [loc |-> Entry, sel |-> NoLoc, lits |-> {}, path |-> <<Entry>>]
-----------------------------------------------------------------------------
\* getSuccessorsWithPhiSelector
PhiSelector(from, l) == IF l \in PhiLoc THEN from ELSE NoLoc

Image(V, sel, l, m) ==
  UNION {{w \in Val : <<v, w>> \in Step[<<sel, l, m>>]} : v \in V}

\* What the solver is told of a state: only literals over predicates of the
\* precision of its block are tied to their meaning.
Gamma(s) == {v \in Val : \A x \in s.lits : x.pred \in prec[s.loc] => v \in Holds(x)}

Post(s, m) == Image(Gamma(s), s.sel, s.loc, m)

\* The predicates asked for at a successor: the block's own, or failing any
\* those of the block it is reached from.
EndPrecision(s, m) == IF prec[m] = {} THEN prec[s.loc] ELSE prec[m]

\* A query that was not answered taken for a proof.
KnownUnlessRefuted(V, P) ==
  {x \in [pred : P, pos : BOOLEAN] : V \subseteq Holds(x) \/ MayFail}

Known(V, P) == {x \in [pred : P, pos : BOOLEAN] : V \subseteq Holds(x)}

\* abstract: the literals the solver proved, of those that hold after the edge
Abstract(s, m) ==
  LET known == Known(Post(s, m), EndPrecision(s, m)) IN
  {[loc |-> m, sel |-> PhiSelector(s.loc, m), lits |-> L] :
     L \in IF MayFail THEN SUBSET known ELSE {known}}

\* An edge that cannot be taken is pruned when the solver says so.
Pruned(s, m) == Post(s, m) = {}
Kept(s, m)   == Post(s, m) # {} \/ MayFail

\* A cover with strict inclusion.
CoverStrictly(r, s) ==
  /\ r.loc = s.loc /\ r.sel = s.sel
  /\ r.lits \subseteq s.lits /\ r.lits # s.lits

\* A cover that does not compare the phi selectors.
CoverIgnoringPhi(r, s) == r.loc = s.loc /\ r.lits \subseteq s.lits

\* cover: the reached state r stands for s
Cover(r, s) ==
  /\ r.loc = s.loc
  /\ r.sel = s.sel
  /\ IF Sound THEN r.lits \subseteq s.lits ELSE s.lits \subseteq r.lits

Stop(s) == \E i \in DOMAIN node : Cover(node[i], s)
-----------------------------------------------------------------------------
\* The phi selector of the k-th block of a path.
SelectorAt(p, k) == IF k = 1 THEN NoLoc ELSE PhiSelector(p[k - 1], p[k])

\* path2SMTM: the valuations with which execution along p enters its blocks
Along(p) ==
  LET A[k \in 1 .. Len(p)] ==
        IF k = 1 THEN Val
        ELSE Image(A[k - 1], SelectorAt(p, k - 1), p[k - 1], p[k])
  IN  A

Feasible(p) == Along(p)[Len(p)] # {}
-----------------------------------------------------------------------------
Init ==
  /\ node = <<Start>> /\ waitList = <<1>>
  /\ cur = 1 /\ todo = <<>>
  /\ prec = [l \in Loc |-> {}]
  /\ path = <<>> /\ errorPath = <<>>
  /\ rest = <<>> /\ phi = {}
  /\ unknown = FALSE
  /\ mode = "expand"

\* expand: chooseAndRemove takes the newest state
Choose ==
  /\ mode = "expand" /\ todo = <<>> /\ waitList # <<>>
  /\ cur' = waitList[Len(waitList)]
  /\ waitList' = SubSeq(waitList, 1, Len(waitList) - 1)
  /\ todo' = Succ[node[cur'].loc]
  /\ UNCHANGED <<node, prec, path, errorPath, rest, phi, unknown, mode>>

\* The next successor of the state being expanded.
Expanding == mode = "expand" /\ todo # <<>> /\ Len(node) < MaxNodes

Prune ==
  /\ Expanding
  /\ Pruned(node[cur], Head(todo))
  /\ todo' = Tail(todo)
  /\ UNCHANGED <<node, waitList, cur, prec, path, errorPath, rest, phi,
                 unknown, mode>>

\* stop: the successor is covered
LeaveOut ==
  /\ Expanding
  /\ Kept(node[cur], Head(todo))
  /\ Head(todo) \notin Target
  /\ \E s \in Abstract(node[cur], Head(todo)) : Stop(s)
  /\ todo' = Tail(todo)
  /\ UNCHANGED <<node, waitList, cur, prec, path, errorPath, rest, phi,
                 unknown, mode>>

\* add: to parentMap and locationMap, and to the wait list
Add(s) ==
  /\ node' = Append(node, [loc |-> s.loc, sel |-> s.sel, lits |-> s.lits,
                           path |-> Append(node[cur].path, s.loc)])
  /\ waitList' = Append(waitList, Len(node) + 1)

AddState ==
  /\ Expanding
  /\ Kept(node[cur], Head(todo))
  /\ Head(todo) \notin Target
  /\ \E s \in Abstract(node[cur], Head(todo)) : ~Stop(s) /\ Add(s)
  /\ todo' = Tail(todo)
  /\ UNCHANGED <<cur, prec, path, errorPath, rest, phi, unknown, mode>>

\* targetHook: expand returns at the first target. getPath of a covered target,
\* which has no parent, does not end.
FindTarget ==
  /\ Expanding
  /\ Kept(node[cur], Head(todo))
  /\ Head(todo) \in Target
  /\ \E s \in Abstract(node[cur], Head(todo)) :
       \/ /\ ~Stop(s) /\ Add(s)
          /\ path' = Append(node[cur].path, s.loc)
          /\ mode' = "found"
       \/ /\ Stop(s) /\ mode' = "hung"
          /\ UNCHANGED <<node, waitList, path>>
  /\ todo' = <<>>
  /\ UNCHANGED <<cur, prec, errorPath, rest, phi, unknown>>

\* reportSafe: nothing is left to expand
ReportSafe ==
  /\ mode = "expand" /\ todo = <<>> /\ waitList = <<>>
  /\ mode' = IF unknown THEN "UNKNOWN" ELSE "SAFE"
  /\ UNCHANGED <<node, waitList, cur, todo, prec, path, errorPath, rest, phi,
                 unknown>>

\* isNewPath fails
RefineFailed ==
  /\ mode = "found" /\ path = errorPath
  /\ mode' = "refine failed"
  /\ UNCHANGED <<node, waitList, cur, todo, prec, path, errorPath, rest, phi,
                 unknown>>

\* A path that could not be decided reported as an error.
ReportUndecided ==
  /\ mode = "found" /\ path # errorPath
  /\ Feasible(path) \/ MayFail
  /\ errorPath' = path
  /\ mode' = "UNSAFE"
  /\ UNCHANGED <<node, waitList, cur, todo, prec, path, rest, phi, unknown>>

\* reportError: isFeasible had a model of the path
ReportError ==
  /\ mode = "found" /\ path # errorPath
  /\ Feasible(path)
  /\ errorPath' = path
  /\ mode' = "UNSAFE"
  /\ UNCHANGED <<node, waitList, cur, todo, prec, path, rest, phi, unknown>>

(***************************************************************************)
(* isFeasible is false, of an infeasible path or for want of an answer,    *)
(* and refine restricts the path to a part that was found satisfiable and  *)
(* the block after it. A path of one block is true for every solver.       *)
(***************************************************************************)
StartRefine ==
  /\ mode = "found" /\ path # errorPath
  /\ ~Feasible(path) \/ MayFail
  /\ errorPath' = path
  /\ \/ ~Feasible(path) /\ unknown' = unknown
     \/ MayFail /\ unknown' = TRUE
  /\ \E n \in 1 .. Len(path) - 1 :
       /\ Along(path)[n] # {}
       /\ MayFail \/ \A k \in n + 1 .. Len(path) - 1 : Along(path)[k] = {}
       /\ rest' = SubSeq(path, 1, n + 1)
  /\ phi' = {}
  /\ mode' = "refine"
  /\ UNCHANGED <<node, waitList, cur, todo, prec, path>>

\* One turn of refine's loop is about the last edge of rest: the valuations
\* with which the path enters it and those with which it can only meet phi.
LastEdge == Len(rest) - 1
Before == {v \in Val : v \in Along(rest)[LastEdge]}
MeetsPhi ==
  {v \in Val : Image({v}, SelectorAt(rest, LastEdge), rest[LastEdge],
                     rest[LastEdge + 1]) \subseteq phi}

\* An interpolant tracked one block too late.
AddPredicateLate(I) ==
  /\ prec' = [prec EXCEPT ![rest[LastEdge + 1]] = @ \cup {I}]
  /\ phi' = I
  /\ rest' = SubSeq(rest, 1, LastEdge)

\* p.add, addPrecision
AddPredicate(I) ==
  /\ prec' = [prec EXCEPT ![rest[LastEdge]] = @ \cup {I}]
  /\ phi' = I
  /\ rest' = SubSeq(rest, 1, LastEdge)

\* the interpolant, or what the path says (e1) when the procedure fails
Interpolate ==
  /\ mode = "refine" /\ Len(rest) > 1
  /\ Before \subseteq MeetsPhi
  /\ \E I \in Pred \cup {Before} :
       Before \subseteq I /\ I \subseteq MeetsPhi /\ AddPredicate(I)
  /\ UNCHANGED <<node, waitList, cur, todo, path, errorPath, unknown, mode>>

\* "interpolant must be unsat formula": the assertion fails, or without
\* assertions the interpolation does and e1 is the predicate.
NoInterpolant ==
  /\ mode = "refine" /\ Len(rest) > 1
  /\ ~(Before \subseteq MeetsPhi) \/ MayFail
  /\ \/ mode' = "aborted" /\ UNCHANGED <<prec, phi, rest>>
     \/ AddPredicate(Before) /\ UNCHANGED mode
  /\ UNCHANGED <<node, waitList, cur, todo, path, errorPath, unknown>>

\* A restart that keeps the wait list.
RestartKeepingWaitList ==
  /\ mode = "refine" /\ Len(rest) = 1
  /\ node' = <<Start>>
  /\ cur' = 1 /\ todo' = <<>>
  /\ mode' = "expand"
  /\ UNCHANGED <<waitList, prec, path, errorPath, rest, phi, unknown>>

\* visit starts over, with the new precision
Restart ==
  /\ mode = "refine" /\ Len(rest) = 1
  /\ node' = <<Start>> /\ waitList' = <<1>>
  /\ cur' = 1 /\ todo' = <<>>
  /\ mode' = "expand"
  /\ UNCHANGED <<prec, path, errorPath, rest, phi, unknown>>

Next ==
  \/ Choose \/ Prune \/ LeaveOut \/ AddState \/ FindTarget \/ ReportSafe
  \/ RefineFailed \/ ReportError \/ StartRefine \/ Interpolate
  \/ NoInterpolant \/ Restart

Spec == Init /\ [][Next]_vars /\ WF_vars(Next)
-----------------------------------------------------------------------------
Reached == [loc : Loc, sel : Selector, lits : SUBSET Literal, path : Seq(Loc)]

TypeOK ==
  /\ node \in Seq(Reached) /\ node # <<>>
  /\ waitList \in Seq(DOMAIN node)
  /\ cur \in DOMAIN node /\ todo \in Seq(Loc)
  /\ prec \in [Loc -> SUBSET SUBSET Val]
  /\ path \in Seq(Loc) /\ errorPath \in Seq(Loc)
  /\ rest \in Seq(Loc) /\ phi \in SUBSET Val
  /\ unknown \in BOOLEAN
  /\ mode \in Modes

(***************************************************************************)
(* SAFE rests on an inductive invariant: the reached states contain every  *)
(* valuation at the entry, none is at a target, and a step of the program  *)
(* from a reached state leads into a reached state. States that were left  *)
(* out as covered and edges that were pruned must not be missing.          *)
(***************************************************************************)
SafeIsInductive ==
  mode = "SAFE" =>
    /\ \E i \in DOMAIN node :
         node[i].loc = Entry /\ node[i].sel = NoLoc /\ Gamma(node[i]) = Val
    /\ \A i \in DOMAIN node :
         /\ node[i].loc \notin Target
         /\ \A k \in DOMAIN Succ[node[i].loc] :
              LET m == Succ[node[i].loc][k] IN
              \A w \in Post(node[i], m) :
                \E j \in DOMAIN node :
                  /\ node[j].loc = m
                  /\ node[j].sel = PhiSelector(node[i].loc, m)
                  /\ w \in Gamma(node[j])

\* The program itself: a block, the phi selector with which it was entered and
\* the valuation there. After[n]: what a run can be when it enters its n-th block.
Config == [loc : Loc, sel : Selector, val : Val]

ProgramStep(c, d) ==
  /\ \E k \in DOMAIN Succ[c.loc] : d.loc = Succ[c.loc][k]
  /\ d.sel = PhiSelector(c.loc, d.loc)
  /\ <<c.val, d.val>> \in Step[<<c.sel, c.loc, d.loc>>]

After[n \in 1 .. RunLength] ==
  IF n = 1 THEN {c \in Config : c.loc = Entry /\ c.sel = NoLoc}
  ELSE {d \in Config : \E c \in After[n - 1] : ProgramStep(c, d)}

(***************************************************************************)
(* The SAFE verdict of visit: no run of the program enters a target.       *)
(***************************************************************************)
SafeIsSafe ==
  mode = "SAFE" =>
    \A n \in 1 .. RunLength : \A c \in After[n] : c.loc \notin Target

Weaker(r, s) == r.loc = s.loc /\ r.sel = s.sel /\ r.lits \subseteq s.lits

(***************************************************************************)
(* A successor is left out only for a reached state that asserts no more   *)
(* than it does: "s2.cover(s1)" of test_abstract_state.cpp, where s2 is    *)
(* {1} and s1 is {1, 2}, and never the other way round.                    *)
(***************************************************************************)
LeftOutForWeaker ==
  Expanding /\ Kept(node[cur], Head(todo)) =>
    \A s \in Abstract(node[cur], Head(todo)) :
      Stop(s) => \E i \in DOMAIN node : Weaker(node[i], s)

\* x are the valuations with which a run along the path p enters its blocks.
IsRun(p, x) ==
  \A k \in 1 .. Len(p) - 1 :
    /\ \E j \in DOMAIN Succ[p[k]] : p[k + 1] = Succ[p[k]][j]
    /\ <<x[k], x[k + 1]>> \in Step[<<SelectorAt(p, k), p[k], p[k + 1]>>]

(***************************************************************************)
(* The UNSAFE verdict shows a run of the program: there are valuations     *)
(* with which it goes along errorPath from the entry to a target.          *)
(***************************************************************************)
UnsafeIsReal ==
  mode = "UNSAFE" =>
    /\ errorPath[1] = Entry /\ errorPath[Len(errorPath)] \in Target
    /\ \E x \in [1 .. Len(errorPath) -> Val] : IsRun(errorPath, x)

(***************************************************************************)
(* Every refinement excludes the path it was made for: with a solver that  *)
(* always answers, the assertion on interpolants holds and isNewPath never *)
(* fails, so that visit does not give up on a program it could refine.     *)
(* No target is covered, whatever the solver does, so that getPath ends.   *)
(***************************************************************************)
RefinementExcludesPath ==
  /\ mode # "hung"
  /\ ~MayFail => mode \notin {"refine failed", "aborted"}

(***************************************************************************)
(* With a solver that always answers, visit reaches a verdict: the graph   *)
(* of each round is finite and the rounds end.                             *)
(***************************************************************************)
EventuallyDecided == <>(mode \in {"SAFE", "UNSAFE", "UNKNOWN"})
=============================================================================
