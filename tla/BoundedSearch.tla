---------------------------- MODULE BoundedSearch ----------------------------
(***************************************************************************)
(* The depth-first search over the blocks of main with bounded unrolling,  *)
(* the "naive" analysis of the reachability verifier: visitNode            *)
(* (src/src/DFS/GenericDFS.h) with NaiveAdvisor                            *)
(* (src/src/DFS/Advisor/NaiveAdvisor.cpp) as its advisor. The recursion of *)
(* visitNode is a stack: the path and, for every depth, the choices still  *)
(* to visit. A visit with dfsVisit and dfsNext is one action, a return     *)
(* with dfsBackward another.                                               *)
(***************************************************************************)
EXTENDS Integers, Sequences, FiniteSets

CONSTANTS
  Loc,              \* basic blocks of main, after inlining
  Entry,            \* the entry block
  Target,           \* blocks with the label of an error
  AssumeFail,       \* blocks with the label of a failed assumption
  InlineLimit,      \* blocks that stand for a call that was not inlined
  Succ,             \* successors of a block, in the order of its terminator
  Satisfiable(_),   \* the formula path2SMTM makes of a path has a model
  LoopUnrollDepth,  \* m_loopUnrollDepth
  MayFail,          \* the translator may throw, the solver not answer
  Guess             \* verdicts taken from what the translator throws

ASSUME SearchAssumption ==
  /\ Entry \in Loc /\ Entry \notin AssumeFail
  /\ Target \subseteq Loc /\ AssumeFail \subseteq Loc /\ InlineLimit \subseteq Loc
  /\ Target \cap InlineLimit = {}
  /\ Succ \in [Loc -> Seq(Loc)]
  /\ LoopUnrollDepth \in Nat /\ LoopUnrollDepth >= 2
  /\ MayFail \in BOOLEAN /\ Guess \subseteq {"SAFE", "UNSAFE"}

VARIABLES
  path,       \* currentPath
  todo,       \* todo[k]: what visitNode has still to visit at depth k
  visited,    \* m_visited
  loopHeads,  \* m_loopHeads, how often a block visited before was entered
  result,     \* the verdict so far
  mode,       \* "search", "done", or "aborted" by an exception
  tree        \* every path visited so far; nothing in the code depends on it

vars == <<path, todo, visited, loopHeads, result, mode, tree>>

\* a sequence with its last element removed
Pop(s) == SubSeq(s, 1, Len(s) - 1)

\* The block visitNode is called with next, and the path it leads to.
Visiting == mode = "search" /\ todo[Len(todo)] # <<>>
Block    == Head(todo[Len(todo)])
Extended == Append(path, Block)
-----------------------------------------------------------------------------
\* dfsVisit: a block is counted from its second visit on, or from the time a
\* comparison put it into the map
Counted ==
  IF Block \in DOMAIN loopHeads
    THEN [loopHeads EXCEPT ![Block] = @ + 1]
  ELSE IF Block \in visited
    THEN [l \in DOMAIN loopHeads \cup {Block} |->
           IF l = Block THEN 1 ELSE loopHeads[l]]
  ELSE loopHeads

\* An unrolling limit that is passed by one.
LimitPassed ==
  Block \in DOMAIN loopHeads /\ loopHeads[Block] > LoopUnrollDepth

\* "reached unrolling max"
LimitReached ==
  Block \in DOMAIN loopHeads /\ loopHeads[Block] + 1 >= LoopUnrollDepth

(***************************************************************************)
(* The places in the terminator of the successors dfsVisit goes on to, and *)
(* the ways to list some places.                                           *)
(***************************************************************************)
Choices ==
  {k \in DOMAIN Succ[Block] : Succ[Block][k] \notin AssumeFail}

Listings(P) ==
  {g \in [1 .. Cardinality(P) -> P] :
     \A p \in P : \E i \in 1 .. Cardinality(P) : g[i] = p}

\* m_loopHeads[a] < m_loopHeads[b] inserts the blocks it is asked for.
Compared(heads) ==
  IF Cardinality(Choices) < 2 THEN heads
  ELSE [l \in DOMAIN heads \cup {Succ[Block][k] : k \in Choices} |->
         IF l \in DOMAIN heads THEN heads[l] ELSE 0]

\* std::sort: any order of the choices in which the counters do not descend
Sorted(heads) ==
  {[i \in 1 .. Cardinality(Choices) |-> Succ[Block][g[i]]] :
     g \in {g \in Listings(Choices) :
              \A i, j \in 1 .. Cardinality(Choices) :
                i < j /\ Cardinality(Choices) > 1 =>
                  heads[Succ[Block][g[i]]] <= heads[Succ[Block][g[j]]]}}

\* The ways to list numbers in ascending order: there is one.
Ascending(P) ==
  {g \in Listings(P) : \A i, j \in DOMAIN g : i < j => g[i] < g[j]}

\* the places of the choices whose path is refuted
Refuted(p, c) == {i \in DOMAIN c : ~Satisfiable(Append(p, c[i]))}

Kept(c, f) == [k \in DOMAIN f |-> c[f[k]]]

Rest(c, j, n) == IF j \in DOMAIN c THEN SubSeq(c, n + 1, Len(c)) ELSE <<>>

(***************************************************************************)
(* What remove_if has made of the choices when it is done, or interrupted, *)
(* before the j-th, removing those at the places R: the choices kept so    *)
(* far and, when interrupted, what stands behind their places.             *)
(***************************************************************************)
RemovedBefore(c, j, R) ==
  {Kept(c, f) \o Rest(c, j, Len(f)) : f \in Ascending((1 .. j - 1) \ R)}

\* A filter that takes a query that was not answered for a refutation.
FilteredUnlessProved(p, c) ==
  LET sat == DOMAIN c \ Refuted(p, c) IN
  {Kept(c, f) :
     f \in UNION {Ascending(P) : P \in IF MayFail THEN SUBSET sat ELSE {sat}}}

(***************************************************************************)
(* remove_if: of several choices those are removed whose path is refuted.  *)
(* An exception at the j-th query leaves the vector as it is then.         *)
(***************************************************************************)
Filtered(p, c) ==
  IF Len(c) < 2 THEN {c}
  ELSE IF MayFail THEN UNION {RemovedBefore(c, j, R) : j \in 1 .. Len(c) + 1,
                                                      R \in SUBSET Refuted(p, c)}
  ELSE RemovedBefore(c, Len(c) + 1, Refuted(p, c))
-----------------------------------------------------------------------------
Init ==
  /\ path = <<>> /\ todo = << <<Entry>> >>
  /\ visited = {} /\ loopHeads = << >>
  /\ result = "NULL" /\ mode = "search"
  /\ tree = {}

\* visitNode is called with the next choice, whose own choices are next.
Enter(next) ==
  /\ path' = Extended
  /\ todo' = Append([todo EXCEPT ![Len(todo)] = Tail(@)], next)
  /\ visited' = IF Block \in DOMAIN loopHeads THEN visited
                ELSE visited \cup {Block}
  /\ tree' = tree \cup {Extended}

\* NP_CONTINUE_NONDETERMINED_ADVICE without choices
LeaveUndecided ==
  /\ Enter(<<>>)
  /\ loopHeads' = Counted
  /\ result' = "UNKNOWN"
  /\ UNCHANGED mode

CutOff ==
  /\ Visiting /\ LimitReached
  /\ LeaveUndecided

GiveUp ==
  /\ Visiting /\ ~LimitReached
  /\ Block \in InlineLimit
  /\ LeaveUndecided

AtError == Visiting /\ ~LimitReached /\ Block \in Target

\* the translator throws, or checkSat answers unknown
UndecidedError ==
  /\ AtError
  /\ MayFail
  /\ LeaveUndecided

\* NP_BREAK_UNSAFE, NP_BREAK_SAFE
Break(verdict) ==
  /\ Enter(<<>>)
  /\ loopHeads' = Counted
  /\ result' = verdict
  /\ mode' = "done"

\* An error path that could not be decided reported as an error.
FindErrorUnproved ==
  /\ AtError
  /\ Satisfiable(Extended) \/ MayFail
  /\ Break("UNSAFE")

FindError ==
  /\ AtError
  /\ Satisfiable(Extended)
  /\ Break("UNSAFE")

\* A verdict by the name of an instruction the translator does not support.
GuessVerdict ==
  /\ AtError
  /\ \E verdict \in Guess : Break(verdict)

\* NP_CONTINUE_DETERMINED_ADVICE: not an error, or one that is not reached here
Explore ==
  /\ Visiting /\ ~LimitReached
  /\ Block \notin InlineLimit
  /\ Block \in Target => ~Satisfiable(Extended)
  /\ LET heads == Compared(Counted) IN
     /\ \E c \in Sorted(heads) :
          \E next \in Filtered(Extended, c) : Enter(next)
     /\ loopHeads' = heads
  /\ UNCHANGED <<result, mode>>

\* z3 cannot be started, or reports an error at the query for an error block
Abort ==
  /\ Visiting /\ ~LimitReached
  /\ MayFail
  /\ \/ Block \in Target
     \/ Block \notin InlineLimit /\ Cardinality(Choices) > 1
  /\ mode' = "aborted"
  /\ UNCHANGED <<path, todo, visited, loopHeads, result, tree>>

\* A return that does not take the visit back from the counter.
BacktrackCounting ==
  /\ mode = "search" /\ path # <<>> /\ todo[Len(todo)] = <<>>
  /\ path' = Pop(path) /\ todo' = Pop(todo)
  /\ UNCHANGED <<visited, loopHeads, result, mode, tree>>

\* A return that leaves the block on the path.
BacktrackKeepingPath ==
  /\ mode = "search" /\ path # <<>> /\ todo[Len(todo)] = <<>>
  /\ loopHeads' = [l \in DOMAIN loopHeads |->
                    IF l = path[Len(path)] THEN loopHeads[l] - 1 ELSE loopHeads[l]]
  /\ todo' = Pop(todo)
  /\ UNCHANGED <<path, visited, result, mode, tree>>

\* A return with BP_FORBIDDEN: the block is visited again.
BacktrackForbidden ==
  /\ mode = "search" /\ path # <<>> /\ todo[Len(todo)] = <<>>
  /\ loopHeads' = [l \in DOMAIN loopHeads |->
                    IF l = path[Len(path)] THEN loopHeads[l] - 1 ELSE loopHeads[l]]
  /\ path' = Pop(path)
  /\ todo' = [Pop(todo) EXCEPT ![Len(path)] = <<path[Len(path)]>> \o @]
  /\ UNCHANGED <<visited, result, mode, tree>>

\* visitNode returns: dfsBackward
Backtrack ==
  /\ mode = "search" /\ path # <<>> /\ todo[Len(todo)] = <<>>
  /\ loopHeads' = [l \in DOMAIN loopHeads |->
                    IF l = path[Len(path)] THEN loopHeads[l] - 1 ELSE loopHeads[l]]
  /\ path' = Pop(path) /\ todo' = Pop(todo)
  /\ UNCHANGED <<visited, result, mode, tree>>

\* visit
Finish ==
  /\ mode = "search" /\ path = <<>> /\ todo[1] = <<>>
  /\ result' = IF result = "NULL" THEN "SAFE" ELSE result
  /\ mode' = "done"
  /\ UNCHANGED <<path, todo, visited, loopHeads, tree>>

Next ==
  \/ CutOff \/ GiveUp \/ UndecidedError \/ FindError \/ GuessVerdict
  \/ Explore \/ Abort \/ Backtrack \/ Finish

Spec == Init /\ [][Next]_vars /\ WF_vars(Next)
-----------------------------------------------------------------------------
\* how often a block is on the path
Occurrences(l) == Cardinality({i \in DOMAIN path : path[i] = l})

TypeOK ==
  /\ path \in Seq(Loc)
  /\ todo \in Seq(Seq(Loc)) /\ Len(todo) = Len(path) + 1
  /\ visited \subseteq Loc
  /\ DOMAIN loopHeads \subseteq Loc
  /\ \A l \in DOMAIN loopHeads : loopHeads[l] \in Int
  /\ result \in {"NULL", "SAFE", "UNSAFE", "UNKNOWN"}
  /\ mode \in {"search", "done", "aborted"}
  /\ tree \subseteq Seq(Loc)

(***************************************************************************)
(* A loop counter is the number of times its block is on the path, or one  *)
(* less when the block was on the path, not counted yet, as it entered the *)
(* map; a block without a counter is on the path once at most. The counter *)
(* survives any sequence of visits, comparisons and returns.               *)
(***************************************************************************)
CountersFollowPath ==
  \A l \in Loc :
    IF l \in DOMAIN loopHeads
      THEN loopHeads[l] \in {Occurrences(l) - 1, Occurrences(l)}
      ELSE Occurrences(l) \in {0, IF l \in visited THEN 1 ELSE 0}

(***************************************************************************)
(* The recursion of visitNode is bounded: no path has a block more than    *)
(* once beyond the unrolling limit.                                        *)
(***************************************************************************)
UnrollingBounded == \A l \in Loc : Occurrences(l) <= LoopUnrollDepth + 1

Last(p) == p[Len(p)]

(***************************************************************************)
(* SAFE is the verdict of a whole search: every path of the program that   *)
(* extends a visited one, that has a model and does not fail an assumption *)
(* was visited, and no visited path reaches an error or a call that was    *)
(* not inlined. Nothing that was cut off, undecided or removed by mistake  *)
(* hides behind it.                                                        *)
(***************************************************************************)
SafeIsSearched ==
  mode = "done" /\ result = "SAFE" /\ "SAFE" \notin Guess =>
    /\ <<Entry>> \in tree
    /\ \A p \in tree :
         /\ Last(p) \in Target => ~Satisfiable(p)
         /\ Last(p) \notin InlineLimit
         /\ \A k \in DOMAIN Succ[Last(p)] :
              LET l == Succ[Last(p)][k] IN
              l \notin AssumeFail /\ Satisfiable(Append(p, l)) =>
                Append(p, l) \in tree

(***************************************************************************)
(* UNSAFE is the verdict on a path of the program from the entry to an     *)
(* error that has a model, whatever was left undecided before.             *)
(***************************************************************************)
UnsafeIsReal ==
  result = "UNSAFE" /\ "UNSAFE" \notin Guess =>
    /\ path[1] = Entry /\ Last(path) \in Target /\ Satisfiable(path)
    /\ \A i \in 1 .. Len(path) - 1 :
         \E k \in DOMAIN Succ[path[i]] : Succ[path[i]][k] = path[i + 1]

(***************************************************************************)
(* The search ends, whatever loops the program has.                        *)
(***************************************************************************)
EventuallyDone == <>(mode # "search")
=============================================================================
