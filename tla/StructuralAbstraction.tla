------------------------ MODULE StructuralAbstraction ------------------------
(***************************************************************************)
(* The structural abstraction of a file (src/src/StructuralAbstraction/    *)
(* SAManager.cpp, MSGManager.cpp and MSG.cpp). SAManager finds the calls   *)
(* that lead to the error, makes nodes of the conditions they stand under, *)
(* and, for every declaration of a variable of these conditions, a node of *)
(* its initial value and a verification condition, vc. With each vc the    *)
(* loop of MSGManager writes every vc as a formula and asks the solver. A  *)
(* node is here one that is not a leaf: a condition with its negation, an  *)
(* initial value, or an AND. No analysis makes a summary node, so refine   *)
(* finds nothing to refine.                                                *)
(***************************************************************************)
EXTENDS Integers, Sequences, SequencesExt

CONSTANTS
  Fact,        \* what nodes assert
  Uses,        \* the calls of every function that leads to the error, each with
               \* the function it is in and the conditions it stands under
  Error,       \* the function __VERIFIER_error
  Main,        \* the function main
  Declared,    \* the initial values of the variable's declarations
  Conflict,    \* the pairs of facts that contradict each other
  And          \* the fact of a node that is an AND

Function == DOMAIN Uses

\* No function calls itself, not even through others: it stands deeper than the
\* functions it is called from.
ASSUME StructuralAssumption ==
  /\ Error \in Function /\ IsFiniteSet(Function)
  /\ Uses \in [Function -> Seq([caller : Function, conds : Seq(Fact)])]
  /\ \E depth \in [Function -> 0 .. Cardinality(Function)] :
       \A f \in Function : \A i \in DOMAIN Uses[f] : depth[Uses[f][i].caller] < depth[f]
  /\ Declared \in Seq(Fact) /\ And \in Fact

VARIABLES
  msg,                 \* the nodes: what each asserts, and its operands
  parts,               \* m_msgConstructionFunctions: the nodes of each call
  vcs,                 \* vcNodes
  hasTransformed,      \* the nodes that were written in a formula
  vcFormulas,          \* for every vc the nodes its formula defines
  iter,                \* the formula that is asked about
  verificationResult,
  declared,            \* how many declarations were found
  unanswered,          \* the formulas of this loop the solver did not decide
  at                   \* what SAManager is doing

vcvars == <<msg, parts, vcs, declared>>
loopvars == <<hasTransformed, vcFormulas, iter, verificationResult, unanswered>>
structural == <<vcvars, loopvars, at>>

Node(fact, kids) == [fact |-> fact, kids |-> kids]

\* visitFunction: the functions that lead to a call of f, one entry for every
\* way. It does not end for a function that calls itself.
Names(f) ==
  LET names[h \in Function] ==
        <<h>> \o FlattenSeq([i \in DOMAIN Uses[h] |-> names[Uses[h][i].caller]])
  IN names[f]

\* The calls in the order in which matchFunctionCall finds them
Traces == FlattenSeq([i \in DOMAIN Names(Error) |-> Uses[Names(Error)[i]]])

\* The nodes of m below a node. An operand has a smaller index.
Below(m, n) ==
  LET below[k \in DOMAIN m] == {k} \cup UNION {below[j] : j \in m[k].kids}
  IN below[n]

\* The definitions of nodes S, with their root set to true, are contradictory.
Unsat(S) == \E pair \in Conflict : pair \subseteq {msg[n].fact : n \in S}

\* SAManager of a new file
Fresh ==
  /\ msg = <<>> /\ parts = <<>> /\ vcs = <<>> /\ declared = 0
  /\ hasTransformed = {} /\ vcFormulas = <<>> /\ iter = 0
  /\ verificationResult = "UNKNOWN" /\ unanswered = {}

Start ==
  /\ msg' = <<>> /\ parts' = <<>> /\ vcs' = <<>> /\ declared' = 0
  /\ hasTransformed' = {} /\ vcFormulas' = <<>> /\ iter' = 0
  /\ verificationResult' = "UNKNOWN" /\ unanswered' = {}
  /\ at' = "search"
-----------------------------------------------------------------------------
\* combineConstructionFunctions: AND of neighbours, in all calls found so far,
\* also in those that were combined before.
Combined(calls) ==
  FlattenSeq([c \in DOMAIN calls |->
    [j \in 1 .. Len(calls[c]) - 1 |-> Node(And, {calls[c][j], calls[c][j + 1]})]])

\* foundStmtTrace: a call in main completes a path to the error, and the
\* declarations of its first variable are looked for.
FoundStmtTrace ==
  /\ at = "search" /\ Len(parts) < Len(Traces)
  /\ LET call  == Traces[Len(parts) + 1]
         n     == Len(call.conds)
         conds == [i \in 1 .. n |-> Node(call.conds[i], {})]
         calls == Append(parts, [i \in 1 .. n |-> Len(msg) + i])
     IN /\ parts' = calls
        /\ msg' = msg \o conds \o (IF call.caller = Main THEN Combined(calls) ELSE <<>>)
        /\ at' = IF call.caller = Main /\ msg' # <<>> THEN "declare" ELSE "search"
  /\ declared' = 0
  /\ UNCHANGED <<vcs, loopvars>>

\* MSG2smt: a node that was written in a formula before is not written again.
\* What is below it was written with it.
MSG2smt(m, V) ==
  [k \in DOMAIN V |->
    Below(m, V[k]) \ (hasTransformed \cup UNION {Below(m, V[j]) : j \in 1 .. k - 1})]

\* foundVariableDeclaration: the vc is the initial value and the last node that
\* was added, which is for a second declaration the first one's vc. Then the
\* loop runs over all vcs.
FoundVariableDeclaration ==
  /\ at = "declare" /\ declared < Len(Declared)
  /\ declared' = declared + 1
  /\ msg' = msg \o <<Node(Declared[declared'], {}),
                    Node(And, {Len(msg) + 1, Len(msg)})>>
  /\ vcs' = Append(vcs, Len(msg) + 2)
  /\ vcFormulas' = MSG2smt(msg', vcs')
  /\ hasTransformed' =
       hasTransformed \cup UNION {Below(msg', vcs'[k]) : k \in DOMAIN vcs'}
  /\ iter' = 1 /\ unanswered' = {} /\ at' = "solve"
  /\ UNCHANGED <<parts, verificationResult>>

\* No declaration is left: SAManager goes on with the calls.
Declarations ==
  /\ at = "declare" /\ declared = Len(Declared)
  /\ at' = "search"
  /\ UNCHANGED <<vcvars, loopvars>>

\* mutation: the end is noticed one formula late
AdvancePastEnd ==
  /\ iter' = iter + 1
  /\ at' = IF iter > Len(vcFormulas) THEN "report" ELSE "solve"

\* solve, when no falsifying assignment is found: on to the next formula.
Advance == /\ iter' = iter + 1
           /\ at' = IF iter = Len(vcFormulas) THEN "report" ELSE "solve"

Proved ==
  /\ at = "solve" /\ Unsat(vcFormulas[iter])
  /\ verificationResult' = "TRUE" /\ Advance
  /\ UNCHANGED <<vcvars, hasTransformed, vcFormulas, unanswered>>

Undecided ==
  /\ at = "solve"
  /\ verificationResult' = "UNKNOWN" /\ unanswered' = unanswered \cup {iter}
  /\ Advance
  /\ UNCHANGED <<vcvars, hasTransformed, vcFormulas>>

\* mutation: the loop goes on after a formula that cannot be refined
RefutedAndOn ==
  /\ at = "solve" /\ ~Unsat(vcFormulas[iter])
  /\ verificationResult' = "FALSE" /\ Advance
  /\ UNCHANGED <<vcvars, hasTransformed, vcFormulas, unanswered>>

\* A solution is found and nothing can be refined: the loop is left.
Refuted ==
  /\ at = "solve" /\ ~Unsat(vcFormulas[iter])
  /\ verificationResult' = "FALSE" /\ at' = "report"
  /\ UNCHANGED <<vcvars, hasTransformed, vcFormulas, iter, unanswered>>

\* The verdict is printed by abstractionCheckingRefinementLoop, which exits the
\* process if it is FALSE.
Reported ==
  /\ at = "report"
  /\ at' = IF verificationResult = "FALSE" THEN "exit" ELSE "declare"
  /\ UNCHANGED <<vcvars, loopvars>>

\* All names were looked for: verify returns.
Searched ==
  /\ at = "search" /\ Len(parts) = Len(Traces)
  /\ at' = "idle"
  /\ UNCHANGED <<vcvars, loopvars>>
-----------------------------------------------------------------------------
(***************************************************************************)
(* Properties                                                              *)
(***************************************************************************)
\* The types of the fields of MSGManager and SAManager, while the MSG grows.
StructuralTypeOK ==
  /\ \A k \in DOMAIN msg : msg[k].kids \subseteq 1 .. k - 1
  /\ \A k \in DOMAIN vcs : vcs[k] \in DOMAIN msg
  /\ DOMAIN vcFormulas \subseteq DOMAIN vcs
  /\ at = "solve" => iter \in DOMAIN vcFormulas
  /\ at \in {"idle", "search", "declare", "solve", "report", "exit"}
  /\ verificationResult \in {"UNKNOWN", "TRUE", "FALSE"}

\* TRUE is said of a file only if the vc that was added last is contradictory,
\* and so is every other one, unless the solver did not decide its formula. One
\* that was not decided is forgotten when a later one is unsatisfiable.
TrueIsProved ==
  (at = "report" /\ verificationResult = "TRUE") =>
    /\ Unsat(Below(msg, vcs[Len(vcs)]))
    /\ \A k \in DOMAIN vcs : k \in unanswered \/ Unsat(Below(msg, vcs[k]))

\* The formula of a vc, as MSG2smt is commented, encodes the vc: it defines
\* every node below it.
FormulaEncodesVC ==
  at = "solve" => Below(msg, vcs[iter]) \subseteq vcFormulas[iter]
=============================================================================
