# Ceagle-Term in TLA+

Ceagle-Term is two verifiers of C programs in one source tree:

- the **termination prover** (`src/src/main.cpp`, `src/src/Termination`), which
  executes the LLVM code of `main` symbolically, builds a finite *symbolic
  execution graph* (SEG) of abstract states and turns it into integer rewrite
  rules for the termination tool KITTeL. This is the program `src/CMakeLists.txt`
  builds;
- **Ceagle**, the older reachability verifier (`src/src/main_ceagle.cpp` and the
  other directories of `src/src`), which looks for a path to a block named ERROR
  by predicate abstraction, by bounded unrolling, by structural abstraction of
  formulas or by value analysis, depending on the program.

This directory holds TLA+ modules translated from that code, the TLC
configurations that check them on small programs, and proofs for TLAPS about
every program. `PROJECT.json` maps every definition to the source lines it
stands for. Vendored code is left aside: `include/boost`, `include/hashlib++`,
`lib/llvm-slicer`, `src/Util/cpp-multiprecision`.

## 1. Inventory

| Component | State | Operations | Hard behaviour | Correct when |
|---|---|---|---|---|
| Program states (`Termination/SEGState`, `Utils`) | LV, KB, AL, PT and the computed FO of one vertex | `evaluate`, `getPredicate`, `isGeneralizationOf`, `merge` | the solver decides what is kept; a store may lose cells | a merge generalises both its states, and loses information |
| SEG construction (`Termination/SEGManager`) | graph, visited flags, current path | turns of `expandSEG`: `procGeneralization`, `procEvaluation`, descend, backtrack | a merge abandons part of the graph under construction and redirects edges; loops must be closed; the process may exit at any query | every vertex that is delivered is accounted for; generalization edges are sound; it ends |
| Termination driver (`main.cpp`) | the phase of `main`, the simplified graph | forks clang, `parseIRFile`, `constructSEG`, `simplifySEG`, `toKITTEL` | recursion over a cyclic graph, rules dropped by `reduce`, an exit in the middle of the file, symbols a rule keeps | the KITTeL file stands for every run |
| CEGAR (`DFS/CEGAR`, `DFS/Absref`, `include/ARG.h`) | reached set, wait list, parents, precision, last error path | `visit`, `expand`, `abstract`, `isFeasible`, `refine` | solver answers unknown; cover depends on a static flag; refinement must make progress | SAFE rests on an inductive invariant, UNSAFE on a real run |
| Instruction and path translation (`SMT/Translator`) | SSA indices per variable | `inst2SMTM`, `path2SMTM`, `block2SMTM` | phi nodes need the block control came from | the formula of a path has a model exactly for its executions |
| Solver interface (`SMT/Middleware/*Solver`) | script, known variables, frames of declarations | `add`, `push`, `pop`, `reset`, `checkSat`, `getModel`, `getInterp` | two records of the frames to keep in step, `reset` loses options, unknown answers, no Z3 | it behaves as a stack of frames of assertions |
| Expressions (`SMT/Middleware/AST`) | shared trees | build, substitute, parse | none of protocol | substitution and parsing keep meaning |
| Depth-first search (`DFS/GenericDFS.h`, `IRBlockDFS`) | path, result | `visitNode`, backtracking on advice | the verdict of a subtree must not overwrite a better one | SAFE only if nothing was cut off |
| NaiveAdvisor (`DFS/Advisor`) | loop counters, next choice | `dfsVisit`, `dfsNext`, `dfsBackward` | reads of a map that insert entries | counters match the path |
| AbsrefAdvisor (`DFS/Advisor/Absref`) | tree of abstract nodes | visit, cover, refine, revisit | refined predicates are lost in a copy | progress of refinement |
| Other advisors | none | fixed advice, bounds check | | |
| Value analysis (`ValueAnalysis`) | explicit values per state | `expand` with its own `stop`, `add` | `stop` has the opposite sense of CEGAR's | covered states only are left out |
| Structural abstraction (`StructuralAbstraction`) | the graph of nodes (MSG), the calls found, verification conditions, marks, verdict | find calls, combine, find declarations, solve, report | the loop runs again for every declaration; marks never reset, verdict overwritten, `exit` inside a callback | TRUE is proved, every formula encodes its condition |
| Preprocessors (`Preprocess`) | the module | inline, trim, slice, rename | recursive functions | the verified property is preserved |
| Contexts, properties, verdict (`main_ceagle.cpp`) | global flags, a sleeping thread, the witness file | choose context and analysis, print verdict, write witness | flags survive from one file to the next; the thread exits the process with TRUE; exceptions are answered with TRUE | verdicts of a file agree, the witness is the current file's |
| Runners, CDE, overflow | a child process | compile, run, read the output | time limits taken for results | a time out is no proof |
| Witnesses | none | write XML | | |

They interact by calls: `main` drives one analysis at a time in one thread,
and an analysis queries the solver (a child process of Z3) and waits for the
answer. The only second thread is the one started for files with floats, which
sleeps, prints TRUE and exits the process; it shares nothing with `main` but
the output and the process. So what is hard here is less interleaving than
*unanswered queries*, the *order* in which graph, path, wait list and precision
are updated by long sequences of calls, and *stale* entries left by one step for
a later one. `hazards` in `PROJECT.json` lists them with their lines, and the
properties aimed at each.

## 2. Modules

```
SEGState        states and operations on them       SEGState_proofs
   ^ EXTENDS                                             ^
SEGConstruction expandSEG                            SEGConstruction_proofs
   ^ EXTENDS                                             ^
SEGManager      main: construct, simplify, write     SEGManager_proofs
   ^ EXTENDS                                             |
SEGRuns         runs as walks over the graph ------------+
   ^ EXTENDS                      ^ EXTENDS
MCSEG  two programs for TLC    SEGRules  the rules as KITTeL reads them
                                  ^ EXTENDS
                               MCRules   a loop that never ends

CEGAR           visit, expand, refine                CEGAR_proofs
   ^ EXTENDS
MCCEGAR         two programs for TLC

BoundedSearch   visitNode with NaiveAdvisor          BoundedSearch_proofs
   ^ EXTENDS
MCSearch        two programs for TLC

SolverStack     what a client of Solver relies on
   ^ INSTANCE ... WITH (refinement)
Z3RawSolver     script, frames, answers              Z3RawSolver_proofs
   ^ EXTENDS
MCSolver        three formulas for TLC

StructuralAbstraction   SAManager, MSGManager
   ^ EXTENDS
CeagleMain              main and verify              CeagleMain_proofs
   ^ EXTENDS
MCCeagle                command lines and one file's calls for TLC

InductionLemmas         induction and recursion for CEGAR_proofs,
                        CeagleMain_proofs and SEGManager_proofs
```

**SEGState.** A `State` is what `SEGState` stores: program counter, domain of
LV, KB, AL and PT. Expressions are members of a finite set `Pred`; AL and PT
hold members of finite sets of cells. The solver is the constant `Implied` (what
follows from a set of predicates), `getPredicate` the constant `Derive` (what KB,
AL and PT list in FO) and the program the constant `Inst`, all under
`SolverAssumption` and `ProgramAssumption`: `Implied` is a consequence operator,
and `getPredicate` adds only consequences. `Evaluate` has one operator for each
kind of instruction; `learn` gives the facts the fresh symbols of an
instruction come with. Symbols are named by the instruction that defines them,
so the renaming `mu` between two states is the identity. When an instruction
is executed again the code makes a new symbol and the facts about the old one
stay in KB; the model keeps of them what they imply about the other variables
(`Kept`). A fresh cell is one of the two names an instruction may use, enough
for an entry to differ from that of an earlier visit.

**SEGConstruction.** One action for each turn of the loop of `expandSEG`.
`visited`, `edge`, `path` and `st` are the vertex flag, the edges, the
`std::list` and the `ptrState` of the vertices.

| Action | Code (`SEGManager.cpp`) |
|---|---|
| `LeaveEnd` | a NULL state needs no expansion |
| `Generalize` | `procGeneralization`, `genTarget` generalises `v` |
| `MergeStates` | `procGeneralization`, merge: below `genTarget`, or in its place if it is a merge product already |
| `EvaluateOne`, `EvaluateRet`, `EvaluateTwo` | `procEvaluation` with one state, the NULL state, or the two of a refinement |
| `Exit` | every `exit(-1)`: unknown answer, unproved access, unsupported instruction |
| `Descend`, `Backtrack` | a visited top: go to its first unvisited child, or leave it |

When `genTarget` is the first vertex of the path there is no edge to redirect,
and the code has a branch for it (`path.size() <= 1`, `:1065`): the merged vertex
goes below it, which is the first alternative of `MergeStates`.

**SEGManager.** `main` as phases. `DfsChild` and `DfsReturn` are the recursive
`dfs` of `simplifySEG` with its active calls on a stack. `ToKITTEL` opens the file
or cannot, `WriteRules` is one turn of its loop over the edges, `ExitInReduce`
the `exit(-1)` of a query of `reduce`, with the rules of the edges before in the
file, and `CloseFile` its end. A `Rule` has the two vertices and `mu`, what the
code puts in place of the variables `v0, ..., vn` on its right-hand side: on a
generalization the target's symbols get the values of the source's, and
everything else stays as it is. For that a symbol is named by its local and the
vertex whose state had it first (`LV`). The rules of one edge differ in their
conditions only, into which a disequation is split; they are one rule here, as
all of them make the same step. The file has one edge after another in a fixed
order, which decides only what is there after an exit.

**SEGRuns.** What the program does, which the prover does not know but is
about: `Memory` is what the locals and the memory of `main` can hold, `Sat` the
memories a predicate or a cell is true of, `Step` where an instruction leads with
a memory. A state `Describes` a memory when all it lists is true of it. The
module adds no state and no action: `RunsWalked` says that each run is a walk over
the delivered graph, along edges that rules were written for. `SemanticsAssumption` ties the prover's
constants to the meaning: what `Implied` and `Derive` conclude is true, one of a
condition and its negation is, and nothing follows a `ret`. `InstructionsRight` is
a program without memory accesses whose instructions do what `Inst` says they do;
for programs with loads and stores `RunsWalked` supposes `EvaluatedRight`
instead, that each evaluation of the graph was right about its own instruction,
the cells it kept included. What either leaves to show is all that is not a
single evaluation: merges, redirected edges, refinements, the copy made by `dfs`
and the rules `reduce` drops. It is about the graph only: a walk reads the symbols
of a state anew each time it comes by, while a rule keeps them.

**SEGRules.** The rules as KITTeL reads them: `v0, ..., vn` are integers, a rule
can be applied when its condition holds of them (`Applies`) and replaces those
`mu` names (`After`). `Rewritten[n]` are the terms after `n` rewrites, from the
entry with any values; `Reached[n]` is where the program can be after `n`
instructions. `EndlessRunsRewritten` says that the rules of a program that can
run for ever can be rewritten for ever. It is stated for programs without
memory, where a memory is a valuation of the locals; it does not hold. The
condition of a rule in the code also has what KB keeps of symbols no local has
any more (`Kept` above): that restricts the rules further, and the run stays
violated.

**CEGAR.** A program is given by its blocks and, for each edge and phi selector,
the pairs of valuations before and after it, which is what `path2SMTM` asserts.
A predicate is the set of valuations satisfying it, an abstract state a block, a
phi selector and literals. `Choose`, `Prune`, `LeaveOut`, `AddState` and
`FindTarget` are the body of `expand`; `ReportSafe`, `ReportError`,
`StartRefine` and `RefineFailed` are the branches of `visit`; `Interpolate`,
`NoInterpolant` and `Restart` are `refine` and the start over. A parent map is
stored as the path of each reached state. `Sound` is `AbstractState::sound`.
`MayFail` lets every query go unanswered. Points worth knowing:

- a target that is covered has no parent entry and `getPath` does not end
  (`mode = "hung"`); `RefinementExcludesPath` says that it does not come to that;
- `NoInterpolant` has two outcomes, since the tree has an assertion there: with
  `NDEBUG` the function goes on with the fallback formula;
- the wait list removes duplicates by pointer, which never fires, and
  `path.size() < 2` in `refine` cannot occur, because the entry is no target.

**BoundedSearch.** The recursion of `visitNode` as a stack: `path` is
`currentPath`, `todo[k]` what the call at depth `k` has still to visit. A call
with `dfsVisit` and `dfsNext` is one action: `CutOff` (unrolling limit),
`GiveUp` (a call that was not inlined), `UndecidedError`, `FindError` and
`GuessVerdict` (an error block: unknown, satisfiable, or a verdict read from the
text of an exception), `Explore` (the choices, sorted by their counters and
filtered by the solver). `Backtrack` is the return with `dfsBackward`, `Finish`
the end of `visit`. Points worth knowing:

- `m_loopHeads[a] < m_loopHeads[b]` in the comparison of `std::sort` inserts
  the successors it compares (`Compared`), so a counter starts at 0 or at 1;
  among equal counters any order is allowed, as `std::sort` is not stable;
- an exception inside `remove_if` leaves the vector as it is then
  (`RemovedBefore`), and the search goes on with it;
- whether a path has a model is the constant `Satisfiable`, in place of
  `IRPathTranslator::path2SMTM`. With `MayFail` every query may go unanswered,
  throw, or end the analysis (`Abort`);
- blocks named as a failed assumption are never among the choices, so the branch
  of `dfsVisit` for them cannot be taken; the entry is not one of them;
- `tree`, the set of paths visited, is a history variable that no guard reads.

**SolverStack and Z3RawSolver.** `Solver.h` promises a stack of frames of
assertions; `SolverStack` says so, with the answers a client may get. What
implements it keeps no such stack: `Z3RawSolver` appends commands to a script
(`po`) and, next to it, the variables declared so far (`vars`) and by frame
(`push_pop`), and every question runs Z3 on the whole script. The model holds
what Z3 makes of the script: the frames open at its end, with their constants,
names and assertions, and whether a command is answered with an error
(`failed`). Each method is one action, with the part of `RawSolver` it calls.
Points worth knowing:

- a Z3 that is missing or killed prints nothing, which `checkSat` reads as
  unknown; only a `popen` that fails throws (`"no solver"`). An error on the first
  line is thrown as a string (`"error"`): `NoScriptError` shows that this does
  not happen;
- `getInterp` after `reset`, without the option, or when the script has a model
  gets an error on its second line, where the parser gives up (`"failed"`);
- clients pop only frames they pushed, name an assertion once, and pass raw text
  only over variables that were declared; these are guards.

**StructuralAbstraction.** `SAManager` goes through the calls that lead to the
error. `FoundStmtTrace` makes nodes of the conditions of a call, and when it is
in `main` combines neighbours and looks for the declarations of a variable.
`FoundVariableDeclaration` adds a verification condition and starts the loop of
`MSGManager` from within the callback: `Proved`, `Undecided` and `Refuted` are
the answers for one formula, `Reported` the verdict with its `exit`. A node
holds a fact and the indices of its operands; the solver is the constant
`Conflict`. `unanswered` is a history variable. Summary nodes are made only by
tests, so `refine` finds nothing to refine; that is `Refuted`.

**CeagleMain.** `main` calls `verify` for every file (`Verify`), `verify` settles
the global variables (`Load`, the switch over the contexts) and runs an analysis.
Each return of `verify` is an action that prints what the code prints (`Say`) and
returns what it returns (`Judge`, `Return`); `Exit` stands for `exit` and failed
assertions. `WriteWitness` is what `main` does with the result, `Throw` the
handlers of its `try`, `TimerFires` the thread. The analyses other than the
structural abstraction are jobs with all the results they can have. `g` holds the
globals a later file can notice; `used`, the settings a file was analysed with,
is a history variable. Points worth knowing:

- a source file always has a context: the last one asked, `ContextLoop`, matches
  each file with a loop and `ContextByteOperation` each file without one;
- `OwnAdvisor` is empty for the contexts that keep the advisor there is, so that
  of an earlier file;
- `--dry-run`, `--generate-function-call-of`, `--context-test` and slicing by an
  option end before an analysis and are left out.

## 3. Runs

| Run | Program | Shows |
|---|---|---|
| `seg_mem_loop` | loop over memory as `clang -O0` writes it | `GeneralizationSound` and `DeliveredJustified` with stores that keep or lose cells, `NoSpuriousNormalForm`, `RunsWalked` |
| `seg_nested_loop` | nested loops in SSA form: the outer merge abandons the inner loop, a merge product is merged again, the latch learns something or nothing | `ManagerTypeOK`, `PathIsChain`, `Structure`, `DeliveredJustified`, `SilentStepsEnd`, `RunsWalked`, `MergeWeakens`, `EventuallyDelivered` |
| `cegar_loop` | loop with a phi node, error unreachable, solver always answers | `TypeOK`, `SafeIsInductive`, `RefinementExcludesPath`, `EventuallyDecided` |
| `cegar_branch` | branches joining, error reachable, solver may not answer | `UnsafeIsReal`, `SafeIsSafe` |
| `cegar_fixed` | the same without the error | `SafeIsInductive` |
| `search_nested` | nested loops, error reachable, `LoopUnrollDepth = 3`, solver may not answer | `CountersFollowPath`, `UnrollingBounded`, `UnsafeIsReal`, `EventuallyDone` |
| `search_join` | branches that meet, a switch with a failed assumption and a repeated successor, error and call not reached | `TypeOK`, `SafeIsSearched` |
| `solver_frames` | three formulas over two variables, two names, three frames | `TypeOK`, `ScriptInStep`, `NoScriptError`, `ModelCoversQuery`, `ImplementsStack` |
| `ceagle_files` | one or two files of all kinds, six property files, five settings of the options; a file with four calls and two declarations for the structural abstraction | `TypeOK`, `TrueIsProved`, `SettingsLeak`, `VerdictsAgree`, `WitnessIsCurrent`, `FloatsEnd` |
| `seg_rules` | a loop that flips a variable and never ends | **violated**: `EndlessRunsRewritten` |
| `cegar_cover` | the same as `cegar_branch`, `Sound = FALSE`, solver answers | **violated**: `LeftOutForWeaker` |
| `ceagle_structure` | one file for the structural abstraction, with two declarations of its variable | **violated**: `FormulaEncodesVC` |

Three runs show disagreements of the code with what the repository says of it.

`seg_rules`: a loop `while (1) x = 1 - x` never ends, but the rules written for
it do. In the first iteration `v1 = x` is renamed by the generalization that
closes the loop, and `v2 = 1 - v1`, made in the body, is not, as the state the loop
starts from again has no such symbol. The rules of the body require
`v2 = 1 - v1` of the new `v1` and the old `v2` and cannot be applied a second
time. So that KITTeL proves the rules terminating is no proof that the program
terminates. The repository's own evaluation counts a program named `false` as
not terminating (`src/evaluation/analyze.cpp:121-122`), and
`src/evaluation/ceagle.csv:214` records `true` of
`NonTerminationSimple2_false-termination.c`. The run is of a small program of
its own, not of that file, whose C text the repository does not have.

`ceagle_structure`: `MSG2smt`, by its comment, writes the formula of each
verification condition, and is called again for every declaration found. But
`MSGNode2smt` (`MSGManager.cpp:94`) skips a node that was written before, in
whichever formula, so at the second declaration the formula of the first
condition has lost its definitions. It then has a model, and FALSE is printed,
and the process left, for a file of which TRUE was printed before. `VerdictsAgree`
names this way of taking TRUE back as one of its exceptions.

`cegar_cover`:
`src/test/DFS/Absref/test_abstract_state.cpp:87-90` says that `s2 = {1}` covers
`s1 = {1, 2}` and not the other way round. With the flag at its default, false,
`cover` (`AbstractState.cpp:72`) compares the other way round, and the run finds
a successor without literals left out for a reached state that has one. The
flag is set only when the loop context matched; CEGAR itself also runs for
other contexts and under `--advisor=absref`.

**Properties.** `DeliveredJustified`: each vertex of the graph KITTeL gets is an
end, or is generalised, split into both refinements, or evaluated, by edges
that are delivered too. `NoSpuriousNormalForm`: `reduce` removes no last rule of
a state that can be satisfied. `GeneralizationSound`: also an edge that was
redirected after the comparison leads to a generalisation. `MergeWeakens`: the
reason the loop ends. `Structure` and `PathIsChain`: what the unchecked
dereferences of `findSamePC` and `procGeneralization` and the completeness of the
graph rest on. `SilentStepsEnd`: at most three edges in a row run no
instruction, so the delivered graph has no cycle without one.
`RunsWalked`: from every memory a delivered vertex stands for, at most three such
edges and an evaluation lead to a vertex that stands for whatever the program does
next, and each of these edges has a rule. `EndlessRunsRewritten`: see
`seg_rules` above. `SafeIsInductive`: the reached states are an inductive invariant
without a target. `SafeIsSafe`: hence no run of the program enters a target; a
run is a sequence of blocks, selectors and valuations, and the property does not
mention the graph. `UnsafeIsReal`: there are valuations with which the program
runs along the reported path. `RefinementExcludesPath`: with a solver that
answers, the assertion on interpolants holds and `isNewPath` never fails.
`CountersFollowPath`: the counter of a block is the number of times it is on the
path, or one less if it was on the path before it had a counter.
`UnrollingBounded`: hence no path has a block more than `LoopUnrollDepth + 1`
times. `SafeIsSearched`: when SAFE is reported, every extension of a visited path
that has a model was visited, and no visited path reaches an error.
`ScriptInStep`: the solver's own record of frames and variables is what Z3 has.
`NoScriptError`: hence no command is refused. `ModelCoversQuery`: a model has a
value for every variable asked about. `ImplementsStack`: the refinement.
`TrueIsProved`: TRUE is said only if the last condition is contradictory, and
each other one that was decided. `SettingsLeak`: the ways, all of them, in which
a file changes how a later one is analysed through the globals of `main_ceagle`
(the static map of sorts, `Sort::varSortMap`, also survives, and is left out).
`VerdictsAgree`: the only ways in which a verdict is contradicted: by the sleeping
thread, and after a verdict of the structural abstraction that is not FALSE.
The first exception covers the TRUE of the thread, the second formulas that lost
their nodes and verdicts said again for each declaration, so this property is
not what would catch those; that a handler's TRUE is wrong is not visible when it
is the only line. `WitnessIsCurrent`: after a TRUE or FALSE that `verify`
returned the witness is about this file and says the same, but for the one way
it may not be; lines printed by a handler or by the structural abstraction are not
results of `verify`. `FloatsEnd`: a file with floats ends the process.

**Bounds.** `MaxVertices = 60` guards the expansion of a vertex. A model stopped
by it would stutter before the driver ends, so `EventuallyDelivered` also
shows that it is never reached in the runs that check it. `MaxNodes` is 30 and
20; `EventuallyDecided` shows the same for `cegar_loop`, and with 40 the other
two runs have the same number of states. `RunLength = 8` is the number of blocks of
the longest run `SafeIsSafe` looks at in TLC, more than a run of these programs
needs to reach every configuration; the theorem is about every length. The
memories of the SEG runs are the few valuations that tell their predicates
apart (for `seg_mem_loop` with the contents of the allocated cell); in
`seg_nested_loop` `InstructionsRight` holds, and in `seg_mem_loop` `EvaluatedRight`
holds in some of the delivered graphs and fails in others, where a cell was kept
that the instruction had changed. `Pred` is finite, as is the set of
interpolants: the real analysis may find new predicates for ever, and no claim is
made that it does not. `LoopUnrollDepth` is 12 or more in the code and 3 in the
runs, enough for a block to be entered, counted and cut off on one path whether
its counter starts at 0 or at 1; in `search_nested` blocks reach the bound of
`UnrollingBounded` exactly. The verdicts `GuessVerdict` may take are one in each
run, so that the other verdict is known to come from the search.

`seg_rules`: locals have the two values the program gives them, so the values
lose nothing; `Long` is the number of places and memories, after which a run has
come to the same one twice and can go on for ever.

`solver_frames`: `MaxFrames = 3` has a frame below and above the one at work, and
the two variables are shared by formulas of different frames. `ceagle_files`:
two files are enough for one to leave settings to another; each analysis is
complete in itself, and the third file would find what two leave.

**Fairness.** In the termination prover, CEGAR and the bounded search
`WF_vars(Next)` only: the program is one thread in a loop that
takes a step whenever it can. Nothing is assumed of which step: solver answers,
`learn`, kept cells and `Exit` are free. With `MayFail`, two undecided paths
can alternate for ever (`isNewPath` compares with the last one only), so
`EventuallyDecided` is checked with a solver that answers; the bounded search ends
whether it answers or not, and `EventuallyDone` is checked so. `CHECK_DEADLOCK FALSE`
is set in those runs because the program ends. `CeagleMain` assumes fairness of
`TimerFires` alone: a thread that sleeps wakes up, while any analysis may take
for ever. `Z3RawSolver` is a library, and assumes none.

## 4. Proofs

The assumptions are those of the modules (`ProgramAssumption`,
`SolverAssumption` of `SEGState` and of `Z3RawSolver`, `BoundAssumption`,
`NullAssumption`, `SearchAssumption`, `CeagleAssumption`,
`StructuralAssumption`, `SemanticsAssumption`); TLC evaluates them in the runs.
`StructuralAssumption` is that no function that leads to the error is recursive:
`visitFunction` (`SAManager.cpp:27`) does not end for one that is. `CeagleAssumption` is what the options of `main_ceagle` do: one
that names an advisor turns the contexts off, and none with which a file is
analysed slices it or sets the soundness or the depth. The theorems hold for every program, solver and bound that meet them.

**`InductionLemmas`**. The prover cannot instantiate an induction theorem that
takes a predicate, so these lemmas take a *set* of numbers instead
(`IntervalInduction`) and, for recursion, a *function* for the step
(`RecursionExists`, `RecursionUnique`, `EndlessRecursion`). The root of them is that
strict inclusion is well founded on finite sets.

**`SEGState_proofs`**: `MergeGeneralizes` and `MergeStrictlyWeaker`, from the two
monotonicity facts of `SolverAssumption`; transitivity of generalisation; types
of what `Evaluate` returns.

**`SEGConstruction_proofs`**: the inductive invariant is `TypeOK /\ PathIsChain
/\ Structure /\ GeneralizationSound`. `PathIsChain` needs `Structure`: that an
edge to an older vertex is a generalization edge to a visited one, that a vertex
has one edge from an older one, and that children of the path still to be
expanded are second states of refinements. `GeneralizationSound` needs it for the
redirected edge: its source is generalised by the old product, which the new
product generalises, and generalisation is transitive.

`SilentStepsEnd` needs `SilentInv`, in which each of the three kinds of edges
without an instruction occurs at most once in a row: an edge back to an older
vertex leaves a vertex that only evaluations lead to and that is off the path for
good (`BackFromEvaluation`), a merge product hangs below a vertex that is none
(`MergedOnce`), and a half of a condition decides it, so that only evaluations
leave it (`HalvesDecided`). `OneWayIn` gives the first when an edge is redirected.

**`SEGManager_proofs`**: `DeliveredJustified` for every program. A merge leaves
unjustified vertices in the graph, so no statement about all vertices can be
inductive. The invariant says that there is a *live* set of vertices, closed
under edges, with the entry and the path in it, in which every visited
vertex is justified and every unvisited one is the top of the path or a second
state of a refinement on the path; a merge takes what it abandons out of
the live set, and `NoEdgeOver` makes sure that no edge from outside leads into
it. When the path is empty every live vertex is justified, and `dfs` copies
within the live set: each copied vertex is on the stack of calls or has all its
edges in `dest`. `NoSpuriousNormalForm` follows.

That includes the types of the file: `RulesWritten` says that the rules are those
of the edges written so far, whose sources can be satisfied, and holds at an
exit too.

`RunsWalked`. `RuleLeadsOn`: a vertex that stands for a memory has an edge with a
rule whose target still does, or one of an evaluation whose target stands for
whatever the instruction makes of it. By cases on how the vertex is justified: a
generalisation stands for all that its source does (`GeneralStandsFor`), one half
of a condition does (`HalvesStandFor`), and an evaluation is right, by supposition
or, for instructions on registers, by `EvaluateIsRight` (`MoveIsRight` for the phi
nodes). The edge has a rule, since a state that stands for a memory is
satisfiable and `reduce` keeps it (`StandsForKeepsRule`). `SilentStepsEnd` bounds
the edges before the evaluation. `EndlessRunsAreWalked` goes on to whole runs: for a
run of the program that never ends there is an endless walk that stays with it
(`EndlessRecursion` builds it). What this says of KITTeL's answer is limited. The
graph the rules come from leaves no run out; but a walk is not a rewriting, as the
rules keep the symbols of a loop body, and `EndlessRunsRewritten` does not hold.

**`CEGAR_proofs`**: `UnsafeIsReal` from `TypeOK`, from every path starting at
the entry and following `Succ`, and from induction along the path, backwards
from a valuation at its end; it holds for both values of `Sound` and `MayFail`.
`SafeVerdictIsInductive`, under `Sound`: while expanding, every successor of a
reached state is covered, or the state is in the wait list, or the successor is
among those of `cur` still to handle. `SafeVerdictIsSafe` from it, by induction on
the length of a run: each configuration is one of a reached state.

`RefinementsExcludePaths`: `Excluded` says that a path has predicates, true at its
entry, each tracked at its block, each leading into the next along an edge of the
path and the last into nothing. `refine` builds these from the end of the path
(`Refining`); afterwards every reached state that has come along the path lies
within the predicate of its block and none has come to its end, so the path is
not found again. Neither depends on which interpolants are returned. No target
is covered because a target ends the expansion that adds the first state at it.

**`BoundedSearch_proofs`**: first, what sorting and an interrupted `remove_if`
do to the choices (`SortedFacts`, `FilteredFacts`): none is lost whose path has a
model. `NextCases` reduces the steps to visits, returns and ends. Then
`CountersFollowPath` is inductive with the types; `UnrollingBounded` follows with
`LimitKept`, that a counter at the limit belongs to the block at the end of the
path and nothing is left to visit there. `UnsafeIsReal` needs that path and stack
follow the edges of the program (`Follows`). `SafeIsSearched` needs `Complete`:
while the verdict is open, every feasible extension of a visited path was
visited or waits on the stack.

**`Z3RawSolver_proofs`**: the inductive invariant is `TypeOK /\ ScriptInStep /\
NoScriptError`; neither of the last two is inductive without the other, since a
refused command would leave the script behind the record. `ModelCoversQuery`
follows with the fact that what is asserted is over declared variables.
`SolverImplementsStack` is the refinement: a frame of the script holds what the
frame of `SolverStack` holds, a call of the solver is the call of the stack, and
declarations, named groups and the answers are stutters or the answers of the
stack. It needs the invariant, because a refused assertion would be missing from
the script.

**`CeagleMain_proofs`**, each from an invariant of its own:

- `VerdictsAgree` from `Told`: lines are only about files reached so far, none is
  about the current file before it is judged, and while it is abstracted
  structurally only lines of this abstraction that are not FALSE. `StepSays`
  reduces the steps to six ways of printing.
- `TrueIsProved` from `Decided`: each formula is a part of its condition, and
  each condition before `iter` is contradictory or was left unanswered. That
  the formulas are parts only (see `FormulaEncodesVC`) does not harm it: a
  contradiction in a part is one in the whole.
- `SettingsLeak` from `Settling`: files are analysed in their order (`InOrder`),
  the contexts are off only because of an option or an IR file (`Contexts`), and
  of each global that is not as the options set it, a file up to `Upto` set it
  (`Origin`); `Upto` is the current file once its context was looked at.
  `StepMoves` reduces the steps to seven ways of changing the globals.
- `WitnessIsCurrent` from `Settling` and `Witnessing`: the advisor is one that
  writes its witness only because of an option or a file that selected it, and a
  result that is returned is 0, or about to be written by `main`, or written, or
  came from no analysis.

- `TypeOK` from `Settling`, `MainTyped` (what may be printed and pending at which
  `pc`) and types of the structural abstraction. These need
  `Names` and `Traces` to be sequences for every program, by induction on the
  depth of a function among the callers, and what `FlattenSeq` computes.

**Only model-checked**: `EventuallyDelivered`, `EventuallyDecided`,
`EventuallyDone` and `FloatsEnd`, which are liveness under fairness; and the three
properties that do not hold, `EndlessRunsRewritten`, `LeftOutForWeaker` and
`FormulaEncodesVC`. Every other
property of the runs is stated by a theorem. Taken as a constant, so neither
checked nor proved: that an evaluation of a load or store is right about the cells it
keeps (`EvaluatedRight`), and that `learn` is true of the integers of C.

## 5. Not modelled, and the plan

The repository has 2.3 million lines, nearly all of them a copy of boost and other
libraries under `src/include`; Ceagle's own code is the part under `src/src`. Of
the latter these parts are left out:

- **`AbsrefAdvisor` and `ARGManager`**: `main_ceagle` answers the advisor name
  `absref` with CEGAR and never makes this advisor.
- **Value analysis**: `ValueState::toExpr` has no return statement, so what its
  queries ask is undefined. Its outcome is among those of `Decide`.
- **Expressions, sorts, their parser, `IRPathTranslator`**: recursion over LLVM
  values and expression trees, without state between calls. The models take
  formulas as constants with a meaning.
- **Preprocessors**: one pass each over a module in LLVM's data structures. The
  searches take the resulting program as a constant.
- **Other advisors**: fixed advice for tests, and array bounds, where a verdict is
  not reached by searching.
- **The programs runners compile, the text of witnesses, DOT files, wording.**

Left out within the modelled parts: globals and arguments (`LVi[v]` inserts an
entry for them), integer width, the text of the rules, what the rules do for
programs that use memory, the compilation by clang, `getInvariants`, the model of an error path, and the
summary nodes of the structural abstraction with `VCGenerator`; the map of sorts
that is static in `Sort` and outlives a file.

Three things are simpler in the models than in the code. `getModel` of
`Z3RawSolver` runs Z3 a second time; the model lets that run answer as the first
did, with one line for each variable. Errors of Z3 about sorts are outside
`NoScriptError`, which is about declarations, names and frames. `InstTranslator`
has one variable for an instruction name, so that a nondeterministic call that is
on a path twice has one value in the code's formula, while the relation of an
edge in `CEGAR` lets it have two: for programs with such loops the properties
are about the relation, not about this formula.

What is left of the plan:

1. the formula of a path (`IRPathTranslator`) as an operator on paths, which
   `BoundedSearch` takes as a constant: phi nodes, a conditional branch to one
   block only, `switch`;
2. the memory instructions in `SEGRuns`: which cells `Store` may keep for
   `EvaluatedRight` to follow, as it does for registers;
3. a measure on states that every merge lowers: the argument behind
   `MergeWeakens` for every program.
