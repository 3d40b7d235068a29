----------------------------- MODULE Z3RawSolver -----------------------------
(***************************************************************************)
(* The solver of the verifiers (src/src/SMT/Middleware/Z3RawSolver.cpp and *)
(* the RawSolver of Solver.cpp it derives from). It keeps a script of SMT  *)
(* commands, and for every question writes the script to a file, runs Z3   *)
(* on it and reads the output. Next to the script it keeps, in vars and    *)
(* push_pop, which variables the script has declared. The script stands    *)
(* here for what Z3 has made of it: the frames open at its end, and        *)
(* whether one of its commands is answered with an error.                  *)
(***************************************************************************)
EXTENDS Integers, Sequences

CONSTANTS
  Name,             \* variables
  Formula,          \* expressions of sort Bool
  Group,            \* names for assertions
  NoGroup,          \* the empty name
  VarsOf(_),        \* the variables of a formula
  Satisfiable(_),   \* a set of formulas has a model
  MaxFrames         \* bound on the depth of the stack

ASSUME SolverAssumption ==
  /\ \A f \in Formula : VarsOf(f) \subseteq Name
  /\ MaxFrames \in Nat \ {0}
  /\ NoGroup \notin Group

VARIABLES
  vars,       \* the variables that need no declaration
  push_pop,   \* the variables declared in every frame
  po,         \* the script: for every frame of Z3 at its end the constants
              \* declared, the names given and the formulas asserted
  option,     \* the script starts with the option :produce-interpolants
  failed,     \* a command of the script is an error to Z3
  answer,     \* what the client was told last
  model       \* the lines read as the values of variables

state == <<vars, push_pop, po, option, failed, answer, model>>

NoLines == [x \in {} |-> "value"]

EmptyFrame == [decl |-> {}, named |-> {}, holds |-> {}]

\* what Z3 knows at the end of the script
Declared == UNION {po[k].decl : k \in DOMAIN po}
Named    == UNION {po[k].named : k \in DOMAIN po}
Asserted == UNION {po[k].holds : k \in DOMAIN po}

\* A new command makes the answer stale.
Stale == answer' = "none" /\ model' = NoLines
-----------------------------------------------------------------------------
Init ==
  /\ vars = {} /\ push_pop = <<{}>>
  /\ po = <<EmptyFrame>> /\ option \in BOOLEAN
  /\ failed = FALSE /\ answer = "none" /\ model = NoLines

\* mutation: every variable of an expression is declared
EveryTime(f) == VarsOf(f)

\* processVar: the variables of an expression that are met the first time
FirstTime(f) == VarsOf(f) \ vars

\* mutation: an assertion is named even if the name is empty
AssertingNamed(D, f, g) ==
  [po EXCEPT ![Len(po)] =
     [decl  |-> @.decl \cup D,
      named |-> @.named \cup {g},
      holds |-> @.holds \cup {f}]]

(***************************************************************************)
(* Declarations of the new variables D and an assertion at the end of the  *)
(* script. Z3 refuses to declare a constant again, to read one that is not *)
(* declared, and to use a name again; it goes on after an error.           *)
(***************************************************************************)
Asserting(D, f, g) ==
  [po EXCEPT ![Len(po)] =
     [decl  |-> @.decl \cup D,
      named |-> @.named \cup ({g} \ {NoGroup}),
      holds |-> IF VarsOf(f) \subseteq Declared \cup D
                  THEN @.holds \cup {f} ELSE @.holds]]

Refused(D, f, g) ==
  \/ D \cap Declared # {}
  \/ ~(VarsOf(f) \subseteq Declared \cup D)
  \/ g \in Named

\* add(expr, group). Clients do not give the name of an assertion again.
Add(f, g) ==
  /\ g \notin Named
  /\ vars' = vars \cup FirstTime(f)
  /\ push_pop' = [push_pop EXCEPT ![Len(push_pop)] = @ \cup FirstTime(f)]
  /\ po' = Asserting(FirstTime(f), f, g)
  /\ failed' = (failed \/ Refused(FirstTime(f), f, g))
  /\ Stale /\ UNCHANGED option

\* add(raw): the text is not searched for variables, so they must be known.
AddRaw(f) ==
  /\ VarsOf(f) \subseteq vars
  /\ po' = Asserting({}, f, NoGroup)
  /\ failed' = (failed \/ Refused({}, f, NoGroup))
  /\ Stale /\ UNCHANGED <<vars, push_pop, option>>

Push ==
  /\ Len(po) < MaxFrames
  /\ push_pop' = Append(push_pop, {})
  /\ po' = Append(po, EmptyFrame)
  /\ Stale /\ UNCHANGED <<vars, option, failed>>

\* mutations: pop erases nothing, or the variables of the frame below
RemainingAll == vars

RemainingBelow == vars \ push_pop[Len(push_pop) - 1]

\* What vars is after pop: the variables of the last frame are erased.
Remaining == vars \ push_pop[Len(push_pop)]

\* Clients pop the frames they pushed. The base frame also satisfies the
\* assertion of pop, but Z3 does not pop it.
Pop ==
  /\ Len(push_pop) > 1
  /\ vars' = Remaining
  /\ push_pop' = SubSeq(push_pop, 1, Len(push_pop) - 1)
  /\ po' = IF Len(po) > 1 THEN SubSeq(po, 1, Len(po) - 1) ELSE po
  /\ failed' = (failed \/ Len(po) = 1)
  /\ Stale /\ UNCHANGED option

\* mutation: reset forgets the declarations and leaves the script
ResetKeepsScript ==
  /\ vars' = {} /\ push_pop' = <<{}>>
  /\ Stale /\ UNCHANGED <<po, option, failed>>

\* reset empties the script, with the option and with its errors.
Reset ==
  /\ vars' = {} /\ push_pop' = <<{}>>
  /\ po' = <<EmptyFrame>> /\ option' = FALSE /\ failed' = FALSE
  /\ Stale
-----------------------------------------------------------------------------
(***************************************************************************)
(* run: popen may fail; an error on the first line is thrown, as a string. *)
(* A missing Z3, or one that is killed, prints nothing.                    *)
(***************************************************************************)
RunFails ==
  /\ answer' \in {"no solver"} \cup (IF failed THEN {"error"} ELSE {})
  /\ model' = NoLines

CheckSat ==
  /\ \/ RunFails
     \/ /\ ~failed
        /\ answer' \in {"unknown",
                        IF Satisfiable(Asserted) THEN "sat" ELSE "unsat"}
        /\ model' = NoLines
  /\ UNCHANGED <<vars, push_pop, po, option, failed>>

\* One line is read for every variable of vars. A variable Z3 does not know
\* has an error on its line, which is not the first and so not noticed.
Lines == [x \in vars |-> IF x \in Declared THEN "value" ELSE "error"]

\* getModel runs the script again; clients call it after the answer sat. If
\* nothing is printed this time the model is empty.
GetModel ==
  /\ answer = "sat"
  /\ \/ RunFails
     \/ ~failed /\ answer' = "model" /\ model' = Lines
     \/ ~failed /\ answer' = "failed" /\ model' = NoLines
  /\ UNCHANGED <<vars, push_pop, po, option, failed>>

\* getInterp: an error is on the second line, where the parser gives up; so
\* it may on the answer. Without an answer the list is empty.
GetInterp ==
  /\ Named # {}
  /\ \/ RunFails
     \/ ~failed /\ answer' = "failed" /\ model' = NoLines
     \/ /\ ~failed /\ option /\ ~Satisfiable(Asserted)
        /\ answer' = "interpolants" /\ model' = NoLines
  /\ UNCHANGED <<vars, push_pop, po, option, failed>>

Next ==
  \/ \E f \in Formula, g \in Group \cup {NoGroup} : Add(f, g)
  \/ \E f \in Formula : AddRaw(f)
  \/ Push \/ Pop \/ Reset \/ CheckSat \/ GetModel \/ GetInterp

Spec == Init /\ [][Next]_state
-----------------------------------------------------------------------------
(***************************************************************************)
(* Properties                                                              *)
(***************************************************************************)
Frame == [decl : SUBSET Name, named : SUBSET Group, holds : SUBSET Formula]

\* The types of the fields of Z3RawSolver and of what its callers get.
TypeOK ==
  /\ vars \subseteq Name /\ push_pop \in Seq(SUBSET Name)
  /\ po \in Seq(Frame) /\ po # <<>>
  /\ option \in BOOLEAN /\ failed \in BOOLEAN
  /\ answer \in {"none", "sat", "unsat", "unknown", "model", "interpolants",
                 "failed", "no solver", "error"}
  /\ DOMAIN model \subseteq Name
  /\ \A x \in DOMAIN model : model[x] \in {"value", "error"}

\* The bookkeeping of RawSolver agrees with Z3 after any sequence of calls:
\* the same frames are open, in each the same variables were declared, none
\* twice, vars lists them all, and a formula is asserted in a frame only if
\* the frames up to it declare its variables.
ScriptInStep ==
  /\ Len(push_pop) = Len(po)
  /\ \A k \in DOMAIN po : push_pop[k] = po[k].decl
  /\ vars = Declared
  /\ \A j, k \in DOMAIN po : j # k => po[j].decl \cap po[k].decl = {}
  /\ \A k \in DOMAIN po : \A f \in po[k].holds :
       VarsOf(f) \subseteq UNION {po[j].decl : j \in 1 .. k}

\* No sequence of calls writes a script that Z3 answers with an error, which
\* would make every later question throw a string no caller expects.
NoScriptError == ~failed

\* A model that is returned has a value for every variable of the formulas
\* in force, and no line of it is a message of Z3.
ModelCoversQuery ==
  answer = "model" =>
    /\ \A f \in Asserted : VarsOf(f) \subseteq DOMAIN model
    /\ \A x \in DOMAIN model : model[x] = "value"

Stack == INSTANCE SolverStack WITH
  frames <- [k \in DOMAIN po |-> po[k].holds],
  interp <- option,
  valued <- {x \in DOMAIN model : model[x] = "value"}

\* Script, files and output implement the stack of frames of assertions a
\* client sees: push and pop bring back what was asserted, reset forgets all
\* of it and the interpolants, and every answer is about the open frames.
ImplementsStack == Stack!Spec
=============================================================================
