----------------------------- MODULE SolverStack -----------------------------
(***************************************************************************)
(* What a client of the solver interface (src/src/SMT/Middleware/Solver.h) *)
(* may rely on: a stack of frames of assertions, answers about the         *)
(* assertions of all open frames, and no other answer. How the assertions  *)
(* are brought to the solver is not visible here.                          *)
(***************************************************************************)
EXTENDS Integers, Sequences

CONSTANTS
  Name,             \* variables
  Formula,          \* expressions of sort Bool
  VarsOf(_),        \* the variables of a formula
  Satisfiable(_),   \* a set of formulas has a model
  MaxFrames         \* bound on the depth of the stack

VARIABLES
  frames,     \* the assertions of every open frame
  interp,     \* interpolants can be asked for
  answer,     \* the answer to the last question, "none" once it is stale
  valued      \* the variables the last model gives a value

vars == <<frames, interp, answer, valued>>

Answer ==
  {"none", "sat", "unsat", "unknown", "model", "interpolants", "failed",
   "no solver"}

\* the assertions in force
InForce == UNION {frames[k] : k \in DOMAIN frames}

Top == Len(frames)

Stale == answer' = "none" /\ valued' = {}
-----------------------------------------------------------------------------
Init ==
  /\ frames = <<{}>>
  /\ interp \in BOOLEAN
  /\ answer = "none" /\ valued = {}

Add(f) ==
  /\ frames' = [frames EXCEPT ![Top] = @ \cup {f}]
  /\ Stale /\ UNCHANGED interp

Push ==
  /\ Top < MaxFrames
  /\ frames' = Append(frames, {})
  /\ Stale /\ UNCHANGED interp

Pop ==
  /\ Top > 1
  /\ frames' = SubSeq(frames, 1, Top - 1)
  /\ Stale /\ UNCHANGED interp

\* Interpolants are not available any more after a reset.
Reset ==
  /\ frames' = <<{}>> /\ interp' = FALSE
  /\ Stale

CheckSat ==
  /\ answer' \in {"unknown", "no solver",
                  IF Satisfiable(InForce) THEN "sat" ELSE "unsat"}
  /\ valued' = {}
  /\ UNCHANGED <<frames, interp>>

\* A model has a value for every variable that occurs, or is no model at all.
GetModel ==
  /\ answer = "sat"
  /\ \/ /\ answer' = "model"
        /\ valued' \in {V \in SUBSET Name :
                          \A f \in InForce : VarsOf(f) \subseteq V}
     \/ answer' \in {"failed", "no solver"} /\ valued' = {}
  /\ UNCHANGED <<frames, interp>>

GetInterp ==
  /\ \/ answer' \in {"failed", "no solver"}
     \/ interp /\ ~Satisfiable(InForce) /\ answer' = "interpolants"
  /\ valued' = {}
  /\ UNCHANGED <<frames, interp>>

Next ==
  \/ \E f \in Formula : Add(f)
  \/ Push \/ Pop \/ Reset \/ CheckSat \/ GetModel \/ GetInterp

Spec == Init /\ [][Next]_vars
=============================================================================
