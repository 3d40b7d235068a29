------------------------------ MODULE MCSolver ------------------------------
(***************************************************************************)
(* A few formulas for the solver: x, its negation, and y that implies x.   *)
(* A set of them has a model unless it has a formula and the negation of x.*)
(***************************************************************************)
EXTENDS Z3RawSolver

Vars(f) == IF f = "y implies x" THEN {"x", "y"} ELSE {"x"}

Consistent(F) == ~({"x", "not x"} \subseteq F)
=============================================================================
