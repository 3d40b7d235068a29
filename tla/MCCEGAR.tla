------------------------------ MODULE MCCEGAR ------------------------------
(***************************************************************************)
(* Programs for the model checker. In the loop the error is not reached;   *)
(* in the branch it is, by way of R, unless R sets x to 1 (FixedStep).     *)
(*                                                                         *)
(*   E: br H                                E: x = nondet                  *)
(*   H: i = phi(E: 0, B: j)                    br x = 0, R, L              *)
(*      br i < 2, B, X                      L: br J                        *)
(*   B: j = i + 1; br H                     R: br J                        *)
(*   X: br i < 2, ERROR, OK                 J: br x = 1, OK, ERROR         *)
(***************************************************************************)
EXTENDS CEGAR

-----------------------------------------------------------------------------
LoopLoc == {"E", "H", "B", "X", "OK", "ERROR"}

LoopSucc ==
  [l \in LoopLoc |->
    CASE l = "E" -> <<"H">>
      [] l = "H" -> <<"B", "X">>
      [] l = "B" -> <<"H">>
      [] l = "X" -> <<"ERROR", "OK">>
      [] OTHER -> <<>>]

LoopVal == [i : 0 .. 2, j : 0 .. 2]

\* What block H, entered from sel, makes of v.
LoopHead(sel, v) == [v EXCEPT !.i = IF sel = "E" THEN 0 ELSE v.j]

LoopStep ==
  [t \in (LoopLoc \cup {"none"}) \X LoopLoc \X LoopLoc |->
    {vw \in LoopVal \X LoopVal :
      LET v == vw[1]
          w == vw[2]
      IN CASE t[2] = "E" /\ t[3] = "H" -> w = v
           [] t[2] = "H" /\ t[3] = "B" -> w = LoopHead(t[1], v) /\ w.i < 2
           [] t[2] = "H" /\ t[3] = "X" -> w = LoopHead(t[1], v) /\ w.i >= 2
           [] t[2] = "B" /\ t[3] = "H" -> w.i = v.i /\ w.j = v.i + 1
           [] t[2] = "X" /\ t[3] = "ERROR" -> w = v /\ v.i < 2
           [] t[2] = "X" /\ t[3] = "OK" -> w = v /\ v.i >= 2
           [] OTHER -> FALSE}]

LoopPred ==
  {{v \in LoopVal : v.i >= 2}, {v \in LoopVal : v.j <= 1}, LoopVal}
-----------------------------------------------------------------------------
BranchLoc == {"E", "L", "R", "J", "OK", "ERROR"}

BranchSucc ==
  [l \in BranchLoc |->
    CASE l = "E" -> <<"R", "L">>
      [] l \in {"L", "R"} -> <<"J">>
      [] l = "J" -> <<"OK", "ERROR">>
      [] OTHER -> <<>>]

BranchVal == [x : 0 .. 1]

BranchStep ==
  [t \in (BranchLoc \cup {"none"}) \X BranchLoc \X BranchLoc |->
    {vw \in BranchVal \X BranchVal :
      LET v == vw[1]
          w == vw[2]
      IN CASE t[2] = "E" /\ t[3] = "L" -> w.x = 1
           [] t[2] = "E" /\ t[3] = "R" -> w.x = 0
           [] t[2] \in {"L", "R"} /\ t[3] = "J" -> w = v
           [] t[2] = "J" /\ t[3] = "OK" -> w = v /\ v.x = 1
           [] t[2] = "J" /\ t[3] = "ERROR" -> w = v /\ v.x = 0
           [] OTHER -> FALSE}]

FixedStep ==
  [t \in DOMAIN BranchStep |->
    IF t[2] = "R" /\ t[3] = "J"
      THEN {vw \in BranchVal \X BranchVal : vw[2].x = 1}
      ELSE BranchStep[t]]

BranchPred == {{v \in BranchVal : v.x = 1}, BranchVal}
=============================================================================
