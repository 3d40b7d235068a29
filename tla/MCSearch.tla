------------------------------ MODULE MCSearch ------------------------------
(***************************************************************************)
(* Programs for the model checker, given by the paths that have a model.   *)
(*                                                                         *)
(* Nested loops, two turns of the outer, at most two of the inner each:    *)
(*   E: i = 0; br H            H: br i < 2, B, X                           *)
(*   B: br nondet, B, L        L: i++; br H                                *)
(*   X: br nondet, ERROR, OK   OK: br S     S: br S                        *)
(*                                                                         *)
(* Branches that meet; a switch with a failed assumption and a successor   *)
(* twice among its successors; an error and a call that are not reached:   *)
(*   E: br nondet, P, Q        P: br J       Q: br J                       *)
(*   J: switch nondet, ERROR, K, FAIL, K    K: br nondet, ERROR, CALL, OK  *)
(***************************************************************************)
EXTENDS BoundedSearch

NestedLoc == {"E", "H", "B", "L", "X", "OK", "S", "ERROR"}

NestedSucc ==
  [l \in NestedLoc |->
    CASE l = "E" -> <<"H">>
      [] l = "H" -> <<"B", "X">>
      [] l = "B" -> <<"B", "L">>
      [] l = "L" -> <<"H">>
      [] l = "X" -> <<"ERROR", "OK">>
      [] l \in {"OK", "S"} -> <<"S">>
      [] OTHER -> <<>>]

NestedSatisfiable(p) ==
  LET Turns(n) == Cardinality({i \in 1 .. n : p[i] = "L"}) IN
  \A i \in 1 .. Len(p) - 1 :
    /\ p[i] = "H" => IF Turns(i) < 2 THEN p[i + 1] = "B" ELSE p[i + 1] = "X"
    /\ p[i] = "B" /\ p[i + 1] = "B" => p[i - 1] # "B"
-----------------------------------------------------------------------------
JoinLoc == {"E", "P", "Q", "J", "K", "FAIL", "CALL", "OK", "ERROR"}

JoinSucc ==
  [l \in JoinLoc |->
    CASE l = "E" -> <<"P", "Q">>
      [] l \in {"P", "Q"} -> <<"J">>
      [] l = "J" -> <<"ERROR", "K", "FAIL", "K">>
      [] l = "K" -> <<"ERROR", "CALL", "OK">>
      [] OTHER -> <<>>]

JoinSatisfiable(p) ==
  \A i \in DOMAIN p : p[i] \notin {"ERROR", "CALL"}
=============================================================================
