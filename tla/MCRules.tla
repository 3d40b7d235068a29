------------------------------ MODULE MCRules ------------------------------
(***************************************************************************)
(* A loop that never ends, for the model checker:                          *)
(*   1: br 2     x = phi(0, y)  (local 20)                                 *)
(*   2: y = sub 1, x                                                       *)
(*   3: br 2                                                               *)
(* Two values lose nothing: x and y are never anything else.               *)
(***************************************************************************)
EXTENDS Integers, SEGRules

FlipPC == 1 .. 3
FlipLocal == {2, 20}
FlipValue == 0 .. 1
FlipMemory == [FlipLocal -> FlipValue]

Op(kind, next, phi, learn) ==
  [kind |-> kind, next |-> next, phi |-> phi, learn |-> {learn},
   ifTrue |-> "x=0", ifFalse |-> "x=0", one |-> "x=0", zero |-> "x=0",
   cells |-> {}]

FlipInst ==
  [p \in FlipPC |->
    CASE p = 1 -> Op("br", <<2>>, <<{20}>>, {"x=0"})
      [] p = 2 -> Op("assign", <<3>>, <<{}>>, {"y=1-x"})
      [] p = 3 -> Op("br", <<2>>, <<{20}>>, {"x=y"})]

FlipSat ==
  [p \in {"x=0", "y=1-x", "x=y"} |->
    {m \in FlipMemory :
      CASE p = "x=0"   -> m[20] = 0
        [] p = "y=1-x" -> m[2] = 1 - m[20]
        [] p = "x=y"   -> m[20] = m[2]}]

FlipPred == DOMAIN FlipSat

FlipAbout == [p \in FlipPred |-> IF p = "x=0" THEN {20} ELSE {2, 20}]

FlipImplied ==
  [S \in SUBSET FlipPred |->
    {p \in FlipPred :
       \A m \in FlipMemory : (\A q \in S : m \in FlipSat[q]) => m \in FlipSat[p]}]

FlipDerive == [S \in SUBSET FlipPred |-> S]
FlipSplit == [p \in FlipPred |-> {}]

FlipStep ==
  [pm \in FlipPC \X FlipMemory |->
    LET m == pm[2] IN
    CASE pm[1] = 1 -> {<<2, [m EXCEPT ![20] = 0]>>}
      [] pm[1] = 2 -> {<<3, [m EXCEPT ![2] = 1 - m[20]]>>}
      [] pm[1] = 3 -> {<<2, [m EXCEPT ![20] = m[2]]>>}]
=============================================================================
