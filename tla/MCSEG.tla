------------------------------- MODULE MCSEG -------------------------------
(***************************************************************************)
(* Two small programs for the model checker. A predicate stands for the    *)
(* set of valuations of the locals that satisfy it, so the solver          *)
(* (Implied) is implication between such sets.                             *)
(*                                                                         *)
(* Memory loop, as clang -O0       Nested loops that a call decides        *)
(* writes it:                      to leave, in SSA form:                  *)
(*   1: p = alloca                   1: br 2     i = phi(0, i)  (local 20) *)
(*   2: store 0, p                   2: c = call                           *)
(*   3: br 4                         3: br c, 4, 7                         *)
(*   4: x = load p                   4: d = call                           *)
(*   5: c = icmp x < n               5: br d, 4, 6                         *)
(*   6: br c, 7, 10                  6: br 2                               *)
(*   7: y = add x, 1                 7: ret                                *)
(*   8: store y, p                                                         *)
(*   9: br 4                                                               *)
(*  10: ret                                                                *)
(***************************************************************************)
EXTENDS Integers, SEGRuns

\* An instruction with the fields its kind does not use filled in.
Op(kind, next, phi, learn) ==
  [kind |-> kind, next |-> next, phi |-> phi, learn |-> learn,
   ifTrue |-> "c=1", ifFalse |-> "c=0", one |-> "c=1", zero |-> "c=0",
   cells |-> {}]
-----------------------------------------------------------------------------
MemPC == 1 .. 10
MemLocal == {1, 4, 5, 7}

\* The cell the load adds is p -> x, those the stores add hold a value no
\* local names.
MemInst ==
  [p \in MemPC |->
    CASE p = 1  -> [Op("alloca", <<2>>, <<{}>>, {{}}) EXCEPT !.cells = {"al"}]
      [] p = 2  -> [Op("store", <<3>>, <<{}>>, {{}}) EXCEPT !.cells = {"u"}]
      [] p = 3  -> Op("br", <<4>>, <<{}>>, {{}})
      [] p = 4  -> [Op("load", <<5>>, <<{}>>, {{"x=0"}, {}})
                      EXCEPT !.cells = {"p->x"}]
      [] p = 5  -> [Op("icmp", <<6>>, <<{}>>, {{}})
                      EXCEPT !.ifTrue = "x<n", !.ifFalse = "x>=n"]
      [] p = 6  -> Op("cond", <<7, 10>>, <<{}, {}>>, {{}})
      [] p = 7  -> Op("assign", <<8>>, <<{}>>, {{}})
      [] p = 8  -> [Op("store", <<9>>, <<{}>>, {{}}) EXCEPT !.cells = {"u", "w"}]
      [] p = 9  -> Op("br", <<4>>, <<{}>>, {{}})
      [] p = 10 -> Op("ret", <<>>, <<>>, {})]

\* m is what p points to.
MemVal == [x : 0 .. 1, n : 0 .. 2, c : 0 .. 1, m : 0 .. 1]

MemSat ==
  [p \in {"x=0", "x>=0", "x<n", "x>=n", "c=1", "c=0"} |->
    {v \in MemVal :
      CASE p = "x=0"  -> v.x = 0
        [] p = "x>=0" -> v.x >= 0
        [] p = "x<n"  -> v.x < v.n
        [] p = "x>=n" -> v.x >= v.n
        [] p = "c=1"  -> v.c = 1
        [] p = "c=0"  -> v.c = 0}]

MemPred == DOMAIN MemSat

MemAbout ==
  [p \in MemPred |-> IF p \in {"c=1", "c=0"} THEN {5} ELSE {4}]

MemImplied ==
  [S \in SUBSET MemPred |->
    {p \in MemPred :
       \A v \in MemVal : (\A q \in S : v \in MemSat[q]) => v \in MemSat[p]}]

\* Reading a cell lists what is known of the value it holds.
MemDerive ==
  [S \in SUBSET (MemPred \cup {"al", "u", "w", "p->x"}) |->
    (S \cap MemPred) \cup (IF {"u", "p->x"} \subseteq S THEN {"x=0"} ELSE {})]

MemSplit == [p \in MemPred |-> IF p = "x=0" THEN {"x>=0"} ELSE {}]

MemMeaning ==
  [p \in MemPred \cup {"al", "u", "w", "p->x"} |->
    CASE p = "u"    -> {v \in MemVal : v.m = 0}
      [] p = "p->x" -> {v \in MemVal : v.m = v.x}
      [] p \in {"al", "w"} -> MemVal
      [] OTHER -> MemSat[p]]

MemStep ==
  [pm \in MemPC \X MemVal |->
    LET v == pm[2] IN
    CASE pm[1] = 2 -> {<<3, [v EXCEPT !.m = 0]>>}
      [] pm[1] = 4 -> {<<5, [v EXCEPT !.x = v.m]>>}
      [] pm[1] = 5 -> {<<6, [v EXCEPT !.c = IF v.x < v.n THEN 1 ELSE 0]>>}
      [] pm[1] = 6 -> {<<IF v.c = 1 THEN 7 ELSE 10, v>>}
      [] pm[1] = 8 -> {<<9, [v EXCEPT !.m = 1]>>}
      [] pm[1] = 9 -> {<<4, v>>}
      [] pm[1] = 10 -> {}
      [] OTHER -> {<<pm[1] + 1, v>>}]
-----------------------------------------------------------------------------
NestedPC == 1 .. 7
NestedLocal == {2, 4, 20}

\* What is known of the next i the model leaves open.
NestedInst ==
  [p \in NestedPC |->
    CASE p = 1 -> Op("br", <<2>>, <<{20}>>, {{"i=0"}})
      [] p = 2 -> Op("assign", <<3>>, <<{}>>, {{}})
      [] p = 3 -> Op("cond", <<4, 7>>, <<{}, {}>>, {{}})
      [] p = 4 -> Op("assign", <<5>>, <<{}>>, {{}})
      [] p = 5 -> [Op("cond", <<4, 6>>, <<{}, {}>>, {{}})
                     EXCEPT !.ifTrue = "d=1", !.ifFalse = "d=0"]
      [] p = 6 -> Op("br", <<2>>, <<{20}>>, {{"i=0"}, {"i>=0"}, {"i<=0"}, {}})
      [] p = 7 -> Op("ret", <<>>, <<>>, {})]

NestedVal == [i : -1 .. 1, c : 0 .. 1, d : 0 .. 1]

NestedSat ==
  [p \in {"i=0", "i>=0", "i<=0", "c=1", "c=0", "d=1", "d=0"} |->
    {v \in NestedVal :
      CASE p = "i=0"  -> v.i = 0
        [] p = "i>=0" -> v.i >= 0
        [] p = "i<=0" -> v.i <= 0
        [] p = "c=1"  -> v.c = 1
        [] p = "c=0"  -> v.c = 0
        [] p = "d=1"  -> v.d = 1
        [] p = "d=0"  -> v.d = 0}]

NestedPred == DOMAIN NestedSat

NestedAbout ==
  [p \in NestedPred |->
    CASE p \in {"i=0", "i>=0", "i<=0"} -> {20}
      [] p \in {"c=1", "c=0"} -> {2}
      [] OTHER -> {4}]

NestedImplied ==
  [S \in SUBSET NestedPred |->
    {p \in NestedPred :
       \A v \in NestedVal :
         (\A q \in S : v \in NestedSat[q]) => v \in NestedSat[p]}]

NestedDerive == [S \in SUBSET NestedPred |-> S]

NestedSplit == [p \in NestedPred |-> IF p = "i=0" THEN {"i>=0", "i<=0"} ELSE {}]

\* i stays 0, both calls return anything.
NestedStep ==
  [pm \in NestedPC \X NestedVal |->
    LET v == pm[2] IN
    CASE pm[1] \in {1, 6} -> {<<2, [v EXCEPT !.i = 0]>>}
      [] pm[1] = 2 -> {<<3, [v EXCEPT !.c = b]>> : b \in 0 .. 1}
      [] pm[1] = 3 -> {<<IF v.c = 1 THEN 4 ELSE 7, v>>}
      [] pm[1] = 4 -> {<<5, [v EXCEPT !.d = b]>> : b \in 0 .. 1}
      [] pm[1] = 5 -> {<<IF v.d = 1 THEN 4 ELSE 6, v>>}
      [] pm[1] = 7 -> {}]
=============================================================================
