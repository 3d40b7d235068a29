--------------------------- MODULE SEGState_proofs ---------------------------
(***************************************************************************)
(* What the operations on SEG states return, for every program and every   *)
(* solver that satisfies SolverAssumption.                                 *)
(***************************************************************************)
EXTENDS SEGState, TLAPS

\* getPredicate returns a set of predicates.
LEMMA FOType ==
  ASSUME NEW s \in State
  PROVE  FO(s) \in SUBSET Pred /\ Implied[FO(s)] \in SUBSET Pred
<1>1. s.kb \cup s.al \cup s.pt \in SUBSET (Pred \cup Cells)
  BY DEF State, Cells
<1> QED BY <1>1, SolverAssumption DEF FO

\* The predicates of a state follow from its FO.
LEMMA KnowsItsOwn ==
  ASSUME NEW s \in State, NEW p, p \in s.kb \/ p \in FO(s)
  PROVE  Implies(s, p)
<1>1. s.kb \cup s.al \cup s.pt \in SUBSET (Pred \cup Cells)
  BY DEF State, Cells
<1>2. s.kb \subseteq FO(s)
  <2>1. s.kb \subseteq Pred
    BY DEF State
  <2> QED BY <1>1, <2>1, SolverAssumption DEF FO
<1>3. FO(s) \subseteq Implied[FO(s)]
  BY FOType, SolverAssumption
<1> QED BY <1>2, <1>3 DEF Implies

\* What evaluate makes of an instruction with one next program counter or of a
\* known condition is a state.
LEMMA MoveType ==
  ASSUME NEW s \in State, NEW k \in 1 .. Len(Inst[s.pc].next),
         NEW vars \in SUBSET Local, NEW facts \in SUBSET Pred,
         NEW al \in SUBSET AllocCell, NEW pt \in SUBSET PointCell
  PROVE  Move(s, k, vars, facts, al, pt) \in State
<1>1. Inst[s.pc] \in Instruction
  BY ProgramAssumption DEF State
<1>2. Inst[s.pc].next \in Seq(PC)
  BY <1>1 DEF Instruction
<1>3. Inst[s.pc].next[k] \in PC
  BY <1>2
<1>4. Kept(s, vars) \cup facts \in SUBSET Pred
  <2>1. s.kb \in SUBSET Pred /\ Implied[s.kb] \in SUBSET Pred
    BY SolverAssumption DEF State
  <2> QED BY <2>1 DEF Kept
<1>5. s.dom \cup vars \in SUBSET Local
  BY DEF State
<1> QED BY <1>3, <1>4, <1>5 DEF Move, State

\* evaluate maps states to states.
LEMMA EvaluateType ==
  ASSUME NEW s \in State, NEW t \in Evaluate(s)
  PROVE  t \in State
<1> DEFINE inst == Inst[s.pc]
<1>1. inst \in Instruction /\ s.pc \in PC
  BY ProgramAssumption DEF State
<1>2. /\ inst.next \in Seq(PC) /\ inst.phi \in Seq(SUBSET Local)
      /\ inst.learn \in SUBSET SUBSET Pred
      /\ inst.one \in Pred /\ inst.zero \in Pred
  BY <1>1 DEF Instruction
<1>3. /\ s.al \in SUBSET AllocCell /\ s.pt \in SUBSET PointCell
  BY DEF State
<1>4. /\ inst.kind \notin {"ret", "unsupported"} =>
           Len(inst.next) = IF inst.kind = "cond" THEN 2 ELSE 1
      /\ Len(inst.phi) = Len(inst.next)
      /\ inst.kind \in {"alloca", "load", "assign", "icmp"} => s.pc \in Local
      /\ inst.kind = "alloca" => inst.cells \subseteq AllocCell
      /\ inst.kind \in {"load", "store"} => inst.cells \subseteq PointCell
  BY <1>1, ProgramAssumption
<1>4a. /\ inst.kind \in Kinds \ {"cond", "ret", "unsupported"} =>
            1 \in 1 .. Len(inst.next)
       /\ inst.kind = "cond" =>
            1 \in 1 .. Len(inst.next) /\ 2 \in 1 .. Len(inst.next)
  <2>1. inst.kind \in Kinds \ {"cond", "ret", "unsupported"} => Len(inst.next) = 1
    BY <1>4 DEF Kinds
  <2>2. inst.kind = "cond" => Len(inst.next) = 2
    BY <1>4
  <2>3. 1 \in 1 .. 1 /\ 1 \in 1 .. 2 /\ 2 \in 1 .. 2
    OBVIOUS
  <2> QED BY <2>1, <2>2, <2>3, Zenon
<1>5. ASSUME NEW k \in 1 .. Len(inst.next), NEW u \in Branch(s, k)
      PROVE  u \in State
  <2>1. inst.phi[k] \in SUBSET Local
    BY <1>2, <1>4
  <2>2. PICK f \in inst.learn : u = Move(s, k, inst.phi[k], f, s.al, s.pt)
    BY <1>5 DEF Branch
  <2>3. f \in SUBSET Pred
    BY <1>2
  <2> QED BY <1>3, <2>1, <2>2, <2>3, MoveType
<1>6. CASE inst.kind = "alloca"
  <2>1. t \in Alloca(s)
    BY <1>6 DEF Evaluate
  <2>2. PICK f \in inst.learn, al \in WithCell(s.al, s) :
          t = Move(s, 1, {s.pc}, f, al, s.pt)
    BY <2>1 DEF Alloca
  <2>3. al \in SUBSET AllocCell /\ {s.pc} \in SUBSET Local
    BY <1>2, <1>3, <1>4, <1>6 DEF WithCell
  <2>4. f \in SUBSET Pred
    BY <1>2
  <2> QED BY <1>3, <1>4a, <1>6, <2>2, <2>3, <2>4, MoveType DEF Kinds
<1>7. CASE inst.kind = "load"
  <2>1. t \in Load(s)
    BY <1>7 DEF Evaluate
  <2>2. PICK f \in inst.learn, pt \in WithCell(s.pt, s) :
          t = Move(s, 1, {s.pc}, f, s.al, pt)
    BY <2>1 DEF Load
  <2>3. pt \in SUBSET PointCell /\ {s.pc} \in SUBSET Local
    BY <1>2, <1>3, <1>4, <1>7 DEF WithCell
  <2>4. f \in SUBSET Pred
    BY <1>2
  <2> QED BY <1>3, <1>4a, <1>7, <2>2, <2>3, <2>4, MoveType DEF Kinds
<1>8. CASE inst.kind = "store"
  <2>1. t \in Store(s)
    BY <1>8 DEF Evaluate
  <2>2. PICK f \in inst.learn,
               pt \in UNION {WithCell(kept, s) : kept \in SUBSET s.pt} :
          t = Move(s, 1, {}, f, s.al, pt)
    BY <2>1 DEF Store
  <2>3. pt \in SUBSET PointCell /\ {} \in SUBSET Local
    BY <1>2, <1>3, <1>4, <1>8 DEF WithCell
  <2>4. f \in SUBSET Pred
    BY <1>2
  <2> QED BY <1>3, <1>4a, <1>8, <2>2, <2>3, <2>4, MoveType DEF Kinds
<1>9. CASE inst.kind = "assign"
  <2>1. t \in Assign(s)
    BY <1>9 DEF Evaluate
  <2>2. PICK f \in inst.learn :
          t = Move(s, 1, {s.pc}, f, s.al, s.pt)
    BY <2>1 DEF Assign
  <2>3. {s.pc} \in SUBSET Local
    BY <1>2, <1>3, <1>4, <1>9 DEF WithCell
  <2>4. f \in SUBSET Pred
    BY <1>2
  <2> QED BY <1>3, <1>4a, <1>9, <2>2, <2>3, <2>4, MoveType DEF Kinds
<1>10. CASE inst.kind = "icmp"
  <2>1. t \in ICmp(s)
    BY <1>10 DEF Evaluate
  <2>2. PICK f \in {inst.one, inst.zero} :
          t = Move(s, 1, {s.pc}, {f}, s.al, s.pt)
    BY <2>1 DEF ICmp
  <2>3. {s.pc} \in SUBSET Local
    BY <1>2, <1>3, <1>4, <1>10 DEF WithCell
  <2>4. {f} \in SUBSET Pred
    BY <1>2
  <2> QED BY <1>3, <1>4a, <1>10, <2>2, <2>3, <2>4, MoveType DEF Kinds
<1>11. CASE inst.kind = "br"
  <2>1. t \in Branch(s, 1)
    BY <1>11 DEF Evaluate
  <2> QED BY <1>4a, <1>5, <1>11, <2>1 DEF Kinds
<1>12. CASE inst.kind = "cond"
  <2>1. t \in CondBranch(s)
    BY <1>12 DEF Evaluate
  <2> QED BY <1>4a, <1>5, <1>12, <2>1 DEF CondBranch
<1>13. CASE inst.kind \in {"ret", "unsupported"}
  <2>1. t \in {}
    BY <1>13 DEF Evaluate
  <2> QED BY <2>1
<1>14. inst.kind \in Kinds
  BY <1>1 DEF Instruction
<1> QED
  BY <1>6, <1>7, <1>8, <1>9, <1>10, <1>11, <1>12, <1>13, <1>14 DEF Kinds

\* Both states of a refinement are states at the same instruction.
LEMMA RefineType ==
  ASSUME NEW s \in State
  PROVE  RefineTrue(s) \in State /\ RefineFalse(s) \in State
<1>1. Inst[s.pc].ifTrue \in Pred /\ Inst[s.pc].ifFalse \in Pred
  BY ProgramAssumption DEF State, Instruction
<1> QED BY <1>1 DEF RefineTrue, RefineFalse, State
-----------------------------------------------------------------------------
\* extendPredicate lists predicates.
LEMMA ExtendPredicateType ==
  ASSUME NEW s \in State
  PROVE  ExtendPredicate(s) \in SUBSET Pred
<1>1. {q \in UNION {Split[p] : p \in FO(s)} : Implies(s, q)} \subseteq Pred
  BY FOType DEF Implies
<1> QED BY <1>1, FOType DEF ExtendPredicate

\* Every predicate extendPredicate lists follows from the state.
LEMMA ExtendPredicateSound ==
  ASSUME NEW s \in State, NEW p \in ExtendPredicate(s)
  PROVE  Implies(s, p)
BY KnowsItsOwn DEF ExtendPredicate

\* merge makes a state.
LEMMA MergeType ==
  ASSUME NEW a \in State, NEW b \in State
  PROVE  Merge(a, b) \in State
<1>1. {p \in ExtendPredicate(a) : Implies(b, p)} \in SUBSET Pred
  BY ExtendPredicateType
<1> QED BY <1>1 DEF Merge, State

(***************************************************************************)
(* A state that generalises another knows nothing the other does not, also *)
(* of what getPredicate derives from AL and PT.                            *)
(***************************************************************************)
LEMMA GeneralizationForgets ==
  ASSUME NEW g \in State, NEW s \in State, IsGeneralizationOf(g, s),
         NEW p, Implies(g, p)
  PROVE  Implies(s, p)
<1> DEFINE G == g.kb \cup g.al \cup g.pt
           S == s.kb \cup s.al \cup s.pt
<1>1. G \in SUBSET (Pred \cup Cells) /\ S \in SUBSET (Pred \cup Cells)
  BY DEF State, Cells
<1>2. g.kb \subseteq Implied[Derive[S]]
  BY DEF IsGeneralizationOf, Implies, FO
<1>3. g.al \cup g.pt \subseteq S \cap Cells
  BY DEF IsGeneralizationOf, State, Cells
<1>4. G \in SUBSET (Implied[Derive[S]] \cup (S \cap Cells))
  BY <1>2, <1>3
<1>5. Derive[G] \subseteq Implied[Derive[S]]
  BY <1>1, <1>4, SolverAssumption
<1>6. Derive[G] \in SUBSET Pred /\ Derive[S] \in SUBSET Pred
  BY <1>1, SolverAssumption
<1>7. Implied[Derive[G]] \subseteq Implied[Derive[S]]
  <2>1. \A T \in SUBSET Pred :
          \A R \in SUBSET Implied[T] : Implied[R] \subseteq Implied[T]
    BY SolverAssumption
  <2> QED BY <1>5, <1>6, <2>1
<1> QED BY <1>7 DEF Implies, FO

\* isGeneralizationOf is transitive, whatever lies between.
LEMMA GeneralizationTransitive ==
  ASSUME NEW a \in State, NEW b \in State, NEW c \in State,
         IsGeneralizationOf(a, b), IsGeneralizationOf(b, c)
  PROVE  IsGeneralizationOf(a, c)
<1>1. \A p \in a.kb : Implies(c, p)
  <2>1. \A p \in a.kb : Implies(b, p)
    BY DEF IsGeneralizationOf
  <2> QED BY <2>1, GeneralizationForgets
<1> QED BY <1>1 DEF IsGeneralizationOf

(***************************************************************************)
(* merge returns a state that generalises both of its arguments, which     *)
(* procGeneralization relies on without a comparison.                      *)
(***************************************************************************)
THEOREM MergeGeneralizes ==
  ASSUME NEW a \in State, NEW b \in State, a.dom = b.dom
  PROVE  /\ IsGeneralizationOf(Merge(a, b), a)
         /\ IsGeneralizationOf(Merge(a, b), b)
BY ExtendPredicateSound DEF Merge, IsGeneralizationOf

(***************************************************************************)
(* A state that does not generalise another does not generalise the merge  *)
(* of the two either: the merge is strictly weaker than it.                *)
(***************************************************************************)
THEOREM MergeStrictlyWeaker ==
  ASSUME NEW a \in State, NEW b \in State, a.dom = b.dom,
         ~IsGeneralizationOf(a, b)
  PROVE  ~IsGeneralizationOf(a, Merge(a, b))
<1>1. Merge(a, b) \in State /\ IsGeneralizationOf(Merge(a, b), b)
  BY MergeType, MergeGeneralizes
<1> QED BY <1>1, GeneralizationTransitive
=============================================================================
