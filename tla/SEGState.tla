------------------------------ MODULE SEGState ------------------------------
(***************************************************************************)
(* The abstract program states of the termination prover, one per vertex   *)
(* of the symbolic execution graph (SEG), and the three operations on      *)
(* them: evaluate an instruction, decide whether one state generalises     *)
(* another, merge two states (src/src/Termination).                        *)
(*                                                                         *)
(* A SEGState of the code holds symbolic expressions; here an expression   *)
(* is a member of a finite set of predicates over the local variables.     *)
(* A local variable is named by the instruction that defines it, so the    *)
(* renaming mu of the code (computeMu, substitute), which maps the         *)
(* variables of one state to those of another, is the identity on          *)
(* predicates, and giving an instruction a fresh symbol means forgetting   *)
(* the predicates about its previous value.                                *)
(***************************************************************************)
EXTENDS Naturals, Sequences

CONSTANTS
  PC,         \* program counters: the instructions of main
  EntryPC,    \* the first instruction of main
  Inst,       \* what each instruction is, a record of Instruction
  Local,      \* local variables: the instructions that produce a value
  Pred,       \* predicates that occur in KB and FO
  AllocCell,  \* entries [v1, v2] of an allocation list AL
  PointCell,  \* entries ad -> val of a pointer table PT
  About,      \* the locals a predicate mentions
  Split,      \* the predicates splitEq or splitNEq makes of a predicate
  Derive,     \* getPredicate: what KB, AL and PT together list in FO
  Implied     \* the solver: the predicates that follow from a set of them

Cells == AllocCell \cup PointCell

Kinds == {"alloca", "load", "store", "assign", "icmp", "br", "cond", "ret",
          "unsupported"}

(***************************************************************************)
(* next lists the program counters control may move to (both branches of   *)
(* a conditional br, the true one first), phi the locals the phi nodes of  *)
(* each of those blocks define, learn the sets of predicates the new       *)
(* symbols may be related to the old ones by. ifTrue and ifFalse are the   *)
(* condition an icmp or br tests and its negation, one and zero the        *)
(* predicates "result = 1" and "result = 0" of an icmp. cells names the    *)
(* entry an alloca, load or store adds to AL or PT: the code gives it a    *)
(* fresh symbol each time, the model one of these names, so two of them    *)
(* are enough for an entry to differ from the one of an earlier visit.     *)
(***************************************************************************)
Instruction ==
  [kind : Kinds, next : Seq(PC), phi : Seq(SUBSET Local),
   learn : SUBSET SUBSET Pred, ifTrue : Pred, ifFalse : Pred,
   one : Pred, zero : Pred, cells : SUBSET Cells]

ASSUME ProgramAssumption ==
  /\ EntryPC \in PC
  /\ Inst \in [PC -> Instruction]
  /\ About \in [Pred -> SUBSET Local]
  /\ \A p \in PC :
       /\ Inst[p].kind \notin {"ret", "unsupported"} =>
            Len(Inst[p].next) = IF Inst[p].kind = "cond" THEN 2 ELSE 1
       /\ Len(Inst[p].phi) = Len(Inst[p].next)
       /\ Inst[p].kind \in {"alloca", "load", "assign", "icmp"} => p \in Local
       /\ Inst[p].kind = "alloca" => Inst[p].cells \subseteq AllocCell
       /\ Inst[p].kind \in {"load", "store"} => Inst[p].cells \subseteq PointCell

\* A state whose kb, al and pt follow from another's lists in FO nothing that
\* does not follow from the other's FO: getPredicate adds only consequences.
ASSUME SolverAssumption ==
  /\ AllocCell \cap PointCell = {}
  /\ Pred \cap Cells = {}
  /\ Derive \in [SUBSET (Pred \cup Cells) -> SUBSET Pred]
  /\ Implied \in [SUBSET Pred -> SUBSET Pred]
  /\ Split \in [Pred -> SUBSET Pred]
  /\ \A S \in SUBSET Pred : S \subseteq Implied[S]
  /\ \A T \in SUBSET Pred :
       \A S \in SUBSET Implied[T] : Implied[S] \subseteq Implied[T]
  /\ \A S \in SUBSET (Pred \cup Cells) : S \cap Pred \subseteq Derive[S]
  /\ \A T \in SUBSET (Pred \cup Cells) :
       \A S \in SUBSET (Implied[Derive[T]] \cup (T \cap Cells)) :
         Derive[S] \subseteq Implied[Derive[T]]

(***************************************************************************)
(* A SEGState: the program counter, the domain of LV, and KB, AL, PT. FO   *)
(* is computed by getPredicate whenever the code builds a state.           *)
(***************************************************************************)
State ==
  [pc : PC, dom : SUBSET Local, kb : SUBSET Pred, al : SUBSET AllocCell,
   pt : SUBSET PointCell]

EntryState == [pc |-> EntryPC, dom |-> {}, kb |-> {}, al |-> {}, pt |-> {}]

FO(s) == Derive[s.kb \cup s.al \cup s.pt]

\* Utils::implies on the predicates of a state, when the solver answers.
Implies(s, p) == p \in Implied[FO(s)]
-----------------------------------------------------------------------------
(***************************************************************************)
(* extendPredicate: an equation adds both of its inequalities, a           *)
(* disequation the strict one that is known to hold (both are known only   *)
(* in a state that cannot be satisfied, where the code adds one of them).  *)
(***************************************************************************)
ExtendPredicate(s) ==
  FO(s) \cup {q \in UNION {Split[p] : p \in FO(s)} : Implies(s, q)}

\* isGeneralizationOf on two states at one program counter
IsGeneralizationOf(g, s) ==
  /\ g.dom = s.dom
  /\ \A p \in g.kb : Implies(s, p)
  /\ g.al \subseteq s.al
  /\ g.pt \subseteq s.pt

\* A merge that does not ask whether the newer state implies the predicates.
MergeKeepingAll(a, b) ==
  [pc |-> a.pc, dom |-> a.dom, kb |-> ExtendPredicate(a),
   al |-> a.al \cap b.al, pt |-> a.pt \cap b.pt]

\* A merge that unites the pointer tables.
MergeUnitingCells(a, b) ==
  [pc |-> a.pc, dom |-> a.dom,
   kb |-> {p \in ExtendPredicate(a) : Implies(b, p)},
   al |-> a.al \cap b.al, pt |-> a.pt \cup b.pt]

\* merge: what the older state lists and both states know
Merge(a, b) ==
  [pc |-> a.pc, dom |-> a.dom,
   kb |-> {p \in ExtendPredicate(a) : Implies(b, p)},
   al |-> a.al \cap b.al, pt |-> a.pt \cap b.pt]
-----------------------------------------------------------------------------
(***************************************************************************)
(* What KB says of the variables other than vars: the predicates that do   *)
(* not mention vars, and what the others imply about them. The code keeps  *)
(* all of KB, in which the previous values of vars live on as symbols that *)
(* no variable has any more.                                               *)
(***************************************************************************)
Kept(s, vars) ==
  LET untouched == {p \in s.kb : About[p] \cap vars = {}} IN
  untouched \cup
    {p \in Implied[s.kb] \ Implied[untouched] : About[p] \cap vars = {}}

(***************************************************************************)
(* evaluate. Move(s, k, vars, facts, al, pt) is the successor at the k-th  *)
(* next program counter after the variables vars got fresh symbols known   *)
(* to satisfy facts.                                                       *)
(***************************************************************************)
Move(s, k, vars, facts, al, pt) ==
  [pc  |-> Inst[s.pc].next[k],
   dom |-> s.dom \cup vars,
   kb  |-> Kept(s, vars) \cup facts,
   al  |-> al,
   pt  |-> pt]

\* a table with one of an instruction's cells added
WithCell(table, s) == {table \cup {c} : c \in Inst[s.pc].cells}

\* alloca: a fresh address, its cell in AL
Alloca(s) ==
  {Move(s, 1, {s.pc}, f, al, s.pt) :
     f \in Inst[s.pc].learn, al \in WithCell(s.al, s)}

\* load: a fresh value, PT gains the cell read
Load(s) ==
  {Move(s, 1, {s.pc}, f, s.al, pt) :
     f \in Inst[s.pc].learn, pt \in WithCell(s.pt, s)}

\* store: PT keeps the cells proved disjoint from the address written, which
\* the solver may prove of any of them, and gains the one written
Store(s) ==
  {Move(s, 1, {}, f, s.al, pt) :
     f \in Inst[s.pc].learn,
     pt \in UNION {WithCell(kept, s) : kept \in SUBSET s.pt}}

\* binary operators, call, bitcast, sext, zext
Assign(s) ==
  {Move(s, 1, {s.pc}, f, s.al, s.pt) : f \in Inst[s.pc].learn}

\* icmp with a known outcome
ICmp(s) ==
  IF Implies(s, Inst[s.pc].ifTrue)
    THEN {Move(s, 1, {s.pc}, {Inst[s.pc].one}, s.al, s.pt)}
    ELSE {Move(s, 1, {s.pc}, {Inst[s.pc].zero}, s.al, s.pt)}

\* a branch to the k-th successor block and the phi nodes at its head
Branch(s, k) ==
  {Move(s, k, Inst[s.pc].phi[k], f, s.al, s.pt) : f \in Inst[s.pc].learn}

CondBranch(s) ==
  IF Implies(s, Inst[s.pc].ifTrue) THEN Branch(s, 1) ELSE Branch(s, 2)

\* "not enough information": the condition is neither known to hold nor to fail
NeedsRefinement(s) ==
  /\ Inst[s.pc].kind \in {"icmp", "cond"}
  /\ ~Implies(s, Inst[s.pc].ifTrue)
  /\ ~Implies(s, Inst[s.pc].ifFalse)

\* the two states of a refinement: the same instruction, one more predicate
RefineTrue(s)  == [s EXCEPT !.kb = @ \cup {Inst[s.pc].ifTrue}]
RefineFalse(s) == [s EXCEPT !.kb = @ \cup {Inst[s.pc].ifFalse}]

\* The states evaluate may return alone, when it does not refine. A ret returns
\* the NULL state instead, an unsupported instruction nothing.
Evaluate(s) ==
  CASE Inst[s.pc].kind = "alloca" -> Alloca(s)
    [] Inst[s.pc].kind = "load"   -> Load(s)
    [] Inst[s.pc].kind = "store"  -> Store(s)
    [] Inst[s.pc].kind = "assign" -> Assign(s)
    [] Inst[s.pc].kind = "icmp"   -> ICmp(s)
    [] Inst[s.pc].kind = "br"     -> Branch(s, 1)
    [] Inst[s.pc].kind = "cond"   -> CondBranch(s)
    [] OTHER -> {}
=============================================================================
