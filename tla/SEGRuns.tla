------------------------------ MODULE SEGRuns ------------------------------
(***************************************************************************)
(* What the graph behind the rules for KITTeL says of the runs of main.    *)
(* The prover knows the program by its instructions only; what they do to  *)
(* a memory is given here by constants, and so is what the predicates the  *)
(* solver reasons about are true of.                                       *)
(***************************************************************************)
EXTENDS SEGManager

CONSTANTS
  Memory,  \* what the locals and the memory of main can hold
  Sat,     \* the memories a predicate or an entry of AL or PT is true of
  Step     \* where main can go from an instruction with a memory

Meets(m, S) == \A p \in S : m \in Sat[p]

\* The solver and getPredicate conclude only what is true, a condition or its
\* negation is true, and no memory meets every predicate, as both are among
\* them. The program ends at a ret.
ASSUME SemanticsAssumption ==
  /\ Sat \in [Pred \cup Cells -> SUBSET Memory]
  /\ Step \in [PC \X Memory -> SUBSET (PC \X Memory)]
  /\ \A m \in Memory :
       /\ \A S \in SUBSET Pred : Meets(m, S) => Meets(m, Implied[S])
       /\ \A S \in SUBSET (Pred \cup Cells) : Meets(m, S) => Meets(m, Derive[S])
       /\ ~Meets(m, Pred)
       /\ \A p \in PC :
            /\ Inst[p].kind \in {"icmp", "cond"} =>
                 m \in Sat[Inst[p].ifTrue] \cup Sat[Inst[p].ifFalse]
            /\ Inst[p].kind = "ret" => Step[<<p, m>>] = {}
-----------------------------------------------------------------------------
\* A state of the graph stands for main at its program counter with any memory
\* of which all that the state lists is true.
Describes(s, p, m) ==
  s # NULL /\ s.pc = p /\ Meets(m, s.kb \cup s.al \cup s.pt)

\* The state t evaluate makes of s stands for all that s can become.
EvaluatesRight(s, t) ==
  \A m \in Memory : Describes(s, s.pc, m) =>
    \A next \in Step[<<s.pc, m>>] : Describes(t, next[1], next[2])

EvaluatedRight ==
  \A e \in dest : e.type = "evaluation" => EvaluatesRight(st[e.src], st[e.tgt])

(***************************************************************************)
(* A program that keeps its variables in registers and does what the       *)
(* prover knows of its instructions: control moves to a next instruction,  *)
(* by the condition where there is one; the facts about new symbols are    *)
(* true, and what does not speak of them stays as it was.                  *)
(***************************************************************************)
InstructionsRight ==
  \A p \in PC, m \in Memory :
    /\ Inst[p].kind \notin {"alloca", "load", "store"}
    /\ \A next \in Step[<<p, m>>] : \E k \in 1 .. Len(Inst[p].next) :
         /\ next[1] = Inst[p].next[k]
         /\ Inst[p].kind = "cond" =>
              /\ k = 1 <=> m \in Sat[Inst[p].ifTrue]
              /\ k = 2 <=> m \in Sat[Inst[p].ifFalse]
         /\ IF Inst[p].kind = "icmp"
              THEN /\ m \in Sat[Inst[p].ifTrue] => next[2] \in Sat[Inst[p].one]
                   /\ m \in Sat[Inst[p].ifFalse] => next[2] \in Sat[Inst[p].zero]
              ELSE \A f \in Inst[p].learn : Meets(next[2], f)
         /\ \A q \in Pred : m \in Sat[q] /\ About[q] \cap Defined(p, k) = {} =>
              next[2] \in Sat[q]
         /\ \A q \in Cells : m \in Sat[q] => next[2] \in Sat[q]

\* The edges along which toKITTEL has written a rule
Ruled == {e \in dest : \E r \in rules : r.src = e.src /\ r.tgt = e.tgt}

\* The vertices such edges lead to from V without an instruction being run
Silently(V, p, m) ==
  V \cup {e.tgt : e \in {f \in Ruled : /\ f.src \in V /\ f.type # "evaluation"
                                       /\ Describes(st[f.tgt], p, m)}}

\* The edges of evaluations that can be the next to run an instruction
EvaluatedFrom(v, p, m) ==
  LET reached == Silently(Silently(Silently({v}, p, m), p, m), p, m) IN
  {e \in Ruled : e.src \in reached /\ e.type = "evaluation"}

\* From a vertex that stands for main where it is, edges lead to one that stands
\* for main wherever it goes.
WalkGoesOn ==
  \A v \in copied, m \in Memory : \A p \in PC : Describes(st[v], p, m) =>
    \A next \in Step[<<p, m>>] :
      \E e \in EvaluatedFrom(v, p, m) : Describes(st[e.tgt], next[1], next[2])

(***************************************************************************)
(* Each run of main is a walk over the delivered graph: from the entry on, *)
(* an evaluation for each instruction with at most three edges before it   *)
(* that only generalise or split, each vertex standing for main where it   *)
(* is, and a rule written for each edge. It is so for programs without     *)
(* memory accesses, and for all others when each evaluation was right about*)
(* its one instruction, the cells it kept included. Every merge, every     *)
(* redirected edge, what simplifySEG copies and what reduce drops bear on  *)
(* it. It says between which vertices there are rules and nothing of what  *)
(* they do to v0, ..., vn: a walk reads the symbols of a state anew each   *)
(* time it comes by. SEGRules.tla has the rules as they are written, and   *)
(* those do not follow main.                                               *)
(***************************************************************************)
RunsWalked ==
  phase = "done" /\ (InstructionsRight \/ EvaluatedRight) =>
    /\ Entry \in copied
    /\ \A m \in Memory : Describes(st[Entry], EntryPC, m)
    /\ WalkGoesOn
=============================================================================
