------------------------------ MODULE SEGRules ------------------------------
(***************************************************************************)
(* The rules toKITTEL writes, read the way KITTeL reads them: v0, ..., vn  *)
(* are integers any of which an instance of a rule may start with, a rule  *)
(* applies when its condition holds of them, and replaces those mu names.  *)
(* This is for programs that keep all they have in locals, so that a       *)
(* memory is a valuation of the locals.                                    *)
(***************************************************************************)
EXTENDS SEGRuns, FiniteSets

CONSTANT Value  \* the values of a local; Memory is [Local -> Value]

\* The symbols in the states of the delivered graph
Symbol ==
  UNION {{LV[v][l] : l \in st[v].dom} : v \in {u \in copied : st[u] # NULL}}

Valuation == [Symbol -> Value]

\* The condition of a rule, FO of its source, holds of the symbols of that state.
\* (The code's FO also has what it knows of symbols no local has any more.)
Applies(r, sigma) ==
  \E m \in Memory :
    /\ \A l \in st[r.src].dom : m[l] = sigma[LV[r.src][l]]
    /\ Meets(m, FO(st[r.src]))

\* The arguments of the right-hand side
After(r, sigma) ==
  [s \in Symbol |-> IF s \in DOMAIN r.mu THEN sigma[r.mu[s]] ELSE sigma[s]]

\* The terms KITTeL can have after n rewrites of a term at the entry
Rewritten[n \in Nat] ==
  IF n = 0
    THEN {Entry} \X Valuation
    ELSE UNION {{<<r.tgt, After(r, term[2])>> :
                    r \in {q \in rules : q.src = term[1] /\ Applies(q, term[2])}} :
                  term \in Rewritten[n - 1]}

\* Where main can be after n instructions
Reached[n \in Nat] ==
  IF n = 0
    THEN {EntryPC} \X Memory
    ELSE UNION {Step[at] : at \in Reached[n - 1]}

\* A run of so many instructions has come to one place twice with the same
\* memory, so that main can go on for ever.
Long == Cardinality(PC \X Memory)

(***************************************************************************)
(* "true" is reported of a program when KITTeL proves its rules            *)
(* terminating, so the rules of a program that can run for ever should not *)
(* come to a stop. They do: every rule carries v0, ..., vn over as they    *)
(* are, but for those mu replaces on a generalization. The symbol of an    *)
(* instruction in a loop is no symbol of the state the loop starts from    *)
(* again. It keeps its value, and the condition that relates it to the     *)
(* others fails the next time round.                                       *)
(***************************************************************************)
EndlessRunsRewritten ==
  phase = "done" /\ Reached[Long] # {} => Rewritten[Long] # {}
=============================================================================
