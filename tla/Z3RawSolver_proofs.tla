------------------------- MODULE Z3RawSolver_proofs -------------------------
(***************************************************************************)
(* For any number of variables, formulas and names, and any depth of the   *)
(* stack: the bookkeeping of RawSolver stays in step with the script, Z3   *)
(* never finds an error in it, models are complete, and the solver         *)
(* implements the stack of frames of assertions.                           *)
(***************************************************************************)
EXTENDS Z3RawSolver, SequenceTheorems, TLAPS

Inv == TypeOK /\ ScriptInStep /\ NoScriptError

-----------------------------------------------------------------------------
\* The script and the sequence of frames have a top, the same one.
LEMMA TopFacts ==
  ASSUME TypeOK, ScriptInStep
  PROVE  /\ Len(po) \in Nat \ {0} /\ DOMAIN po = 1 .. Len(po)
         /\ DOMAIN push_pop = 1 .. Len(po)
         /\ \A k \in 1 .. Len(po) :
              /\ po[k] \in Frame /\ po[k].decl \subseteq vars
              /\ push_pop[k] = po[k].decl
<1>1. po \in Seq(Frame) /\ po # <<>>
  BY DEF TypeOK
<1>2. Len(po) \in Nat \ {0} /\ DOMAIN po = 1 .. Len(po)
  BY <1>1, EmptySeq, LenProperties
<1>3. push_pop \in Seq(SUBSET Name) /\ Len(push_pop) = Len(po)
  BY DEF TypeOK, ScriptInStep
<1>4. DOMAIN push_pop = 1 .. Len(po)
  BY <1>3, LenProperties
<1>5. \A k \in 1 .. Len(po) : po[k] \in Frame
  BY <1>1, <1>2, ElementOfSeq
<1>6. \A k \in 1 .. Len(po) : po[k].decl \subseteq vars
  BY <1>2 DEF ScriptInStep, Declared
<1> QED BY <1>2, <1>4, <1>5, <1>6 DEF ScriptInStep

\* A declaration of new variables and an assertion over known ones is
\* accepted, and becomes part of the top frame.
LEMMA AssertingFacts ==
  ASSUME TypeOK, ScriptInStep, NEW f \in Formula,
         NEW g \in Group \cup {NoGroup}, g \notin Named,
         NEW D \in SUBSET Name, D \cap vars = {}, VarsOf(f) \subseteq vars \cup D
  PROVE  /\ ~Refused(D, f, g)
         /\ Asserting(D, f, g) \in Seq(Frame)
         /\ Len(Asserting(D, f, g)) = Len(po)
         /\ \A k \in 1 .. Len(po) : k # Len(po) => Asserting(D, f, g)[k] = po[k]
         /\ Asserting(D, f, g)[Len(po)] =
              [decl  |-> po[Len(po)].decl \cup D,
               named |-> po[Len(po)].named \cup ({g} \ {NoGroup}),
               holds |-> po[Len(po)].holds \cup {f}]
<1> DEFINE n == Len(po)
           r == [decl  |-> po[n].decl \cup D,
                 named |-> po[n].named \cup ({g} \ {NoGroup}),
                 holds |-> po[n].holds \cup {f}]
<1>1. n \in Nat \ {0} /\ DOMAIN po = 1 .. n /\ n \in DOMAIN po
  BY TopFacts
<1>2. Declared = vars
  BY DEF ScriptInStep
<1>3. ~Refused(D, f, g)
  BY <1>2 DEF Refused
<1>4. Asserting(D, f, g) = [po EXCEPT ![n] = r]
  BY <1>1, <1>2 DEF Asserting
<1>5. r \in Frame
  BY <1>1, TopFacts DEF Frame
<1>6. po \in Seq(Frame)
  BY DEF TypeOK
<1> HIDE DEF n, r
<1>7. /\ [po EXCEPT ![n] = r] \in Seq(Frame)
      /\ Len([po EXCEPT ![n] = r]) = Len(po)
      /\ \A k \in 1 .. n : k # n => [po EXCEPT ![n] = r][k] = po[k]
      /\ [po EXCEPT ![n] = r][n] = r
  BY <1>1, <1>5, <1>6, ExceptSeq
<1> QED BY <1>3, <1>4, <1>7 DEF n, r

\* The frames below the top stay as they are.
LEMMA AssertingBelow ==
  ASSUME TypeOK, ScriptInStep, NEW f, NEW g, NEW D,
         NEW k \in 1 .. Len(po), k # Len(po)
  PROVE  Asserting(D, f, g)[k] = po[k]
<1>1. DOMAIN po = 1 .. Len(po)
  BY TopFacts
<1> QED BY <1>1 DEF Asserting

\* The bookkeeping follows an assertion.
LEMMA AssertingInStep ==
  ASSUME TypeOK, ScriptInStep, NEW f \in Formula,
         NEW g \in Group \cup {NoGroup}, g \notin Named,
         NEW D \in SUBSET Name, D \cap vars = {},
         VarsOf(f) \subseteq vars \cup D,
         vars' = vars \cup D, po' = Asserting(D, f, g),
         push_pop' = [push_pop EXCEPT ![Len(push_pop)] = @ \cup D]
  PROVE  /\ ScriptInStep' /\ po' \in Seq(Frame) /\ po' # <<>>
         /\ push_pop' \in Seq(SUBSET Name) /\ vars' \subseteq Name
<1> DEFINE n == Len(po)
<1>1. /\ n \in Nat \ {0} /\ DOMAIN po = 1 .. n /\ Len(push_pop) = n
      /\ DOMAIN push_pop = 1 .. n
  BY TopFacts DEF ScriptInStep
<1> HIDE DEF n
<1>2. /\ po' \in Seq(Frame) /\ Len(po') = n
      /\ \A k \in 1 .. n : k # n => po'[k] = po[k]
      /\ po'[n].decl = po[n].decl \cup D /\ po'[n].holds = po[n].holds \cup {f}
  <2>1. po' \in Seq(Frame)
    BY AssertingFacts
  <2>4. Len(po') = n
    BY AssertingFacts DEF n
  <2>5. \A k \in 1 .. Len(po) :
          k # Len(po) => Asserting(D, f, g)[k] = po[k]
    BY AssertingBelow
  <2>3. \A k \in 1 .. n : k # n => po'[k] = po[k]
    BY <2>5 DEF n
  <2>2. po'[n] = [decl  |-> po[n].decl \cup D,
                  named |-> po[n].named \cup ({g} \ {NoGroup}),
                  holds |-> po[n].holds \cup {f}]
    BY AssertingFacts DEF n
  <2> QED BY <2>1, <2>2, <2>3, <2>4
<1>3. DOMAIN po' = 1 .. n /\ po' # <<>>
  BY <1>1, <1>2
<1>4. /\ push_pop' \in Seq(SUBSET Name) /\ Len(push_pop') = n
      /\ \A k \in 1 .. n : k # n => push_pop'[k] = push_pop[k]
      /\ push_pop'[n] = push_pop[n] \cup D
  <2>1. push_pop \in Seq(SUBSET Name)
    BY DEF TypeOK
  <2>3. n \in 1 .. Len(push_pop)
    BY <1>1
  <2>2. push_pop[n] \cup D \in SUBSET Name
    BY <2>1, <2>3, ElementOfSeq
  <2> QED BY <1>1, <2>1, <2>2, <2>3, ExceptSeq
<1>5. \A k \in DOMAIN po' : push_pop'[k] = po'[k].decl
  <2> SUFFICES ASSUME NEW k \in 1 .. n PROVE push_pop'[k] = po'[k].decl
    BY <1>3
  <2>1. push_pop[k] = po[k].decl
    BY <1>1 DEF ScriptInStep
  <2>2. CASE k = n
    BY <1>2, <1>4, <2>1, <2>2
  <2>3. CASE k # n
    BY <1>2, <1>4, <2>1, <2>3
  <2> QED BY <2>2, <2>3
<1>6. \A k \in 1 .. n : po[k].decl \subseteq po'[k].decl
                        /\ po'[k].decl \subseteq po[k].decl \cup D
                        /\ (k # n => po'[k].decl = po[k].decl)
  BY <1>1, <1>2
<1>7. vars' = Declared'
  <2>1. vars = UNION {po[k].decl : k \in 1 .. n}
    BY <1>1 DEF ScriptInStep, Declared
  <2>2. vars' = UNION {po'[k].decl : k \in 1 .. n}
    BY <1>1, <1>2, <1>6, <2>1
  <2> QED BY <1>3, <2>2 DEF Declared
<1>8. \A j, k \in DOMAIN po' : j # k => po'[j].decl \cap po'[k].decl = {}
  <2> SUFFICES ASSUME NEW j \in 1 .. n, NEW k \in 1 .. n, j # k
               PROVE  po'[j].decl \cap po'[k].decl = {}
    BY <1>3
  <2>1. po[j].decl \cap po[k].decl = {}
    BY <1>1 DEF ScriptInStep
  <2>2. po[j].decl \cap D = {} /\ po[k].decl \cap D = {}
    BY <1>1, TopFacts
  <2>3. po'[j].decl = po[j].decl \/ po'[k].decl = po[k].decl
    BY <1>6
  <2> QED BY <1>6, <2>1, <2>2, <2>3
<1>9. \A k \in DOMAIN po' : \A h \in po'[k].holds :
        VarsOf(h) \subseteq UNION {po'[j].decl : j \in 1 .. k}
  <2> SUFFICES ASSUME NEW k \in 1 .. n, NEW h \in po'[k].holds
               PROVE  VarsOf(h) \subseteq UNION {po'[j].decl : j \in 1 .. k}
    BY <1>3
  <2>1. CASE h \in po[k].holds
    <3>1. VarsOf(h) \subseteq UNION {po[j].decl : j \in 1 .. k}
      BY <1>1, <2>1 DEF ScriptInStep
    <3>2. \A j \in 1 .. k : po[j].decl \subseteq po'[j].decl
      BY <1>1, <1>6
    <3> QED BY <3>1, <3>2
  <2>2. CASE h \notin po[k].holds
    <3>1. k = n /\ h = f
      BY <1>1, <1>2, <2>2
    <3>2. vars' = UNION {po'[j].decl : j \in 1 .. n}
      BY <1>3, <1>7 DEF Declared
    <3> QED BY <3>1, <3>2
  <2> QED BY <2>1, <2>2
<1>10. vars' \subseteq Name
  BY DEF TypeOK
<1> QED BY <1>2, <1>3, <1>4, <1>5, <1>7, <1>8, <1>9, <1>10 DEF ScriptInStep

\* The bookkeeping follows push, which opens a frame in both.
LEMMA PushInStep ==
  ASSUME TypeOK, ScriptInStep, Push
  PROVE  /\ ScriptInStep' /\ po' \in Seq(Frame) /\ po' # <<>>
         /\ push_pop' \in Seq(SUBSET Name) /\ vars' \subseteq Name
<1> DEFINE n == Len(po)
<1>1. /\ n \in Nat \ {0} /\ DOMAIN po = 1 .. n /\ Len(push_pop) = n
      /\ DOMAIN push_pop = 1 .. n
  BY TopFacts DEF ScriptInStep
<1>2. /\ po' = Append(po, EmptyFrame) /\ push_pop' = Append(push_pop, {})
      /\ vars' = vars
  BY DEF Push
<1>3. po \in Seq(Frame) /\ push_pop \in Seq(SUBSET Name) /\ vars \subseteq Name
  BY DEF TypeOK
<1>4. EmptyFrame \in Frame
  BY DEF EmptyFrame, Frame
<1> HIDE DEF n
<1>5. /\ po' \in Seq(Frame) /\ po' # <<>> /\ Len(po') = n + 1
      /\ \A k \in 1 .. n : po'[k] = po[k]
      /\ po'[n + 1] = EmptyFrame
  BY <1>2, <1>3, <1>4, AppendProperties DEF n
<1>6. /\ push_pop' \in Seq(SUBSET Name) /\ Len(push_pop') = n + 1
      /\ \A k \in 1 .. n : push_pop'[k] = push_pop[k]
      /\ push_pop'[n + 1] = {}
  BY <1>1, <1>2, <1>3, AppendProperties
<1>7. DOMAIN po' = 1 .. n + 1
  BY <1>5, LenProperties
<1>8. \A k \in 1 .. n + 1 : k \in 1 .. n \/ k = n + 1
  BY <1>1
<1>9. po'[n + 1].decl = {} /\ po'[n + 1].holds = {}
  BY <1>5 DEF EmptyFrame
<1>10. \A k \in DOMAIN po' : push_pop'[k] = po'[k].decl
  <2> SUFFICES ASSUME NEW k \in 1 .. n + 1 PROVE push_pop'[k] = po'[k].decl
    BY <1>7
  <2>1. CASE k \in 1 .. n
    BY <1>1, <1>5, <1>6, <2>1 DEF ScriptInStep
  <2>2. CASE k = n + 1
    BY <1>6, <1>9, <2>2
  <2> QED BY <1>8, <2>1, <2>2
<1>11. vars' = Declared'
  <2>1. vars = UNION {po[k].decl : k \in 1 .. n}
    BY <1>1 DEF ScriptInStep, Declared
  <2>2. \A x : (\E k \in 1 .. n + 1 : x \in po'[k].decl)
                <=> \E k \in 1 .. n : x \in po[k].decl
    BY <1>1, <1>5, <1>8, <1>9
  <2>3. UNION {po'[k].decl : k \in 1 .. n + 1} = UNION {po[k].decl : k \in 1 .. n}
    BY <2>2
  <2> QED BY <1>2, <1>7, <2>1, <2>3 DEF Declared
<1>12. \A j, k \in DOMAIN po' : j # k => po'[j].decl \cap po'[k].decl = {}
  <2> SUFFICES ASSUME NEW j \in 1 .. n + 1, NEW k \in 1 .. n + 1, j # k
               PROVE  po'[j].decl \cap po'[k].decl = {}
    BY <1>7
  <2>1. CASE j \in 1 .. n /\ k \in 1 .. n
    BY <1>1, <1>5, <2>1 DEF ScriptInStep
  <2>2. CASE j = n + 1 \/ k = n + 1
    BY <1>9, <2>2
  <2> QED BY <1>8, <2>1, <2>2
<1>13. \A k \in DOMAIN po' : \A h \in po'[k].holds :
         VarsOf(h) \subseteq UNION {po'[j].decl : j \in 1 .. k}
  <2> SUFFICES ASSUME NEW k \in 1 .. n + 1, NEW h \in po'[k].holds
               PROVE  VarsOf(h) \subseteq UNION {po'[j].decl : j \in 1 .. k}
    BY <1>7
  <2>1. k \in 1 .. n
    BY <1>8, <1>9
  <2>2. VarsOf(h) \subseteq UNION {po[j].decl : j \in 1 .. k}
    BY <1>1, <1>5, <2>1 DEF ScriptInStep
  <2>3. \A j \in 1 .. k : po[j].decl = po'[j].decl
    BY <1>1, <1>5, <2>1
  <2> QED BY <2>2, <2>3
<1>14. Len(push_pop') = Len(po')
  BY <1>5, <1>6
<1> QED BY <1>2, <1>3, <1>5, <1>6, <1>10, <1>11, <1>12, <1>13, <1>14
     DEF ScriptInStep

\* The bookkeeping follows pop, which closes the last frame of both.
LEMMA PopInStep ==
  ASSUME TypeOK, ScriptInStep, Pop
  PROVE  /\ ScriptInStep' /\ po' \in Seq(Frame) /\ po' # <<>>
         /\ push_pop' \in Seq(SUBSET Name) /\ vars' \subseteq Name
         /\ failed' = failed /\ Len(po) > 1
         /\ po' = SubSeq(po, 1, Len(po) - 1)
<1> DEFINE n == Len(po)
<1>1. /\ n \in Nat \ {0} /\ DOMAIN po = 1 .. n /\ Len(push_pop) = n
      /\ DOMAIN push_pop = 1 .. n
  BY TopFacts DEF ScriptInStep
<1>2. /\ n > 1 /\ po' = SubSeq(po, 1, n - 1) /\ failed' = failed
      /\ push_pop' = SubSeq(push_pop, 1, n - 1) /\ vars' = vars \ po[n].decl
  <2>1. /\ Len(push_pop) > 1 /\ vars' = vars \ push_pop[n]
        /\ push_pop' = SubSeq(push_pop, 1, n - 1)
        /\ po' = IF n > 1 THEN SubSeq(po, 1, n - 1) ELSE po
        /\ failed' = (failed \/ n = 1)
    BY <1>1 DEF Pop, Remaining
  <2>2. push_pop[n] = po[n].decl
    BY <1>1 DEF ScriptInStep
  <2>3. failed \in BOOLEAN
    BY DEF TypeOK
  <2>4. n > 1 /\ n # 1
    BY <1>1, <2>1
  <2> QED BY <2>1, <2>2, <2>3, <2>4
<1>3. /\ po \in Seq(Frame) /\ push_pop \in Seq(SUBSET Name)
      /\ vars \subseteq Name
  BY DEF TypeOK
<1>4. /\ po' \in Seq(Frame) /\ Len(po') = n - 1
      /\ \A k \in 1 .. n - 1 : po'[k] = po[k]
  <2>1. \A k \in 1 .. n - 1 : po[k] \in Frame
    BY <1>1, TopFacts
  <2> HIDE DEF n
  <2>2. /\ SubSeq(po, 1, n - 1) \in Seq(Frame)
        /\ Len(SubSeq(po, 1, n - 1)) = n - 1
        /\ \A k \in 1 .. n - 1 : SubSeq(po, 1, n - 1)[k] = po[k]
    BY <1>1, <1>2, <2>1, SubSeqProperties
  <2> QED BY <1>2, <2>2
<1> HIDE DEF n
<1>5. /\ push_pop' \in Seq(SUBSET Name) /\ Len(push_pop') = n - 1
      /\ \A k \in 1 .. n - 1 : push_pop'[k] = push_pop[k]
  <2>1. \A k \in 1 .. n - 1 : push_pop[k] \in SUBSET Name
    BY <1>1, <1>3, ElementOfSeq
  <2>2. /\ SubSeq(push_pop, 1, n - 1) \in Seq(SUBSET Name)
        /\ Len(SubSeq(push_pop, 1, n - 1)) = n - 1
        /\ \A k \in 1 .. n - 1 : SubSeq(push_pop, 1, n - 1)[k] = push_pop[k]
    BY <1>1, <1>2, <2>1, SubSeqProperties
  <2> QED BY <1>2, <2>2
<1>6. DOMAIN po' = 1 .. n - 1 /\ po' # <<>>
  <2>1. DOMAIN po' = 1 .. n - 1
    BY <1>4, LenProperties
  <2>2. Len(po') > 0
    BY <1>1, <1>2, <1>4
  <2> QED BY <2>1, <2>2, EmptySeq
<1>7. \A k \in 1 .. n - 1 : k \in 1 .. n /\ k # n
  BY <1>1
<1>8. \A k \in DOMAIN po' : push_pop'[k] = po'[k].decl
  BY <1>1, <1>4, <1>5, <1>6, <1>7 DEF ScriptInStep
<1>9. \A j, k \in 1 .. n : j # k => po[j].decl \cap po[k].decl = {}
  BY <1>1 DEF ScriptInStep
<1>10. vars' = Declared'
  <2>1. vars = UNION {po[k].decl : k \in 1 .. n}
    BY <1>1 DEF ScriptInStep, Declared
  <2>2. \A k \in 1 .. n : k = n \/ k \in 1 .. n - 1
    BY <1>1
  <2>3. n \in 1 .. n
    BY <1>1
  <2>4. \A x : x \in vars \ po[n].decl
                <=> \E k \in 1 .. n - 1 : x \in po[k].decl
    BY <1>7, <1>9, <2>1, <2>2, <2>3
  <2>5. vars \ po[n].decl = UNION {po'[k].decl : k \in 1 .. n - 1}
    BY <1>4, <2>4
  <2> QED BY <1>2, <1>6, <2>5 DEF Declared
<1>11. \A j, k \in DOMAIN po' : j # k => po'[j].decl \cap po'[k].decl = {}
  BY <1>4, <1>6, <1>7, <1>9
<1>12. \A k \in DOMAIN po' : \A h \in po'[k].holds :
         VarsOf(h) \subseteq UNION {po'[j].decl : j \in 1 .. k}
  <2> SUFFICES ASSUME NEW k \in 1 .. n - 1, NEW h \in po'[k].holds
               PROVE  VarsOf(h) \subseteq UNION {po'[j].decl : j \in 1 .. k}
    BY <1>6
  <2>1. VarsOf(h) \subseteq UNION {po[j].decl : j \in 1 .. k}
    BY <1>1, <1>4, <1>7 DEF ScriptInStep
  <2>2. \A j \in 1 .. k : po[j].decl = po'[j].decl
    BY <1>1, <1>4
  <2> QED BY <2>1, <2>2
<1>13. Len(push_pop') = Len(po') /\ vars' \subseteq Name
  BY <1>2, <1>3, <1>4, <1>5
<1>14. Len(po) > 1 /\ po' = SubSeq(po, 1, Len(po) - 1)
  BY <1>2 DEF n
<1> QED BY <1>2, <1>4, <1>5, <1>6, <1>8, <1>10, <1>11, <1>12, <1>13, <1>14
     DEF ScriptInStep

-----------------------------------------------------------------------------
\* The invariant holds of a new solver.
LEMMA InvInit == Init => Inv
<1> SUFFICES ASSUME Init PROVE Inv
  OBVIOUS
<1>1. /\ vars = {} /\ push_pop = <<{}>> /\ po = <<EmptyFrame>>
      /\ option \in BOOLEAN /\ failed = FALSE
      /\ answer = "none" /\ model = NoLines
  BY DEF Init
<1>2. EmptyFrame \in Frame /\ EmptyFrame.decl = {} /\ EmptyFrame.holds = {}
  BY DEF EmptyFrame, Frame
<1>3. po \in Seq(Frame) /\ po # <<>> /\ push_pop \in Seq(SUBSET Name)
  BY <1>1, <1>2
<1>4. TypeOK
  BY <1>1, <1>3 DEF TypeOK, NoLines
<1>5. ScriptInStep
  <2>1. DOMAIN po = {1} /\ Len(po) = 1 /\ Len(push_pop) = 1
        /\ po[1] = EmptyFrame /\ push_pop[1] = {}
    BY <1>1
  <2> QED BY <1>1, <1>2, <2>1 DEF ScriptInStep, Declared
<1> QED BY <1>1, <1>4, <1>5 DEF Inv, NoScriptError

\* The bookkeeping reads three fields.
LEMMA InStepUnchanged ==
  ASSUME ScriptInStep, UNCHANGED <<vars, push_pop, po>>
  PROVE  ScriptInStep'
<1>1. vars' = vars /\ push_pop' = push_pop /\ po' = po
  OBVIOUS
<1>2. Declared' = Declared
  BY <1>1 DEF Declared
<1> QED BY ONLY <1>1, <1>2, ScriptInStep DEF ScriptInStep

\* What an answer changes: neither the script nor the bookkeeping.
LEMMA AnswerKeepsInv ==
  ASSUME Inv, UNCHANGED <<vars, push_pop, po, option, failed>>,
         answer' \in {"none", "sat", "unsat", "unknown", "model",
                     "interpolants", "failed", "no solver", "error"},
         model' = NoLines \/ model' = Lines
  PROVE  Inv'
<1>1. DOMAIN model' \subseteq Name
      /\ \A x \in DOMAIN model' : model'[x] \in {"value", "error"}
  BY DEF NoLines, Lines, Inv, TypeOK
<1>2. TypeOK'
  BY <1>1 DEF Inv, TypeOK
<1>3. ScriptInStep' /\ NoScriptError'
  BY InStepUnchanged DEF Inv, NoScriptError
<1> QED BY <1>2, <1>3 DEF Inv

\* Every call keeps the invariant.
LEMMA InvNext == Inv /\ [Next]_state => Inv'
<1> SUFFICES ASSUME Inv, [Next]_state PROVE Inv'
  OBVIOUS
<1>0. TypeOK /\ ScriptInStep /\ ~failed
  BY DEF Inv, NoScriptError
<1>a. ASSUME Stale, option' \in BOOLEAN, failed' = FALSE, ScriptInStep',
             po' \in Seq(Frame), po' # <<>>,
             push_pop' \in Seq(SUBSET Name), vars' \subseteq Name
      PROVE  Inv'
  <2>1. TypeOK'
    BY <1>a DEF TypeOK, Stale, NoLines
  <2> QED BY <1>a, <2>1 DEF Inv, NoScriptError
<1>1. ASSUME NEW f \in Formula, NEW g \in Group \cup {NoGroup}, Add(f, g)
      PROVE  Inv'
  <2>1. /\ FirstTime(f) \in SUBSET Name /\ FirstTime(f) \cap vars = {}
        /\ VarsOf(f) \subseteq vars \cup FirstTime(f) /\ g \notin Named
    BY <1>1, SolverAssumption DEF FirstTime, Add
  <2>2. ~Refused(FirstTime(f), f, g)
    BY <1>0, <2>1, AssertingFacts
  <2>3. /\ ScriptInStep' /\ po' \in Seq(Frame) /\ po' # <<>>
        /\ push_pop' \in Seq(SUBSET Name) /\ vars' \subseteq Name
    BY <1>0, <1>1, <2>1, AssertingInStep DEF Add
  <2> QED BY <1>0, <1>1, <1>a, <2>2, <2>3 DEF Add, TypeOK
<1>2. ASSUME NEW f \in Formula, AddRaw(f)
      PROVE  Inv'
  <2>0. NoGroup \notin Named
    <3>1. \A k \in DOMAIN po : po[k].named \subseteq Group
      BY <1>0, TopFacts DEF Frame
    <3> QED BY <3>1, SolverAssumption DEF Named
  <2>1. {} \in SUBSET Name /\ {} \cap vars = {} /\ VarsOf(f) \subseteq vars \cup {}
    BY <1>2 DEF AddRaw
  <2>2. ~Refused({}, f, NoGroup)
    BY <1>0, <2>0, <2>1, AssertingFacts
  <2>3. push_pop' = [push_pop EXCEPT ![Len(push_pop)] = @ \cup {}]
    <3>1. push_pop' = push_pop
      BY <1>2 DEF AddRaw
    <3>2. push_pop \in Seq(SUBSET Name)
      BY <1>0 DEF TypeOK
    <3> QED BY <3>1, <3>2
  <2>4. vars' = vars \cup {} /\ po' = Asserting({}, f, NoGroup)
    BY <1>2 DEF AddRaw
  <2>5. /\ ScriptInStep' /\ po' \in Seq(Frame) /\ po' # <<>>
        /\ push_pop' \in Seq(SUBSET Name) /\ vars' \subseteq Name
    BY <1>0, <2>0, <2>1, <2>3, <2>4, AssertingInStep
  <2> QED BY <1>0, <1>2, <1>a, <2>2, <2>5 DEF AddRaw, TypeOK
<1>3. CASE Push
  BY <1>0, <1>3, <1>a, PushInStep DEF Push, TypeOK
<1>4. CASE Pop
  BY <1>0, <1>4, <1>a, PopInStep DEF Pop, TypeOK
<1>5. CASE Reset
  <2>1. /\ vars' = {} /\ push_pop' = <<{}>> /\ po' = <<EmptyFrame>>
        /\ option' = FALSE /\ failed' = FALSE /\ Stale
    BY <1>5 DEF Reset
  <2>2. EmptyFrame \in Frame /\ EmptyFrame.decl = {} /\ EmptyFrame.holds = {}
    BY DEF EmptyFrame, Frame
  <2>3. po' \in Seq(Frame) /\ po' # <<>> /\ push_pop' \in Seq(SUBSET Name)
    BY <2>1, <2>2
  <2>4. /\ DOMAIN po' = {1} /\ Len(po') = 1 /\ Len(push_pop') = 1
        /\ po'[1] = EmptyFrame /\ push_pop'[1] = {}
    BY <2>1
  <2>5. ScriptInStep'
    BY <2>1, <2>2, <2>4 DEF ScriptInStep, Declared
  <2> QED BY <1>a, <2>1, <2>3, <2>5
<1>6. CASE CheckSat \/ GetModel \/ GetInterp
  <2>1. UNCHANGED <<vars, push_pop, po, option, failed>>
    BY <1>6 DEF CheckSat, GetModel, GetInterp
  <2>2. answer' \in {"none", "sat", "unsat", "unknown", "model",
                    "interpolants", "failed", "no solver", "error"}
    BY <1>6 DEF CheckSat, GetModel, GetInterp, RunFails
  <2>3. model' = NoLines \/ model' = Lines
    BY <1>6 DEF CheckSat, GetModel, GetInterp, RunFails
  <2> QED BY <2>1, <2>2, <2>3, AnswerKeepsInv
<1>7. CASE UNCHANGED state
  <2>1. TypeOK' /\ NoScriptError'
    BY <1>0, <1>7 DEF state, TypeOK, NoScriptError
  <2>2. ScriptInStep'
    BY <1>0, <1>7, InStepUnchanged DEF state
  <2> QED BY <2>1, <2>2 DEF Inv
<1> QED BY <1>1, <1>2, <1>3, <1>4, <1>5, <1>6, <1>7 DEF Next

\* A reachable state satisfies the invariant.
LEMMA Invariance == Spec => []Inv
  BY InvInit, InvNext, PTL DEF Spec

\* The fields of a solver keep their types.
THEOREM SolverTypes == Spec => []TypeOK
  BY Invariance, PTL DEF Inv

\* RawSolver's bookkeeping and what Z3 knows stay in step.
THEOREM Bookkeeping == Spec => []ScriptInStep
  BY Invariance, PTL DEF Inv

\* No sequence of calls makes a script with an error.
THEOREM ScriptsAreAccepted == Spec => []NoScriptError
  BY Invariance, PTL DEF Inv

\* Every variable of a formula in force is in vars, and declared.
LEMMA AssertedKnown ==
  ASSUME Inv
  PROVE  vars = Declared /\ \A f \in Asserted : VarsOf(f) \subseteq vars
<1>1. TypeOK /\ ScriptInStep
  BY DEF Inv
<1>2. vars = Declared
  BY <1>1 DEF ScriptInStep
<1>3. ASSUME NEW k \in DOMAIN po, NEW f \in po[k].holds
      PROVE  VarsOf(f) \subseteq vars
  <2>1. DOMAIN po = 1 .. Len(po) /\ Len(po) \in Nat
    BY <1>1, TopFacts
  <2>2. VarsOf(f) \subseteq UNION {po[j].decl : j \in 1 .. k}
    BY <1>1, <1>3 DEF ScriptInStep
  <2>3. \A j \in 1 .. k : j \in 1 .. Len(po)
    BY <2>1
  <2>4. \A j \in 1 .. k : po[j].decl \subseteq vars
    BY <1>1, <2>3, TopFacts
  <2> QED BY <2>2, <2>4
<1> QED BY <1>2, <1>3 DEF Asserted

\* A model has a value for every variable of the query.
THEOREM ModelsAreComplete == Spec => []ModelCoversQuery
<1>1. Init => ModelCoversQuery
  BY DEF Init, ModelCoversQuery
<1>2. Inv /\ ModelCoversQuery /\ [Next]_state => ModelCoversQuery'
  <2> SUFFICES ASSUME Inv, ModelCoversQuery, [Next]_state, answer' = "model"
               PROVE  ModelCoversQuery'
    BY DEF ModelCoversQuery
  <2>1. CASE GetModel
    <3>1. model' = Lines /\ po' = po
      BY <2>1 DEF GetModel, RunFails
    <3>2. Asserted' = Asserted
      BY <3>1 DEF Asserted
    <3> QED BY <3>1, <3>2, AssertedKnown DEF ModelCoversQuery, Lines
  <2>2. CASE UNCHANGED state
    BY <2>2 DEF state, ModelCoversQuery, Asserted
  <2>3. (\E f \in Formula, g \in Group \cup {NoGroup} : Add(f, g))
        \/ (\E f \in Formula : AddRaw(f)) \/ Push \/ Pop \/ Reset
        \/ CheckSat \/ GetInterp => answer' # "model"
    BY DEF Add, AddRaw, Push, Pop, Reset, CheckSat, GetInterp, RunFails, Stale
  <2> QED BY <2>1, <2>2, <2>3 DEF Next
<1> QED BY <1>1, <1>2, Invariance, PTL DEF Spec

-----------------------------------------------------------------------------
(***************************************************************************)
(* The refinement. Holds(p) are the frames of assertions of a script, the  *)
(* value the refinement mapping gives to the frames of SolverStack.        *)
(***************************************************************************)
Holds(p) == [k \in DOMAIN p |-> p[k].holds]

Valued(m) == {x \in DOMAIN m : m[x] = "value"}

\* The frames of assertions of a script have the length of the script.
LEMMA HoldsType ==
  ASSUME NEW p \in Seq(Frame)
  PROVE  /\ Holds(p) \in Seq(SUBSET Formula) /\ Len(Holds(p)) = Len(p)
         /\ DOMAIN Holds(p) = 1 .. Len(p)
         /\ \A k \in 1 .. Len(p) : Holds(p)[k] = p[k].holds
<1>1. Len(p) \in Nat /\ DOMAIN p = 1 .. Len(p)
  BY LenProperties
<1>2. \A k \in 1 .. Len(p) : p[k].holds \in SUBSET Formula
  <2>1. \A k \in 1 .. Len(p) : p[k] \in Frame
    BY ElementOfSeq
  <2> QED BY <2>1 DEF Frame
<1>3. Holds(p) \in [1 .. Len(p) -> SUBSET Formula]
  BY <1>1, <1>2 DEF Holds
<1>4. Holds(p) \in Seq(SUBSET Formula)
  BY <1>1, <1>3, SeqDef
<1>5. Len(Holds(p)) = Len(p)
  BY <1>1, <1>3, <1>4, LenProperties
<1> QED BY <1>1, <1>3, <1>4, <1>5 DEF Holds

\* The assertions in force are those Z3 has at the end of the script.
LEMMA SameInForce == TypeOK => Stack!InForce = Asserted
<1> SUFFICES ASSUME TypeOK PROVE Stack!InForce = Asserted
  OBVIOUS
<1>1. DOMAIN Holds(po) = DOMAIN po /\ \A k \in DOMAIN po : Holds(po)[k] = po[k].holds
  BY DEF Holds
<1> QED BY <1>1 DEF Stack!InForce, Asserted, Holds

\* A change to the top frame of a script is one to the top of the stack.
LEMMA HoldsAsserting ==
  ASSUME TypeOK, ScriptInStep, NEW f \in Formula,
         NEW g \in Group \cup {NoGroup}, g \notin Named,
         NEW D \in SUBSET Name, D \cap vars = {}, VarsOf(f) \subseteq vars \cup D
  PROVE  Holds(Asserting(D, f, g)) =
           [Holds(po) EXCEPT ![Len(Holds(po))] = @ \cup {f}]
<1> DEFINE p == Asserting(D, f, g)
           n == Len(po)
           q == [Holds(po) EXCEPT ![n] = @ \cup {f}]
<1>1. po \in Seq(Frame) /\ n \in Nat \ {0} /\ n \in 1 .. n
  <2>1. po \in Seq(Frame)
    BY DEF TypeOK
  <2> QED BY <2>1, TopFacts
<1>2. /\ p \in Seq(Frame) /\ Len(p) = n
      /\ \A k \in 1 .. n : k # n => p[k] = po[k]
      /\ p[n].holds = po[n].holds \cup {f}
  <2>1. p \in Seq(Frame) /\ Len(p) = n
    BY AssertingFacts
  <2>4. \A k \in 1 .. Len(po) :
          k # Len(po) => Asserting(D, f, g)[k] = po[k]
    BY AssertingBelow
  <2>2. \A k \in 1 .. n : k # n => p[k] = po[k]
    BY <2>4
  <2>3. p[n] = [decl  |-> po[n].decl \cup D,
                named |-> po[n].named \cup ({g} \ {NoGroup}),
                holds |-> po[n].holds \cup {f}]
    BY AssertingFacts
  <2> QED BY <2>1, <2>2, <2>3
<1> HIDE DEF p, n
<1>3. /\ Holds(po) \in Seq(SUBSET Formula) /\ Len(Holds(po)) = n
      /\ \A k \in 1 .. n : Holds(po)[k] = po[k].holds
  BY <1>1, HoldsType DEF n
<1>4. /\ Holds(p) \in Seq(SUBSET Formula) /\ Len(Holds(p)) = n
      /\ \A k \in 1 .. n : Holds(p)[k] = p[k].holds
  BY <1>2, HoldsType
<1>5. /\ q \in Seq(SUBSET Formula) /\ Len(q) = n
      /\ \A k \in 1 .. n : q[k] = IF k = n THEN Holds(po)[n] \cup {f}
                                  ELSE Holds(po)[k]
  <2>1. Holds(po)[n] \cup {f} \in SUBSET Formula
    BY <1>1, <1>3, ElementOfSeq
  <2> QED BY <1>1, <1>3, <2>1, ExceptSeq
<1> HIDE DEF q
<1>6. \A k \in 1 .. n : Holds(p)[k] = q[k]
  BY <1>2, <1>3, <1>4, <1>5
<1>7. Holds(p) = q
  BY <1>4, <1>5, <1>6, SeqEqual
<1> QED BY <1>3, <1>7 DEF p, q

\* To open a frame of the script is to open one of the stack.
LEMMA HoldsPush ==
  ASSUME NEW p \in Seq(Frame)
  PROVE  Holds(Append(p, EmptyFrame)) = Append(Holds(p), {})
<1> DEFINE r == Append(p, EmptyFrame)
           n == Len(p)
<1>1. EmptyFrame \in Frame /\ EmptyFrame.holds = {}
  BY DEF EmptyFrame, Frame
<1>2. n \in Nat
  BY LenProperties
<1>3. /\ r \in Seq(Frame) /\ Len(r) = n + 1 /\ r[n + 1] = EmptyFrame
      /\ \A k \in 1 .. n : r[k] = p[k]
  BY <1>1, AppendProperties
<1> HIDE DEF r, n
<1>4. /\ Holds(p) \in Seq(SUBSET Formula) /\ Len(Holds(p)) = n
      /\ \A k \in 1 .. n : Holds(p)[k] = p[k].holds
  BY HoldsType DEF n
<1>5. /\ Holds(r) \in Seq(SUBSET Formula) /\ Len(Holds(r)) = n + 1
      /\ \A k \in 1 .. n + 1 : Holds(r)[k] = r[k].holds
  BY <1>3, HoldsType
<1>6. /\ Append(Holds(p), {}) \in Seq(SUBSET Formula)
      /\ Len(Append(Holds(p), {})) = n + 1
      /\ \A k \in 1 .. n : Append(Holds(p), {})[k] = Holds(p)[k]
      /\ Append(Holds(p), {})[n + 1] = {}
  BY <1>4, AppendProperties
<1>7. \A k \in 1 .. n + 1 : k \in 1 .. n \/ k = n + 1
  BY <1>2
<1>8. \A k \in 1 .. n + 1 : Holds(r)[k] = Append(Holds(p), {})[k]
  <2> SUFFICES ASSUME NEW k \in 1 .. n + 1
               PROVE  Holds(r)[k] = Append(Holds(p), {})[k]
    OBVIOUS
  <2>1. CASE k \in 1 .. n
    BY <1>3, <1>4, <1>5, <1>6, <2>1
  <2>2. CASE k = n + 1
    BY <1>1, <1>3, <1>5, <1>6, <2>2
  <2> QED BY <1>7, <2>1, <2>2
<1> QED BY <1>5, <1>6, <1>8, SeqEqual DEF r

\* To close the last frame of the script is to pop the stack.
LEMMA HoldsPop ==
  ASSUME NEW p \in Seq(Frame), Len(p) > 1
  PROVE  Holds(SubSeq(p, 1, Len(p) - 1)) =
           SubSeq(Holds(p), 1, Len(Holds(p)) - 1)
<1> DEFINE n == Len(p)
           r == SubSeq(p, 1, n - 1)
           q == SubSeq(Holds(p), 1, n - 1)
<1>1. n \in Nat /\ n > 1
  BY LenProperties
<1>2. \A k \in 1 .. n - 1 : k \in 1 .. n
  BY <1>1
<1>3. /\ Holds(p) \in Seq(SUBSET Formula) /\ Len(Holds(p)) = n
      /\ \A k \in 1 .. n : Holds(p)[k] = p[k].holds
  BY HoldsType
<1>4. \A k \in 1 .. n - 1 : p[k] \in Frame /\ Holds(p)[k] \in SUBSET Formula
  BY <1>2, <1>3, ElementOfSeq
<1> HIDE DEF n
<1>5. /\ r \in Seq(Frame) /\ Len(r) = n - 1
      /\ \A k \in 1 .. n - 1 : r[k] = p[k]
  BY <1>1, <1>4, SubSeqProperties
<1>6. /\ q \in Seq(SUBSET Formula) /\ Len(q) = n - 1
      /\ \A k \in 1 .. n - 1 : q[k] = Holds(p)[k]
  BY <1>1, <1>4, SubSeqProperties
<1> HIDE DEF r, q
<1>7. /\ Holds(r) \in Seq(SUBSET Formula) /\ Len(Holds(r)) = n - 1
      /\ \A k \in 1 .. n - 1 : Holds(r)[k] = r[k].holds
  BY <1>5, HoldsType
<1>8. \A k \in 1 .. n - 1 : Holds(r)[k] = q[k]
  BY <1>2, <1>3, <1>5, <1>6, <1>7
<1>9. Holds(r) = q
  BY <1>6, <1>7, <1>8, SeqEqual
<1> QED BY <1>3, <1>9 DEF r, q, n

\* A new solver is an empty stack.
LEMMA StackInit == Init => Stack!Init
<1> SUFFICES ASSUME Init PROVE Stack!Init
  OBVIOUS
<1>1. /\ po = <<EmptyFrame>> /\ option \in BOOLEAN
      /\ answer = "none" /\ model = NoLines
  BY DEF Init
<1>2. Holds(po) = <<{}>>
  <2>1. DOMAIN po = {1} /\ po[1].holds = {}
    BY <1>1 DEF EmptyFrame
  <2> QED BY <2>1 DEF Holds
<1>3. Valued(model) = {}
  BY <1>1 DEF NoLines, Valued
<1> QED BY <1>1, <1>2, <1>3 DEF Stack!Init, Holds, Valued

\* Every call is a call on the stack.
LEMMA StackNext == Inv /\ [Next]_state => [Stack!Next]_(Stack!vars)
<1> SUFFICES ASSUME Inv, [Next]_state PROVE [Stack!Next]_(Stack!vars)
  OBVIOUS
<1>0. TypeOK /\ ScriptInStep /\ ~failed /\ po \in Seq(Frame)
  BY DEF Inv, NoScriptError, TypeOK
<1>a. model' = NoLines => Valued(model') = {}
  BY DEF Valued, NoLines
<1>b. Stack!InForce = Asserted
  BY <1>0, SameInForce
<1>1. ASSUME NEW f \in Formula, NEW g \in Group \cup {NoGroup}, Add(f, g)
      PROVE  Stack!Add(f)
  <2>1. /\ FirstTime(f) \in SUBSET Name /\ FirstTime(f) \cap vars = {}
        /\ VarsOf(f) \subseteq vars \cup FirstTime(f) /\ g \notin Named
    BY <1>1, SolverAssumption DEF FirstTime, Add
  <2>2. Holds(po') = [Holds(po) EXCEPT ![Len(Holds(po))] = @ \cup {f}]
    BY <1>0, <1>1, <2>1, HoldsAsserting DEF Add
  <2>3. answer' = "none" /\ Valued(model') = {} /\ option' = option
    BY <1>1, <1>a DEF Add, Stale
  <2> QED BY <2>2, <2>3 DEF Stack!Add, Stack!Top, Stack!Stale, Holds, Valued
<1>2. ASSUME NEW f \in Formula, AddRaw(f)
      PROVE  Stack!Add(f)
  <2>0. NoGroup \notin Named
    <3>1. \A k \in DOMAIN po : po[k].named \subseteq Group
      BY <1>0, TopFacts DEF Frame
    <3> QED BY <3>1, SolverAssumption DEF Named
  <2>1. VarsOf(f) \subseteq vars \cup {} /\ po' = Asserting({}, f, NoGroup)
    BY <1>2 DEF AddRaw
  <2>2. Holds(po') = [Holds(po) EXCEPT ![Len(Holds(po))] = @ \cup {f}]
    BY <1>0, <2>0, <2>1, HoldsAsserting
  <2>3. answer' = "none" /\ Valued(model') = {} /\ option' = option
    BY <1>2, <1>a DEF AddRaw, Stale
  <2> QED BY <2>2, <2>3 DEF Stack!Add, Stack!Top, Stack!Stale, Holds, Valued
<1>3. CASE Push
  <2>1. /\ Len(po) < MaxFrames /\ po' = Append(po, EmptyFrame)
        /\ answer' = "none" /\ Valued(model') = {} /\ option' = option
    BY <1>3, <1>a DEF Push, Stale
  <2>2. Holds(po') = Append(Holds(po), {}) /\ Len(Holds(po)) = Len(po)
    BY <1>0, <2>1, HoldsPush, HoldsType
  <2>3. Stack!Push
    BY <2>1, <2>2 DEF Stack!Push, Stack!Top, Stack!Stale, Holds, Valued
  <2> QED BY <2>3 DEF Stack!Next
<1>4. CASE Pop
  <2>1. /\ Len(po) > 1 /\ po' = SubSeq(po, 1, Len(po) - 1)
        /\ answer' = "none" /\ Valued(model') = {} /\ option' = option
    BY <1>0, <1>4, <1>a, PopInStep DEF Pop, Stale
  <2>2. /\ Holds(po') = SubSeq(Holds(po), 1, Len(Holds(po)) - 1)
        /\ Len(Holds(po)) = Len(po)
    BY <1>0, <2>1, HoldsPop, HoldsType
  <2>3. Stack!Pop
    BY <2>1, <2>2 DEF Stack!Pop, Stack!Top, Stack!Stale, Holds, Valued
  <2> QED BY <2>3 DEF Stack!Next
<1>5. CASE Reset
  <2>1. /\ po' = <<EmptyFrame>> /\ option' = FALSE
        /\ answer' = "none" /\ Valued(model') = {}
    BY <1>5, <1>a DEF Reset, Stale
  <2>2. Holds(po') = <<{}>>
    <3>1. DOMAIN po' = {1} /\ po'[1].holds = {}
      BY <2>1 DEF EmptyFrame
    <3> QED BY <3>1 DEF Holds
  <2>3. Stack!Reset
    BY <2>1, <2>2 DEF Stack!Reset, Stack!Stale, Holds, Valued
  <2> QED BY <2>3 DEF Stack!Next
<1>c. UNCHANGED <<vars, push_pop, po, option, failed>>
        => Holds(po') = Holds(po) /\ option' = option
  BY DEF Holds
<1>6. CASE CheckSat
  <2>1. /\ answer' \in {"unknown", "no solver",
                        IF Satisfiable(Asserted) THEN "sat" ELSE "unsat"}
        /\ Valued(model') = {}
    BY <1>0, <1>6, <1>a DEF CheckSat, RunFails
  <2>2. Holds(po') = Holds(po) /\ option' = option
    BY <1>6, <1>c DEF CheckSat
  <2>3. Stack!CheckSat
    BY <1>b, <2>1, <2>2 DEF Stack!CheckSat, Holds, Valued
  <2> QED BY <2>3 DEF Stack!Next
<1>7. CASE GetModel
  <2>1. Holds(po') = Holds(po) /\ option' = option /\ answer = "sat"
    BY <1>7, <1>c DEF GetModel
  <2>2. \/ answer' \in {"failed", "no solver"} /\ Valued(model') = {}
        \/ answer' = "model" /\ model' = Lines
    BY <1>0, <1>7, <1>a DEF GetModel, RunFails
  <2>3. model' = Lines => /\ Valued(model') \in SUBSET Name
                          /\ \A f \in Asserted : VarsOf(f) \subseteq Valued(model')
    <3>1. Valued(Lines) = vars
      BY AssertedKnown DEF Lines, Valued
    <3>2. vars \in SUBSET Name
      BY <1>0 DEF TypeOK
    <3> QED BY <3>1, <3>2, AssertedKnown
  <2>4. Stack!GetModel
    BY <1>b, <2>1, <2>2, <2>3 DEF Stack!GetModel, Holds, Valued
  <2> QED BY <2>4 DEF Stack!Next
<1>8. CASE GetInterp
  <2>1. Holds(po') = Holds(po) /\ option' = option
    BY <1>8, <1>c DEF GetInterp
  <2>2. /\ \/ answer' \in {"failed", "no solver"}
           \/ option /\ ~Satisfiable(Asserted) /\ answer' = "interpolants"
        /\ Valued(model') = {}
    BY <1>0, <1>8, <1>a DEF GetInterp, RunFails
  <2>3. Stack!GetInterp
    BY <1>b, <2>1, <2>2 DEF Stack!GetInterp, Holds, Valued
  <2> QED BY <2>3 DEF Stack!Next
<1>9. CASE UNCHANGED state
  BY <1>9 DEF state, Stack!vars
<1> QED BY <1>1, <1>2, <1>3, <1>4, <1>5, <1>6, <1>7, <1>8, <1>9
        DEF Next, Stack!Next

\* The solver implements the stack of frames of assertions.
THEOREM SolverImplementsStack == Spec => ImplementsStack
<1>1. Spec => Stack!Init /\ [][Stack!Next]_(Stack!vars)
  BY StackInit, StackNext, Invariance, PTL DEF Spec
<1> QED BY <1>1 DEF ImplementsStack, Stack!Spec
=============================================================================
