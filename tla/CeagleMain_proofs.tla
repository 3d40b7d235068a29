-------------------------- MODULE CeagleMain_proofs --------------------------
(***************************************************************************)
(* What holds of the command ceagle for every command line, every settings *)
(* of its options and every file that is abstracted structurally.          *)
(***************************************************************************)
EXTENDS CeagleMain, InductionLemmas, SequenceTheorems, TLAPS

Results == {"UNKNOWN", "TRUE", "FALSE"}

Line == [file : Nat, verdict : Results, by : {"verify", "handler", "structural", "timer"}]

\* verify has not yet judged the current file.
Early == {"verify", "context", "analyse"}

-----------------------------------------------------------------------------
(***************************************************************************)
(* The steps, by what they say                                             *)
(***************************************************************************)
Printed(v, b) == out' = Append(out, [file |-> current, verdict |-> v, by |-> b])

NextFile == pc' = "verify" /\ current' = current + 1 /\ out' = out

SaysNothing ==
  /\ UNCHANGED <<out, current>>
  /\ \/ pc' \in {pc, "main", "return", "ended"}
     \/ pc \in Early /\ pc' \in {"context", "analyse", "structural"}

SaysFirst ==
  /\ pc \in Early /\ UNCHANGED current
  /\ pc' \in {"main", "return", "ended"}
  /\ \E v \in Results, b \in {"verify", "handler"} : Printed(v, b)

SaysStructural ==
  /\ pc = "structural" /\ UNCHANGED current
  /\ pc' = IF verificationResult = "FALSE" THEN "ended" ELSE pc
  /\ Printed(verificationResult, "structural")

SaysThrown ==
  /\ pc = "structural" /\ UNCHANGED current
  /\ pc' = "main" /\ Printed("TRUE", "handler")

SaysTimer ==
  /\ pc' = "ended" /\ UNCHANGED current
  /\ Printed("TRUE", "timer")

Saying == \/ NextFile \/ SaysNothing \/ SaysFirst
          \/ SaysStructural \/ SaysThrown \/ SaysTimer

\* What Judge says is one of the three results.
LEMMA VerdictType ==
  ASSUME NEW r \in Int
  PROVE  Verdict(r) \in Results
  BY DEF Verdict, Results

LEMMA JudgeFirst ==
  ASSUME pc \in Early, NEW r \in Int, Judge(r), UNCHANGED current
  PROVE  SaysFirst
  <1>1. out' = Append(out, [file |-> current, verdict |-> Verdict(r), by |-> "verify"])
    BY DEF Judge, Say
  <1>2. pc' = "return"
    BY DEF Judge, Return
  <1>3. Verdict(r) \in Results
    BY VerdictType
  <1> QED
    BY <1>1, <1>2, <1>3 DEF SaysFirst, Printed

\* Every step is one of these.
LEMMA StepSays ==
  ASSUME [Next]_vars
  PROVE  Saying
  <1> USE DEF Saying
  <1>1. CASE UNCHANGED vars
    BY <1>1 DEF vars, main, SaysNothing
  <1>2. CASE Verify
    BY <1>2 DEF Verify, NextFile
  <1>3. CASE LeaveMain
    BY <1>3 DEF LeaveMain, Quiet, SaysNothing
  <1>4. CASE Missing
    BY <1>4 DEF Missing, Quiet, Silent, Return, SaysNothing
  <1>5. CASE GiveUp
    <2>1. Judge(0) /\ UNCHANGED current /\ pc \in Early
      BY <1>5 DEF GiveUp, Opened, Quiet, Early
    <2> QED
      BY <2>1, JudgeFirst
  <1>6. CASE CheckOverflow
    <2>1. UNCHANGED current /\ pc \in Early
      BY <1>6 DEF CheckOverflow, Opened, Quiet, Early
    <2>2. CASE \E r \in {-1, 0, 1} : Judge(r)
      BY <2>1, <2>2, JudgeFirst
    <2>3. CASE Silent /\ Exit
      BY <2>1, <2>3 DEF Silent, Exit, SaysNothing
    <2> QED
      BY <1>6, <2>2, <2>3 DEF CheckOverflow
  <1>7. CASE Unsupported
    BY <1>7 DEF Unsupported, Quiet, Silent, Exit, SaysNothing
  <1>8. CASE Load
    <2>1. pc \in Early /\ pc' \in {"context", "analyse"} /\ UNCHANGED <<out, current>>
      BY <1>8 DEF Load, Proceeds, Opened, Quiet, Early
    <2> QED
      BY <2>1 DEF SaysNothing
  <1>9. CASE SelectAdvisor
    BY <1>9 DEF SelectAdvisor, Context, Quiet, SaysNothing, Early
  <1>10. CASE Recognise
    <2>1. UNCHANGED current /\ pc \in Early /\ \E r \in {-1, 0, 1} : Judge(r)
      BY <1>10 DEF Recognise, Quiet, Early
    <2> QED
      BY <2>1, JudgeFirst
  <1>11. CASE LdvMalloc
    <2>1. UNCHANGED current /\ pc \in Early
      BY <1>11 DEF LdvMalloc, Context, Quiet, Early
    <2>2. CASE Judge(0)
      BY <2>1, <2>2, JudgeFirst
    <2>3. CASE Silent /\ (Exit \/ Return(0))
      BY <2>1, <2>3 DEF Silent, Exit, Return, SaysNothing
    <2> QED
      BY <1>11, <2>2, <2>3 DEF LdvMalloc
  <1>12. CASE Run
    <2>1. UNCHANGED current /\ pc \in Early
      BY <1>12 DEF Run, Context, Quiet, Early
    <2>2. CASE \E r \in {-11, -1, 0, 1} : Judge(r)
      BY <2>1, <2>2, JudgeFirst
    <2>3. CASE Silent /\ Return(0)
      BY <2>1, <2>3 DEF Silent, Return, SaysNothing
    <2> QED
      BY <1>12, <2>2, <2>3 DEF Run
  <1>13. CASE Float
    BY <1>13 DEF Float, Context, Quiet, SaysNothing, Early
  <1>14. CASE FloatSkipped
    BY <1>14 DEF FloatSkipped, Quiet, Silent, Return, SaysNothing
  <1>15. CASE RunECA
    <2>1. UNCHANGED current /\ pc \in Early
      BY <1>15 DEF RunECA, With, Quiet, Early
    <2>2. CASE \E r \in {-1, 0, 1} : Judge(r)
      BY <2>1, <2>2, JudgeFirst
    <2>3. CASE Silent /\ pc' = "main"
      BY <2>1, <2>3 DEF Silent, SaysNothing
    <2> QED
      BY <1>15, <2>2, <2>3 DEF RunECA
  <1>16. CASE RunElevator
    <2>1. UNCHANGED current /\ pc \in Early
      BY <1>16 DEF RunElevator, With, Quiet, Early
    <2>2. CASE \E r \in {-1, 0, 1} : Judge(r)
      BY <2>1, <2>2, JudgeFirst
    <2>3. CASE Silent /\ Exit
      BY <2>1, <2>3 DEF Silent, Exit, SaysNothing
    <2> QED
      BY <1>16, <2>2, <2>3 DEF RunElevator
  <1>17. CASE NoIR
    BY <1>17 DEF NoIR, Quiet, Silent, Exit, SaysNothing
  <1>18. CASE AbstractStructure
    BY <1>18 DEF AbstractStructure, With, SaysNothing, Early
  <1>19. CASE Unsuitable
    <2>1. Judge(0) /\ UNCHANGED current /\ pc \in Early
      BY <1>19 DEF Unsuitable, Searches, Advised, Quiet, Early
    <2> QED
      BY <2>1, JudgeFirst
  <1>20. CASE Decide
    <2>1. UNCHANGED current /\ pc \in Early
      BY <1>20 DEF Decide, Searches, Advised, Quiet, Early
    <2>2. CASE \E r \in {-1, 0, 1} : Judge(r)
      BY <2>1, <2>2, JudgeFirst
    <2>3. CASE Silent /\ Return(0)
      BY <2>1, <2>3 DEF Silent, Return, SaysNothing
    <2> QED
      BY <1>20, <2>2, <2>3 DEF Decide
  <1>21. CASE Throw
    <2>1. UNCHANGED current /\ pc \in Early /\ pc' = "main"
      BY <1>21 DEF Throw, Searches, Advised, Quiet, Early
    <2>2. CASE Silent
      BY <2>1, <2>2 DEF Silent, SaysNothing
    <2>3. CASE Say("TRUE", "handler")
      BY <2>1, <2>3 DEF Say, Printed, SaysFirst, Results
    <2> QED
      BY <1>21, <2>2, <2>3 DEF Throw
  <1>22. CASE Analyse
    BY <1>22 DEF Analyse, main, SaysNothing
  <1>23. CASE SaysVerdict
    <2>1. at' = "exit" <=> verificationResult = "FALSE"
      BY <1>23 DEF SaysVerdict, Structural, Reported
    <2> QED
      BY <1>23, <2>1 DEF SaysVerdict, Structural, Say, Printed, SaysStructural
  <1>24. CASE LeaveStructure
    BY <1>24 DEF LeaveStructure, Silent, Return, SaysNothing
  <1>25. CASE ThrowInStructure
    BY <1>25 DEF ThrowInStructure, Silent, Say, Printed, SaysThrown, SaysNothing
  <1>26. CASE WriteWitness
    BY <1>26 DEF WriteWitness, Quiet, SaysNothing
  <1>27. CASE TimerFires
    BY <1>27 DEF TimerFires, Exit, Say, Printed, Quiet, SaysTimer
  <1>28. CASE Ended
    BY <1>28 DEF Ended, vars, main, SaysNothing
  <1> QED
    BY <1>1, <1>2, <1>3, <1>4, <1>5, <1>6, <1>7, <1>8, <1>9, <1>10, <1>11, <1>12,
       <1>13, <1>14, <1>15, <1>16, <1>17, <1>18, <1>19, <1>20, <1>21, <1>22,
       <1>23, <1>24, <1>25, <1>26, <1>27, <1>28 DEF Next
-----------------------------------------------------------------------------
(***************************************************************************)
(* The verdicts printed for a file                                         *)
(***************************************************************************)
\* The verdict of the structural abstraction is one of the three.
LEMMA ResultKept ==
  ASSUME verificationResult \in Results, [Next]_vars
  PROVE  verificationResult' \in Results
  <1> USE DEF Results
  <1>1. CASE UNCHANGED verificationResult
    BY <1>1
  <1>2. CASE AbstractStructure
    BY <1>2 DEF AbstractStructure, Start
  <1>3. CASE Analyse
    BY <1>3 DEF Analyse, Structural, FoundStmtTrace, FoundVariableDeclaration,
       Declarations, Proved, Undecided, Refuted, loopvars
  <1>4. Quiet \/ UNCHANGED loopvars \/ UNCHANGED vars => UNCHANGED verificationResult
    BY DEF Quiet, structural, loopvars, vars
  <1>5. SaysVerdict \/ LeaveStructure \/ ThrowInStructure => UNCHANGED loopvars
    BY DEF SaysVerdict, LeaveStructure, ThrowInStructure, Structural, Reported, Searched
  <1>6. Verify \/ Ended => UNCHANGED structural \/ UNCHANGED vars
    BY DEF Verify, Ended
  <1>7. \/ Verify \/ Ended \/ AbstractStructure \/ Analyse \/ SaysVerdict
        \/ LeaveStructure \/ ThrowInStructure \/ Quiet \/ UNCHANGED vars
    BY DEF Next, LeaveMain, Missing, GiveUp, CheckOverflow, Unsupported, Load,
       SelectAdvisor, Recognise, LdvMalloc, Run, Float, FloatSkipped, RunECA,
       RunElevator, NoIR, Unsuitable, Decide, Throw, WriteWitness, TimerFires
  <1> QED
    BY <1>1, <1>2, <1>3, <1>4, <1>5, <1>6, <1>7 DEF structural, loopvars

(***************************************************************************)
(* The inductive invariant: lines are about files verified so far, the     *)
(* current file has none before it is judged, and while it is abstracted   *)
(* structurally none but the verdicts of this that are not FALSE.          *)
(***************************************************************************)
Bare == \A k \in DOMAIN out : out[k].file # current

OnlyStructural ==
  \A k \in DOMAIN out : out[k].file = current =>
    out[k].by = "structural" /\ out[k].verdict # "FALSE"

Told ==
  /\ current \in Nat /\ verificationResult \in Results
  /\ out \in Seq(Line)
  /\ \A k \in DOMAIN out : out[k].file <= current
  /\ pc \in Early => Bare
  /\ pc = "structural" => OnlyStructural
  /\ VerdictsAgree

LEMMA ToldInit == Init => Told
  <1> SUFFICES ASSUME Init PROVE Told
    OBVIOUS
  <1>1. current = 0 /\ pc = "main" /\ out = <<>> /\ verificationResult = "UNKNOWN"
    BY DEF Init, Fresh
  <1> QED
    BY <1>1 DEF Told, Results, VerdictsAgree, Early

\* What a new line leaves as it was.
LEMMA AppendLine ==
  ASSUME NEW S, NEW s \in Seq(S), NEW e \in S
  PROVE  /\ Append(s, e) \in Seq(S)
         /\ DOMAIN Append(s, e) = DOMAIN s \cup {Len(s) + 1}
         /\ \A k \in DOMAIN s : Append(s, e)[k] = s[k] /\ k < Len(s) + 1
         /\ Append(s, e)[Len(s) + 1] = e
  OBVIOUS

\* A line may be added that disagrees with no earlier one of its file.
LEMMA LineAdded ==
  ASSUME Told, NEW v \in Results, NEW b \in {"verify", "handler", "structural", "timer"},
         Printed(v, b), current' = current,
         \A k \in DOMAIN out : out[k].file = current =>
           \/ out[k].verdict = v
           \/ b = "timer"
           \/ out[k].verdict # "FALSE" /\ out[k].by = "structural"
  PROVE  /\ out' \in Seq(Line)
         /\ \A k \in DOMAIN out' : out'[k].file <= current'
         /\ VerdictsAgree'
  <1> DEFINE e == [file |-> current, verdict |-> v, by |-> b]
             n == Len(out) + 1
  <1>1. e \in Line /\ out \in Seq(Line) /\ current \in Nat
    BY DEF Told, Line
  <1>2. out' = Append(out, e)
    BY DEF Printed
  <1> HIDE DEF e
  <1>3. /\ out' \in Seq(Line) /\ DOMAIN out' = DOMAIN out \cup {n}
        /\ \A k \in DOMAIN out : out'[k] = out[k] /\ k < n
        /\ out'[n] = e
    BY <1>1, <1>2, AppendLine
  <1>4. e.file = current /\ e.verdict = v /\ e.by = b
    BY DEF e
  <1>5. DOMAIN out \subseteq Nat /\ n \in Nat /\ n \notin DOMAIN out
    BY <1>1
  <1> HIDE DEF n
  <1>6. \A k \in DOMAIN out' : out'[k].file <= current'
    BY <1>1, <1>3, <1>4 DEF Told
  <1>7. VerdictsAgree'
    <2> SUFFICES ASSUME NEW i \in DOMAIN out', NEW j \in DOMAIN out', i < j,
                        out'[i].file = out'[j].file, out'[i].verdict # out'[j].verdict
                 PROVE  \/ out'[j].by = "timer"
                        \/ out'[i].verdict # "FALSE" /\ out'[i].by = "structural"
      BY DEF VerdictsAgree
    <2>1. i \in DOMAIN out
      BY <1>3, <1>5
    <2>2. CASE j \in DOMAIN out
      BY <2>1, <2>2, <1>3 DEF Told, VerdictsAgree
    <2>3. CASE j = n
      BY <2>1, <2>3, <1>3, <1>4
    <2> QED
      BY <2>2, <2>3, <1>3
  <1> QED
    BY <1>3, <1>6, <1>7

LEMMA ToldNext ==
  ASSUME Told, [Next]_vars
  PROVE  Told'
  <1>1. Saying /\ verificationResult' \in Results
    BY StepSays, ResultKept DEF Told
  <1>2. CASE NextFile
    <2>1. current' = current + 1 /\ out' = out /\ pc' = "verify" /\ current \in Nat
      BY <1>2 DEF NextFile, Told
    <2>2. \A k \in DOMAIN out : out[k].file \in Nat /\ out[k].file <= current
      <3> SUFFICES ASSUME NEW k \in DOMAIN out PROVE out[k].file \in Nat
        BY DEF Told
      <3>1. out[k] \in Line
        BY DEF Told
      <3> QED
        BY <3>1 DEF Line
    <2>3. \A k \in DOMAIN out' : out'[k].file <= current'
      BY <2>1, <2>2
    <2>4. Bare'
      BY <2>1, <2>2 DEF Bare
    <2> QED
      BY <1>1, <2>1, <2>3, <2>4 DEF Told, VerdictsAgree
  <1>3. CASE SaysNothing
    BY <1>1, <1>3 DEF SaysNothing, Told, Bare, OnlyStructural, VerdictsAgree, Early
  <1>4. CASE SaysFirst
    <2>1. PICK v \in Results, b \in {"verify", "handler"} : Printed(v, b)
      BY <1>4 DEF SaysFirst
    <2>2. current' = current /\ pc' \notin Early /\ pc' # "structural" /\ Bare
      BY <1>4 DEF SaysFirst, Early, Told
    <2> QED
      BY <1>1, <2>1, <2>2, LineAdded DEF Told, Bare
  <1>5. CASE SaysStructural
    <2>1. /\ pc = "structural" /\ current' = current
          /\ Printed(verificationResult, "structural") /\ OnlyStructural
          /\ pc' \in {"structural", "ended"}
          /\ pc' = "structural" => verificationResult # "FALSE"
      BY <1>5 DEF SaysStructural, Told
    <2>2. /\ out' \in Seq(Line)
          /\ \A k \in DOMAIN out' : out'[k].file <= current'
          /\ VerdictsAgree'
      BY <2>1, LineAdded DEF OnlyStructural, Told
    <2>3. pc' = "structural" => OnlyStructural'
      <3> DEFINE e == [file |-> current, verdict |-> verificationResult,
                       by |-> "structural"]
      <3>1. e \in Line /\ out \in Seq(Line) /\ out' = Append(out, e)
        BY <2>1 DEF Told, Printed, Line
      <3>2. e.by = "structural" /\ e.verdict = verificationResult
        OBVIOUS
      <3> HIDE DEF e
      <3>3. /\ DOMAIN out' = DOMAIN out \cup {Len(out) + 1}
            /\ \A k \in DOMAIN out : out'[k] = out[k]
            /\ out'[Len(out) + 1] = e
        BY <3>1, AppendLine
      <3> QED
        BY <2>1, <3>2, <3>3 DEF OnlyStructural
    <2> QED
      BY <1>1, <2>1, <2>2, <2>3 DEF Told, Early
  <1>6. CASE SaysThrown
    <2>1. /\ current' = current /\ pc' = "main" /\ OnlyStructural
          /\ Printed("TRUE", "handler")
      BY <1>6 DEF SaysThrown, Told
    <2> QED
      BY <1>1, <2>1, LineAdded DEF Told, OnlyStructural, Early, Results
  <1>7. CASE SaysTimer
    BY <1>1, <1>7, LineAdded DEF SaysTimer, Told, Early, Results
  <1> QED
    BY <1>1, <1>2, <1>3, <1>4, <1>5, <1>6, <1>7 DEF Saying

\* The verdicts printed for one file agree, but for the thread that says TRUE
\* and a structural abstraction that takes TRUE or UNKNOWN back.
THEOREM VerdictsOfAFileAgree == Spec => []VerdictsAgree
  <1>1. Init => Told
    BY ToldInit
  <1>2. Told /\ [Next]_vars => Told'
    BY ToldNext
  <1>3. Told => VerdictsAgree
    BY DEF Told
  <1> QED
    BY <1>1, <1>2, <1>3, PTL DEF Spec
-----------------------------------------------------------------------------
(***************************************************************************)
(* What TRUE of the structural abstraction rests on                        *)
(***************************************************************************)
IsSeq(s) == \E S : s \in Seq(S)

Looping == at \in {"solve", "report"}

\* Steps that leave the loop of MSGManager, or leave it alone
OutsideLoop ==
  \/ UNCHANGED <<msg, vcs, loopvars, at>>
  \/ at' \notin {"solve", "report"} /\ vcs' \in {vcs, <<>>}

LEMMA StepLoops ==
  ASSUME [Next]_vars
  PROVE  OutsideLoop \/ FoundVariableDeclaration \/ Proved \/ Undecided \/ Refuted
  <1>1. CASE AbstractStructure
    BY <1>1 DEF AbstractStructure, Start, OutsideLoop
  <1>2. CASE Analyse
    BY <1>2 DEF Analyse, Structural, FoundStmtTrace, Declarations, vcvars, OutsideLoop
  <1>3. CASE SaysVerdict
    BY <1>3 DEF SaysVerdict, Structural, Reported, vcvars, OutsideLoop
  <1>4. CASE LeaveStructure
    BY <1>4 DEF LeaveStructure, Structural, Searched, vcvars, OutsideLoop
  <1>5. CASE ThrowInStructure
    BY <1>5 DEF ThrowInStructure, vcvars, OutsideLoop
  <1>6. CASE UNCHANGED structural
    BY <1>6 DEF structural, vcvars, OutsideLoop
  <1>7. Quiet \/ Verify \/ Ended \/ UNCHANGED vars => UNCHANGED structural
    BY DEF Quiet, Verify, Ended, vars
  <1>8. \/ Verify \/ Ended \/ AbstractStructure \/ Analyse \/ SaysVerdict
        \/ LeaveStructure \/ ThrowInStructure \/ Quiet \/ UNCHANGED vars
    BY DEF Next, LeaveMain, Missing, GiveUp, CheckOverflow, Unsupported, Load,
       SelectAdvisor, Recognise, LdvMalloc, Run, Float, FloatSkipped, RunECA,
       RunElevator, NoIR, Unsuitable, Decide, Throw, WriteWitness, TimerFires
  <1> QED
    BY <1>1, <1>2, <1>3, <1>4, <1>5, <1>6, <1>7, <1>8

(***************************************************************************)
(* The inductive invariant: every formula is part of its condition, and    *)
(* the conditions before iter were decided, the last of them as the        *)
(* verdict says.                                                           *)
(***************************************************************************)
Contradictory(k) == Unsat(Below(msg, vcs[k]))

Decided ==
  /\ IsSeq(vcs)
  /\ Looping =>
       /\ Len(vcs) > 0 /\ IsSeq(vcFormulas) /\ Len(vcFormulas) = Len(vcs)
       /\ \A k \in 1 .. Len(vcs) : vcFormulas[k] \subseteq Below(msg, vcs[k])
  /\ at = "solve" =>
       /\ iter \in 1 .. Len(vcs)
       /\ \A k \in 1 .. iter - 1 : k \in unanswered \/ Contradictory(k)
  /\ at = "report" /\ verificationResult = "TRUE" =>
       /\ Contradictory(Len(vcs))
       /\ \A k \in 1 .. Len(vcs) : k \in unanswered \/ Contradictory(k)

LEMMA DecidedInit == Init => Decided
  <1> SUFFICES ASSUME Init PROVE Decided
    OBVIOUS
  <1>1. vcs = <<>> /\ at = "idle"
    BY DEF Init, Fresh
  <1>2. <<>> \in Seq({})
    OBVIOUS
  <1>3. IsSeq(vcs)
    BY <1>1, <1>2 DEF IsSeq
  <1> QED
    BY <1>1, <1>3 DEF Decided, Looping

\* A contradiction in a part is one in the whole.
LEMMA UnsatGrows ==
  ASSUME NEW S, NEW T, S \subseteq T, Unsat(S)
  PROVE  Unsat(T)
  BY DEF Unsat

LEMMA AppendIsSeq ==
  ASSUME NEW s, IsSeq(s), NEW e
  PROVE  IsSeq(Append(s, e)) /\ Len(Append(s, e)) \in Nat \ {0}
  <1>1. PICK S : s \in Seq(S)
    BY DEF IsSeq
  <1>2. s \in Seq(S \cup {e})
    BY <1>1
  <1>3. Append(s, e) \in Seq(S \cup {e}) /\ Len(Append(s, e)) = Len(s) + 1
    BY <1>1, <1>2
  <1> QED
    BY <1>1, <1>3 DEF IsSeq

\* Each formula is part of its condition, whatever was written before.
LEMMA FormulasArePart ==
  ASSUME NEW m, NEW V, IsSeq(V)
  PROVE  /\ IsSeq(MSG2smt(m, V)) /\ Len(MSG2smt(m, V)) = Len(V)
         /\ \A k \in 1 .. Len(V) : MSG2smt(m, V)[k] \subseteq Below(m, V[k])
  <1> DEFINE F(k) == Below(m, V[k]) \ (hasTransformed \cup
                       UNION {Below(m, V[j]) : j \in 1 .. k - 1})
             S == {F(k) : k \in 1 .. Len(V)}
  <1>1. DOMAIN V = 1 .. Len(V) /\ Len(V) \in Nat
    BY DEF IsSeq
  <1>2. MSG2smt(m, V) = [k \in 1 .. Len(V) |-> F(k)]
    BY <1>1 DEF MSG2smt
  <1>3. \A k \in 1 .. Len(V) : F(k) \subseteq Below(m, V[k]) /\ F(k) \in S
    OBVIOUS
  <1> HIDE DEF F, S
  <1>4. MSG2smt(m, V) \in [1 .. Len(V) -> S]
    BY <1>2, <1>3
  <1>5. MSG2smt(m, V) \in Seq(S) /\ Len(MSG2smt(m, V)) = Len(V)
    BY <1>1, <1>4
  <1> QED
    BY <1>2, <1>3, <1>5 DEF IsSeq

LEMMA DecidedNext ==
  ASSUME Decided, [Next]_vars
  PROVE  Decided'
  <1>1. CASE OutsideLoop
    <2>1. CASE UNCHANGED <<msg, vcs, loopvars, at>>
      <3>1. \A k : Contradictory(k)' <=> Contradictory(k)
        BY <2>1 DEF Contradictory, Unsat
      <3>2. /\ UNCHANGED <<msg, vcs, at, vcFormulas, iter, unanswered, verificationResult>>
            /\ Contradictory(Len(vcs))' <=> Contradictory(Len(vcs))
        BY <2>1, <3>1 DEF loopvars
      <3>3. IsSeq(vcs') /\ (Looping' => Looping)
        BY <3>2 DEF Decided, Looping
      <3>4. Looping' =>
              /\ Len(vcs') > 0 /\ IsSeq(vcFormulas') /\ Len(vcFormulas') = Len(vcs')
              /\ \A k \in 1 .. Len(vcs') : vcFormulas'[k] \subseteq Below(msg', vcs'[k])
        BY <3>2, <3>3 DEF Decided
      <3>5. at' = "solve" =>
              /\ iter' \in 1 .. Len(vcs')
              /\ \A k \in 1 .. iter' - 1 : k \in unanswered' \/ Contradictory(k)'
        BY <3>1, <3>2 DEF Decided
      <3>6. at' = "report" /\ verificationResult' = "TRUE" =>
              /\ Contradictory(Len(vcs))'
              /\ \A k \in 1 .. Len(vcs') : k \in unanswered' \/ Contradictory(k)'
        BY <3>1, <3>2 DEF Decided
      <3> QED
        BY <3>3, <3>4, <3>5, <3>6 DEF Decided, IsSeq
    <2>2. CASE at' \notin {"solve", "report"} /\ vcs' \in {vcs, <<>>}
      <3>1. <<>> \in Seq({})
        OBVIOUS
      <3>2. IsSeq(vcs')
        BY <2>2, <3>1 DEF IsSeq, Decided
      <3> QED
        BY <2>2, <3>2 DEF Decided, Looping, IsSeq
    <2> QED
      BY <1>1, <2>1, <2>2 DEF OutsideLoop
  <1>2. CASE FoundVariableDeclaration
    <2>1. /\ vcs' = Append(vcs, Len(msg) + 2) /\ vcFormulas' = MSG2smt(msg', vcs')
          /\ iter' = 1 /\ at' = "solve"
      BY <1>2 DEF FoundVariableDeclaration
    <2>2. IsSeq(vcs') /\ Len(vcs') \in Nat \ {0}
      BY <2>1, AppendIsSeq DEF Decided
    <2>3. /\ IsSeq(vcFormulas') /\ Len(vcFormulas') = Len(vcs')
          /\ \A k \in 1 .. Len(vcs') : vcFormulas'[k] \subseteq Below(msg', vcs'[k])
      BY <2>1, <2>2, FormulasArePart
    <2>4. Len(vcs') > 0 /\ 1 \in 1 .. Len(vcs') /\ 1 .. iter' - 1 = {}
      BY <2>1, <2>2
    <2> QED
      BY <2>1, <2>2, <2>3, <2>4 DEF Decided, Looping, IsSeq
  <1>3. ASSUME at = "solve", Advance, UNCHANGED <<vcvars, vcFormulas>>,
               unanswered \subseteq unanswered',
               iter \in unanswered' \/ Contradictory(iter),
               verificationResult' = "TRUE" => Contradictory(iter)
        PROVE  Decided'
    <2>1. /\ iter \in 1 .. Len(vcs) /\ Len(vcs) > 0 /\ Len(vcFormulas) = Len(vcs)
          /\ \A k \in 1 .. iter - 1 : k \in unanswered \/ Contradictory(k)
      BY <1>3 DEF Decided, Looping
    <2>2. msg' = msg /\ vcs' = vcs /\ vcFormulas' = vcFormulas
      BY <1>3 DEF vcvars
    <2>3. Len(vcs) \in Nat
      BY DEF Decided, IsSeq
    <2>4. \A k : Contradictory(k)' <=> Contradictory(k)
      BY <2>2 DEF Contradictory, Unsat
    <2>5. \A k \in 1 .. iter : k \in unanswered' \/ Contradictory(k)
      BY <1>3, <2>1, <2>3
    <2>6. /\ iter' = iter + 1
          /\ at' = IF iter = Len(vcs) THEN "report" ELSE "solve"
      BY <1>3, <2>1 DEF Advance
    <2>7. /\ IsSeq(vcs') /\ Len(vcs') > 0 /\ IsSeq(vcFormulas')
          /\ Len(vcFormulas') = Len(vcs')
          /\ \A k \in 1 .. Len(vcs') : vcFormulas'[k] \subseteq Below(msg', vcs'[k])
      BY <1>3, <2>1, <2>2 DEF Decided, Looping
    <2>8. at' = "solve" => /\ iter' \in 1 .. Len(vcs')
                           /\ \A k \in 1 .. iter' - 1 : k \in unanswered' \/ Contradictory(k)'
      BY <2>1, <2>2, <2>3, <2>4, <2>5, <2>6
    <2>9. at' = "report" /\ verificationResult' = "TRUE" =>
            /\ Contradictory(Len(vcs))'
            /\ \A k \in 1 .. Len(vcs') : k \in unanswered' \/ Contradictory(k)'
      <3>1. Contradictory(Len(vcs))' <=> Contradictory(Len(vcs))
        BY <2>2 DEF Contradictory, Unsat
      <3> QED
        BY <1>3, <2>1, <2>2, <2>3, <2>4, <2>5, <2>6, <3>1
    <2> QED
      BY <2>7, <2>8, <2>9 DEF Decided, IsSeq
  <1>4. CASE Proved
    <2>1. /\ at = "solve" /\ Advance /\ UNCHANGED <<vcvars, vcFormulas>>
          /\ unanswered' = unanswered /\ Unsat(vcFormulas[iter])
      BY <1>4 DEF Proved
    <2>2. vcFormulas[iter] \subseteq Below(msg, vcs[iter])
      BY <2>1 DEF Decided, Looping
    <2>3. Contradictory(iter)
      BY <2>1, <2>2, UnsatGrows DEF Contradictory
    <2> QED
      BY <2>1, <2>3, <1>3
  <1>5. CASE Undecided
    BY <1>5, <1>3 DEF Undecided
  <1>6. CASE Refuted
    <2>1. /\ UNCHANGED <<msg, vcs, vcFormulas>> /\ at = "solve" /\ at' = "report"
          /\ verificationResult' = "FALSE"
      BY <1>6 DEF Refuted, vcvars
    <2> QED
      BY <2>1 DEF Decided, Looping, IsSeq
  <1> QED
    BY <1>1, <1>2, <1>4, <1>5, <1>6, StepLoops

\* TRUE is said of a file only if the condition that was added last is
\* contradictory, and each other one unless the solver did not decide it.
THEOREM TrueVerdictIsProved == Spec => []TrueIsProved
  <1>1. Init => Decided
    BY DecidedInit
  <1>2. Decided /\ [Next]_vars => Decided'
    BY DecidedNext
  <1>3. Decided => TrueIsProved
    <2> SUFFICES ASSUME Decided, at = "report", verificationResult = "TRUE"
                 PROVE  TrueIsProved
      BY DEF TrueIsProved
    <2>1. DOMAIN vcs = 1 .. Len(vcs)
      BY DEF Decided, IsSeq
    <2> QED
      BY <2>1 DEF Decided, Contradictory, TrueIsProved
  <1> QED
    BY <1>1, <1>2, <1>3, PTL DEF Spec
-----------------------------------------------------------------------------
(***************************************************************************)
(* The globals                                                             *)
(***************************************************************************)
LEMMA SettledFacts ==
  ASSUME NEW h \in Globals
  PROVE  /\ Settled(h) \in Globals
         /\ Settled(h).advisor # ""
         /\ h.advisor # "" => Settled(h).advisor = h.advisor
         /\ h.advisor = "" => Settled(h).advisor \in {"naive", "arraysbounds"}
         /\ Settled(h).need_context = h.need_context /\ Settled(h).cde = h.cde
         /\ Settled(h).slice = h.slice /\ Settled(h).sound = h.sound
         /\ Settled(h).unroll = h.unroll
  <1> DEFINE p == FromProperty(h)
  <1>1. /\ p \in Globals
        /\ h.advisor # "" => p.advisor = h.advisor
        /\ h.advisor = "" => p.advisor \in {"", "naive", "arraysbounds"}
        /\ p.need_context = h.need_context /\ p.cde = h.cde
        /\ p.slice = h.slice /\ p.sound = h.sound /\ p.unroll = h.unroll
    <2>1. \/ p = h
          \/ h.advisor = "" /\ p = [h EXCEPT !.advisor = "arraysbounds"]
          \/ h.advisor = "" /\ p = [h EXCEPT !.check_overflow = TRUE]
          \/ h.advisor = "" /\ p = [h EXCEPT !.advisor = "naive"]
      <3>1. CASE h.advisor # "" \/ property \in {"none", "termination"}
        BY <3>1 DEF FromProperty
      <3>2. CASE h.advisor = "" /\ property = "deref"
        BY <3>2 DEF FromProperty
      <3>3. CASE h.advisor = "" /\ property = "overflow"
        BY <3>3 DEF FromProperty
      <3>4. CASE h.advisor = "" /\ property \notin {"none", "termination", "deref", "overflow"}
        BY <3>4 DEF FromProperty
      <3> QED
        BY <3>1, <3>2, <3>3, <3>4
    <2> HIDE DEF p
    <2>2. CASE p = h
      BY <2>2 DEF Globals
    <2>3. CASE h.advisor = "" /\ p = [h EXCEPT !.advisor = "arraysbounds"]
      BY <2>3 DEF Globals
    <2>4. CASE h.advisor = "" /\ p = [h EXCEPT !.check_overflow = TRUE]
      BY <2>4 DEF Globals
    <2>5. CASE h.advisor = "" /\ p = [h EXCEPT !.advisor = "naive"]
      BY <2>5 DEF Globals
    <2> QED
      BY <2>1, <2>2, <2>3, <2>4, <2>5
  <1>2. Settled(h) = IF p.advisor = "" THEN [p EXCEPT !.advisor = "naive"] ELSE p
    BY DEF Settled
  <1> HIDE DEF p
  <1>3. CASE p.advisor = ""
    <2>1. Settled(h) = [p EXCEPT !.advisor = "naive"]
      BY <1>2, <1>3
    <2>2. /\ Settled(h) \in Globals /\ Settled(h).advisor = "naive"
          /\ Settled(h).need_context = p.need_context /\ Settled(h).cde = p.cde
          /\ Settled(h).slice = p.slice /\ Settled(h).sound = p.sound
          /\ Settled(h).unroll = p.unroll
      BY <1>1, <2>1 DEF Globals
    <2> QED
      BY <1>1, <1>3, <2>2
  <1>4. CASE p.advisor # ""
    <2>1. Settled(h) = p
      BY <1>2, <1>4
    <2> QED
      BY <1>1, <1>4, <2>1
  <1> QED
    BY <1>3, <1>4

LEMMA SettledAdvisor ==
  ASSUME NEW h \in Globals, NEW o \in Globals, h.advisor = o.advisor
  PROVE  Settled(h).advisor = Settled(o).advisor
  <1>1. CASE h.advisor # ""
    BY <1>1, SettledFacts
  <1>2. CASE h.advisor = "" /\ property \in {"none", "termination"}
    BY <1>2 DEF Settled, FromProperty, Globals
  <1>3. CASE h.advisor = "" /\ property = "deref"
    BY <1>3 DEF Settled, FromProperty, Globals
  <1>4. CASE h.advisor = "" /\ property = "overflow"
    BY <1>4 DEF Settled, FromProperty, Globals
  <1>5. CASE h.advisor = "" /\ property \notin {"none", "termination", "deref", "overflow"}
    BY <1>5 DEF Settled, FromProperty, Globals
  <1> QED
    BY <1>1, <1>2, <1>3, <1>4, <1>5

LEMMA SettledReach ==
  ASSUME NEW h \in Globals, h.advisor = "", property \in {"none", "reach"}
  PROVE  Settled(h).advisor = "naive"
  BY DEF Settled, FromProperty, Globals

LEMMA ForFileFacts ==
  ASSUME NEW f, NEW h \in Globals
  PROVE  /\ ForFile(f, h) \in Globals
         /\ ForFile(f, h).advisor = Settled(h).advisor
         /\ ForFile(f, h).need_context = (h.need_context /\ f.ext # "ll")
         /\ ForFile(f, h).cde = h.cde /\ ForFile(f, h).slice = h.slice
         /\ ForFile(f, h).sound = h.sound /\ ForFile(f, h).unroll = h.unroll
  <1> DEFINE t == Settled(h)
  <1>1. /\ t \in Globals /\ t.need_context = h.need_context /\ t.cde = h.cde
        /\ t.slice = h.slice /\ t.sound = h.sound /\ t.unroll = h.unroll
    BY SettledFacts
  <1>2. ForFile(f, h) = IF f.ext = "ll" THEN [t EXCEPT !.need_context = FALSE] ELSE t
    BY DEF ForFile
  <1> HIDE DEF t
  <1>3. ForFile(f, h).advisor = t.advisor
    BY <1>1, <1>2 DEF Globals
  <1>4. h.need_context \in BOOLEAN
    BY DEF Globals
  <1> QED
    BY <1>1, <1>2, <1>3, <1>4 DEF Globals, t

LEMMA OwnAdvisorType ==
  ASSUME NEW c
  PROVE  OwnAdvisor(c) \in {"", "cde", "structural", "absref", "naive"}
  BY DEF OwnAdvisor

LEMMA InContextFacts ==
  ASSUME NEW c, NEW h \in Globals
  PROVE  /\ InContext(c, h) \in Globals
         /\ InContext(c, h).need_context = h.need_context
         /\ InContext(c, h).slice = h.slice
         /\ OwnAdvisor(c) = "" => InContext(c, h).advisor = h.advisor
         /\ OwnAdvisor(c) # "" => InContext(c, h).advisor = OwnAdvisor(c)
  <1>1. OwnAdvisor(c) \in {"", "cde", "structural", "absref", "naive"}
    BY OwnAdvisorType
  <1>2. InContext(c, h) \in Globals
    <2> DEFINE a == IF OwnAdvisor(c) = "" THEN h.advisor ELSE OwnAdvisor(c)
               d == IF c \in {"Elevator", "ECA"} THEN c ELSE h.cde
               n == h.sound \/ c = "LOOP"
               u == h.unroll \/ (c = "LargerUnroll" /\ property \in {"none", "reach"})
    <2>1. a \in {"", "naive", "absref", "value", "structural", "cde", "arraysbounds"}
      BY <1>1 DEF Globals
    <2>2. d \in {"ECA", "Elevator"} /\ n \in BOOLEAN /\ u \in BOOLEAN
      BY DEF Globals
    <2>3. InContext(c, h) = [h EXCEPT !.advisor = a, !.cde = d, !.sound = n, !.unroll = u]
      BY DEF InContext
    <2> HIDE DEF a, d, n, u
    <2> QED
      BY <2>1, <2>2, <2>3 DEF Globals
  <1>3. /\ InContext(c, h).need_context = h.need_context
        /\ InContext(c, h).slice = h.slice
    BY DEF InContext, Globals
  <1>4. /\ OwnAdvisor(c) = "" => InContext(c, h).advisor = h.advisor
        /\ OwnAdvisor(c) # "" => InContext(c, h).advisor = OwnAdvisor(c)
    BY DEF InContext, Globals
  <1> QED
    BY <1>2, <1>3, <1>4

LEMMA InContextMore ==
  ASSUME NEW c, NEW h \in Globals
  PROVE  /\ c \notin {"Elevator", "ECA"} => InContext(c, h).cde = h.cde
         /\ c = "Elevator" => InContext(c, h).cde = "Elevator"
         /\ InContext(c, h).sound => h.sound \/ c = "LOOP"
         /\ InContext(c, h).unroll =>
              h.unroll \/ (c = "LargerUnroll" /\ property \in {"none", "reach"})
  BY OwnAdvisorType DEF InContext, Globals

\* Nothing but the property is read besides the record.
LEMMA SettledStays ==
  ASSUME property' = property, files' = files, options' = options
  PROVE  /\ \A h : Settled(h)' = Settled(h)
         /\ \A f, h : ForFile(f, h)' = ForFile(f, h)
         /\ \A c, h : InContext(c, h)' = InContext(c, h)
         /\ \A f : Alone(f)' = Alone(f)
  BY DEF Alone, Settled, FromProperty, ForFile, InContext
-----------------------------------------------------------------------------
(***************************************************************************)
(* Where the globals come from. The invariant says of each global, when it *)
(* is not as the options set it, which file did that.                      *)
(***************************************************************************)
\* The files the globals were already changed for: the current one when its
\* context was looked at.
Upto == IF \/ pc \in {"verify", "context"}
           \/ pc = "analyse" /\ ~g.need_context
          THEN current - 1 ELSE current

\* Files are analysed in their order, each at most once.
InOrder ==
  /\ options \in Options /\ g \in Globals
  /\ IsSeq(files) /\ current \in 0 .. Len(files) /\ DOMAIN used = DOMAIN files
  /\ pc \in Early \cup {"structural"} => current > 0
  /\ \A i \in DOMAIN files :
       (i > current \/ (i = current /\ pc \in Early)) => used[i] = NotAnalysed

\* The contexts are turned off by IR, and select the advisor before the analysis.
Contexts ==
  /\ g.need_context => options.need_context
  /\ options.need_context /\ ~g.need_context => \E j \in IRFiles : j <= current
  /\ pc = "context" => file.ext = "c" /\ g.need_context
  /\ pc \in {"context", "analyse"} => g.advisor # ""
  /\ pc = "analyse" /\ g.need_context =>
       /\ file.ext = "c"
       /\ OwnAdvisor(file.context) # "" => g.advisor = OwnAdvisor(file.context)

Origin ==
  /\ g.sound => \E j \in LoopFiles : j <= Upto
  /\ g.unroll => \E j \in DepthFiles : j <= Upto
  /\ g.unroll => property \in {"none", "reach"}
  /\ g.slice => \E j \in SplitFiles : j <= current
  /\ \/ g.advisor \in {options.advisor, Settled(options).advisor}
     \/ options.need_context /\ \E j \in AdvisorFiles : j <= current

Settling == InOrder /\ Contexts /\ Origin /\ SettingsLeak

\* main takes the analysis for one that writes its witness.
OwnWriter == g.advisor = "structural" \/ (g.advisor = "cde" /\ g.cde = "ECA")

Sourced(n) ==
  \/ options.advisor \in {"structural", "cde"}
  \/ \E j \in 1 .. n : files[j].ext = "c" /\ files[j].context \in {"ECA", "DeviceDrivers"}

Written ==
  \/ witness = [file |-> current, says |-> Says(result)]
  \/ used[current] = NotAnalysed /\ Sourced(current - 1)

Witnessing ==
  /\ OwnWriter => Sourced(Upto)
  /\ pc \in Early \cup {"structural"} => result = 0
  /\ pc = "return" /\ result # 0 /\ OwnWriter => Written
  /\ WitnessIsCurrent

\* The steps, by what they do to the globals
Verifies ==
  /\ pc = "main" /\ pc' = "verify" /\ current < Len(files) /\ current' = current + 1
  /\ UNCHANGED <<input, g, used>>

Stays ==
  /\ UNCHANGED <<input, current, g, used>>
  /\ pc' \in {pc, "main", "return", "ended"}

Analyses ==
  /\ pc = "analyse" /\ Use /\ UNCHANGED <<input, current, g>>
  /\ pc' \in {"main", "return", "ended"}

Settles ==
  /\ pc = "verify" /\ g' = Settled(g) /\ UNCHANGED <<input, current, used>>
  /\ pc' \in {"return", "ended"}

Loads ==
  /\ pc = "verify" /\ file.ext \in {"c", "ll"} /\ g' = ForFile(file, g)
  /\ pc' = IF g'.need_context THEN "context" ELSE "analyse"
  /\ UNCHANGED <<input, current, used>>

Selects ==
  /\ pc = "context" /\ g' = InContext(file.context, g) /\ UNCHANGED <<input, current, used>>
  /\ pc' \in {"analyse", "return"}

Splits ==
  /\ pc = "analyse" /\ g.advisor = "structural" /\ pc' = "structural"
  /\ g' = [g EXCEPT !.slice = TRUE] /\ Use /\ UNCHANGED <<input, current>>

LEMMA StepMoves ==
  ASSUME [Next]_vars
  PROVE  Verifies \/ Stays \/ Analyses \/ Settles \/ Loads \/ Selects \/ Splits
  <1>1. CASE UNCHANGED vars
    BY <1>1 DEF vars, main, Stays
  <1>2. CASE Verify
    BY <1>2 DEF Verify, Verifies
  <1>3. CASE LeaveMain \/ Missing \/ GiveUp \/ LdvMalloc \/ FloatSkipped \/ NoIR \/ Unsuitable
    BY <1>3 DEF LeaveMain, Missing, GiveUp, LdvMalloc, FloatSkipped, NoIR, Unsuitable,
                Judge, Return, Exit, Quiet, Stays
  <1>4. CASE CheckOverflow \/ Unsupported
    BY <1>4 DEF CheckOverflow, Unsupported, Opened, Proceeds, Judge, Return, Exit, Quiet, Settles
  <1>5. CASE Load
    BY <1>5 DEF Load, Proceeds, Opened, Quiet, Loads
  <1>6. CASE SelectAdvisor \/ Float
    BY <1>6 DEF SelectAdvisor, Float, Context, Quiet, Selects
  <1>7. CASE Recognise
    BY <1>7 DEF Recognise, Context, Judge, Return, Quiet, Selects
  <1>8. CASE Run
    BY <1>8 DEF Run, Judge, Return, Quiet, Stays
  <1>9. CASE RunECA \/ RunElevator
    BY <1>9 DEF RunECA, RunElevator, With, Judge, Return, Exit, Quiet, Analyses
  <1>10. CASE AbstractStructure
    BY <1>10 DEF AbstractStructure, With, Use, Splits
  <1>11. CASE Decide \/ Throw
    BY <1>11 DEF Decide, Throw, Searches, Advised, Judge, Return, Quiet, Analyses
  <1>12. CASE Analyse
    BY <1>12 DEF Analyse, main, Stays
  <1>13. CASE SaysVerdict \/ LeaveStructure \/ ThrowInStructure
    BY <1>13 DEF SaysVerdict, LeaveStructure, ThrowInStructure, Return, Stays
  <1>14. CASE WriteWitness \/ TimerFires
    BY <1>14 DEF WriteWitness, TimerFires, Exit, Quiet, Stays
  <1>15. CASE Ended
    BY <1>15 DEF Ended, vars, main, Stays
  <1> QED
    BY <1>1, <1>2, <1>3, <1>4, <1>5, <1>6, <1>7, <1>8, <1>9, <1>10, <1>11, <1>12,
       <1>13, <1>14, <1>15 DEF Next

Moves == Verifies \/ Stays \/ Analyses \/ Settles \/ Loads \/ Selects \/ Splits

LEMMA InputStays ==
  ASSUME Moves
  PROVE  /\ UNCHANGED input
         /\ IRFiles' = IRFiles /\ LoopFiles' = LoopFiles
         /\ DepthFiles' = DepthFiles /\ AdvisorFiles' = AdvisorFiles
  <1>1. files' = files /\ property' = property /\ options' = options
    BY DEF Moves, Verifies, Stays, Analyses, Settles, Loads, Selects, Splits, input
  <1> QED
    BY <1>1 DEF input, IRFiles, LoopFiles, DepthFiles, AdvisorFiles

LEMMA InOrderNext ==
  ASSUME InOrder, Moves
  PROVE  InOrder'
  <1>1. UNCHANGED <<files, property, options>>
    BY InputStays DEF input
  <1>2. g' \in Globals
    <2>1. CASE Settles
      BY <2>1, SettledFacts DEF InOrder, Settles
    <2>2. CASE Loads
      BY <2>2, ForFileFacts DEF InOrder, Loads
    <2>3. CASE Selects
      BY <2>3, InContextFacts DEF InOrder, Selects
    <2>4. CASE Splits
      BY <2>4 DEF InOrder, Splits, Globals
    <2> QED
      BY <2>1, <2>2, <2>3, <2>4 DEF InOrder, Moves, Verifies, Stays, Analyses
  <1>3. Len(files) \in Nat
    BY DEF InOrder, IsSeq
  <1>4. DOMAIN used' = DOMAIN files'
    BY <1>1 DEF InOrder, Moves, Verifies, Stays, Analyses, Settles, Loads, Selects, Splits, Use
  <1>5. current' \in 0 .. Len(files') /\ (pc' \in Early \cup {"structural"} => current' > 0)
    <2>1. CASE Verifies
      BY <1>1, <1>3, <2>1 DEF InOrder, Verifies
    <2>2. \/ Verifies
          \/ /\ current' = current
             /\ pc' \in Early \cup {"structural"} => pc \in Early \cup {"structural"}
      BY DEF Moves, Stays, Analyses, Settles, Loads, Selects, Splits, Early
    <2> QED
      BY <1>1, <2>1, <2>2 DEF InOrder
  <1>6. ASSUME NEW i \in DOMAIN files', i > current' \/ (i = current' /\ pc' \in Early)
        PROVE  used'[i] = NotAnalysed
    <2>1. i \in DOMAIN files /\ i \in Int /\ current \in Int
      BY <1>1, <1>3, <1>6 DEF InOrder, IsSeq
    <2>2. CASE Verifies
      BY <1>6, <2>1, <2>2 DEF InOrder, Verifies
    <2>3. CASE Stays \/ Settles \/ Loads \/ Selects
      <3>1. current' = current /\ used' = used /\ (pc' \in Early => pc \in Early)
        BY <2>3 DEF Stays, Settles, Loads, Selects, Early
      <3> QED
        BY <1>6, <2>1, <3>1 DEF InOrder
    <2>4. CASE Analyses \/ Splits
      <3>1. current' = current /\ pc' \notin Early
        BY <2>4 DEF Analyses, Splits, Early
      <3>2. used'[i] = used[i]
        BY <1>6, <2>1, <2>4, <3>1 DEF Analyses, Splits, Use, InOrder
      <3> QED
        BY <1>6, <2>1, <3>1, <3>2 DEF InOrder
    <2> QED
      BY <2>2, <2>3, <2>4 DEF Moves
  <1> QED
    BY <1>1, <1>2, <1>4, <1>5, <1>6 DEF InOrder, IsSeq

LEMMA CurrentFile ==
  ASSUME InOrder, pc \in Early
  PROVE  /\ current \in DOMAIN files /\ used[current] = NotAnalysed
         /\ \A j \in DOMAIN files : j \in Int
  <1>1. Len(files) \in Nat /\ DOMAIN files = 1 .. Len(files)
    BY DEF InOrder, IsSeq
  <1> QED
    BY <1>1 DEF InOrder

LEMMA ContextsNext ==
  ASSUME InOrder, Contexts, Moves
  PROVE  Contexts'
  <1>1. UNCHANGED <<files, property, options>> /\ IRFiles' = IRFiles
    BY InputStays DEF input
  <1>2. current \in Int /\ g \in Globals /\ \A j \in IRFiles : j \in Int
    BY DEF InOrder, IsSeq, IRFiles
  <1>3. CASE Verifies
    <2>1. g' = g /\ pc' = "verify" /\ current' = current + 1
      BY <1>3 DEF Verifies
    <2>2. options.need_context /\ ~g.need_context => \E j \in IRFiles : j <= current + 1
      <3>1. ASSUME NEW j \in IRFiles, j <= current
            PROVE  j <= current + 1
        BY <1>2, <3>1
      <3> QED
        BY <3>1 DEF Contexts
    <2> QED
      BY <1>1, <2>1, <2>2 DEF Contexts
  <1>4. CASE Stays
    BY <1>1, <1>4 DEF Contexts, Stays, file
  <1>5. CASE Analyses
    BY <1>1, <1>5 DEF Contexts, Analyses
  <1>6. CASE Settles
    BY <1>1, <1>2, <1>6, SettledFacts DEF Contexts, Settles
  <1>7. CASE Loads
    <2>1. /\ g'.need_context = (g.need_context /\ file.ext # "ll") /\ g'.advisor # ""
      <3>1. g' = ForFile(file, g)
        BY <1>7 DEF Loads
      <3>2. /\ ForFile(file, g).need_context = (g.need_context /\ file.ext # "ll")
            /\ ForFile(file, g).advisor = Settled(g).advisor
        BY <1>2, ForFileFacts
      <3>3. Settled(g).advisor # ""
        BY <1>2, SettledFacts
      <3> QED
        BY <3>1, <3>2, <3>3
    <2>2. /\ current' = current /\ file' = file /\ file.ext \in {"c", "ll"}
          /\ pc' = IF g'.need_context THEN "context" ELSE "analyse"
      BY <1>1, <1>7 DEF Loads, file
    <2>3. file.ext = "ll" => \E j \in IRFiles : j <= current
      <3>1. current \in DOMAIN files
        BY <1>7, CurrentFile DEF Loads, Early
      <3> QED
        BY <1>2, <3>1 DEF IRFiles, file
    <2> QED
      BY <1>1, <2>1, <2>2, <2>3 DEF Contexts
  <1>8. CASE Selects
    <2>1. /\ g'.need_context = g.need_context
          /\ OwnAdvisor(file.context) = "" => g'.advisor = g.advisor
          /\ OwnAdvisor(file.context) # "" => g'.advisor = OwnAdvisor(file.context)
      <3>1. g' = InContext(file.context, g)
        BY <1>8 DEF Selects
      <3> QED
        BY <1>2, <3>1, InContextFacts
    <2>2. current' = current /\ file' = file /\ pc = "context" /\ pc' # "context"
      BY <1>1, <1>8 DEF Selects, file
    <2> QED
      BY <1>1, <2>1, <2>2 DEF Contexts
  <1>9. CASE Splits
    <2>1. g'.need_context = g.need_context
      BY <1>2, <1>9 DEF Splits, Globals
    <2> QED
      BY <1>1, <1>9, <2>1 DEF Contexts, Splits
  <1> QED
    BY <1>3, <1>4, <1>5, <1>6, <1>7, <1>8, <1>9 DEF Moves

\* A file that was abstracted structurally stays one.
LEMMA SplitFilesGrow ==
  ASSUME InOrder, Moves
  PROVE  /\ \A j \in SplitFiles : j \in SplitFiles' /\ j \in Int
         /\ pc \in Early => \A j \in SplitFiles : j # current
  <1>1. files' = files /\ \A j \in DOMAIN files : j \in Int
    BY InputStays DEF input, InOrder, IsSeq
  <1>2. pc \in Early => \A j \in SplitFiles : j # current
    <2>1. ASSUME pc \in Early, NEW j \in SplitFiles
          PROVE  j # current
      <3>1. used[current].advisor = ""
        <4>1. used[current] = NotAnalysed
          BY <2>1, CurrentFile
        <4>2. NotAnalysed.advisor = ""
          BY DEF NotAnalysed
        <4> QED
          BY <4>1, <4>2
      <3> QED
        BY <2>1, <3>1 DEF SplitFiles
    <2> QED
      BY <2>1
  <1>3. ASSUME NEW j \in SplitFiles
        PROVE  used'[j] = used[j]
    <2>1. CASE Analyses \/ Splits
      <3>1. pc \in Early /\ used' = [used EXCEPT ![current] = Settings(g)]
        BY <2>1 DEF Analyses, Splits, Use, Early
      <3> QED
        BY <1>2, <3>1 DEF InOrder, SplitFiles
    <2> QED
      BY <2>1 DEF Moves, Verifies, Stays, Settles, Loads, Selects
  <1> QED
    BY <1>1, <1>2, <1>3 DEF SplitFiles

LEMMA UptoNext ==
  ASSUME InOrder, Moves
  PROVE  Upto' \in Int /\ Upto \in Int /\ Upto <= Upto'
         /\ Upto <= current /\ current <= current' /\ current' \in Int /\ current \in Int
  <1>1. current \in Int /\ g \in Globals
    BY DEF InOrder, IsSeq
  <1>2. CASE Verifies
    BY <1>1, <1>2 DEF Verifies, Upto
  <1>3. CASE Stays \/ Analyses \/ Settles
    BY <1>1, <1>3 DEF Stays, Analyses, Settles, Upto
  <1>4. CASE Loads
    BY <1>1, <1>4 DEF Loads, Upto
  <1>5. CASE Selects
    BY <1>1, <1>5 DEF Selects, Upto
  <1>6. CASE Splits
    BY <1>1, <1>6 DEF Splits, Upto
  <1> QED
    BY <1>2, <1>3, <1>4, <1>5, <1>6 DEF Moves

\* What a context sets, it sets for its file.
LEMMA SelectsOrigin ==
  ASSUME InOrder, Contexts, Selects
  PROVE  /\ Upto' = current /\ current \in DOMAIN files /\ file.ext = "c"
         /\ g'.sound => g.sound \/ current \in LoopFiles
         /\ g'.unroll => g.unroll \/ (current \in DepthFiles /\ property \in {"none", "reach"})
         /\ g'.slice = g.slice
         /\ g'.advisor = g.advisor \/ (current \in AdvisorFiles /\ options.need_context)
  <1>1. g' = InContext(file.context, g) /\ g \in Globals
    BY DEF InOrder, Selects
  <1>2. current \in DOMAIN files /\ file.ext = "c" /\ g.need_context /\ options.need_context
    BY CurrentFile DEF Selects, Contexts, Early
  <1>3. g'.need_context = g.need_context
    BY <1>1, InContextFacts
  <1>4. Upto' = current
    BY <1>2, <1>3 DEF Selects, Upto
  <1>5. g'.sound => g.sound \/ file.context = "LOOP"
    BY <1>1, InContextMore
  <1>6. g'.unroll => g.unroll \/ (file.context = "LargerUnroll" /\ property \in {"none", "reach"})
    BY <1>1, InContextMore
  <1>7. g'.slice = g.slice /\ (OwnAdvisor(file.context) = "" => g'.advisor = g.advisor)
    BY <1>1, InContextFacts
  <1> QED
    BY <1>2, <1>4, <1>5, <1>6, <1>7 DEF file, LoopFiles, DepthFiles, AdvisorFiles

LEMMA OriginNext ==
  ASSUME InOrder, Contexts, Origin, Moves
  PROVE  Origin'
  <1>1. /\ UNCHANGED <<files, property, options>>
        /\ LoopFiles' = LoopFiles /\ DepthFiles' = DepthFiles /\ AdvisorFiles' = AdvisorFiles
        /\ Settled(options)' = Settled(options)
    BY InputStays, SettledStays DEF input
  <1>2. g \in Globals /\ options \in Globals
    BY CeagleAssumption DEF InOrder
  <1>3. /\ \A j \in LoopFiles \cup DepthFiles \cup AdvisorFiles : j \in Int
        /\ Upto' \in Int /\ Upto \in Int /\ Upto <= Upto'
        /\ current <= current' /\ current' \in Int /\ current \in Int
    <2>1. \A j \in DOMAIN files : j \in Int
      BY DEF InOrder, IsSeq
    <2>2. \A j \in LoopFiles \cup DepthFiles \cup AdvisorFiles : j \in Int
      BY <2>1 DEF LoopFiles, DepthFiles, AdvisorFiles
    <2> QED
      BY <2>2, UptoNext
  <1>4. /\ (\E j \in LoopFiles : j <= Upto) => \E j \in LoopFiles : j <= Upto'
        /\ (\E j \in DepthFiles : j <= Upto) => \E j \in DepthFiles : j <= Upto'
        /\ (\E j \in AdvisorFiles : j <= current) => \E j \in AdvisorFiles : j <= current'
    BY <1>3
  <1>5. (\E j \in SplitFiles : j <= current) => \E j \in SplitFiles' : j <= current'
    BY <1>3, SplitFilesGrow
  <1>6. CASE Selects
    <2>1. g'.sound => \E j \in LoopFiles : j <= Upto'
      BY <1>3, <1>4, <1>6, SelectsOrigin DEF Origin
    <2>2. g'.unroll => property \in {"none", "reach"} /\ \E j \in DepthFiles : j <= Upto'
      BY <1>3, <1>4, <1>6, SelectsOrigin DEF Origin
    <2>3. g'.slice => \E j \in SplitFiles' : j <= current'
      BY <1>5, <1>6, SelectsOrigin DEF Origin
    <2>4. \/ g'.advisor \in {options.advisor, Settled(options).advisor}
          \/ options.need_context /\ \E j \in AdvisorFiles : j <= current'
      BY <1>3, <1>4, <1>6, SelectsOrigin DEF Origin
    <2> QED
      BY <1>1, <2>1, <2>2, <2>3, <2>4 DEF Origin
  <1>7. CASE Splits
    <2>1. /\ g'.sound = g.sound /\ g'.unroll = g.unroll /\ g'.advisor = g.advisor
      BY <1>2, <1>7 DEF Splits, Globals
    <2>2. current \in SplitFiles' /\ current' = current
      <3>1. current \in DOMAIN files /\ used' = [used EXCEPT ![current] = Settings(g)]
        BY <1>7, CurrentFile DEF Splits, Use, Early
      <3>2. used'[current].advisor = g.advisor
        BY <3>1 DEF InOrder, Settings
      <3> QED
        BY <1>1, <1>7, <3>1, <3>2 DEF Splits, SplitFiles
    <2> QED
      BY <1>1, <1>3, <1>4, <2>1, <2>2 DEF Origin
  <1>8. CASE Verifies \/ Stays \/ Analyses
    <2>1. g' = g
      BY <1>8 DEF Verifies, Stays, Analyses
    <2> QED
      BY <1>1, <1>4, <1>5, <2>1 DEF Origin
  <1>9. CASE Settles \/ Loads
    <2>1. /\ g'.sound = g.sound /\ g'.unroll = g.unroll /\ g'.slice = g.slice
          /\ g'.advisor = Settled(g).advisor
      <3>1. g' = Settled(g) \/ g' = ForFile(file, g)
        BY <1>9 DEF Settles, Loads
      <3>2. CASE g' = Settled(g)
        BY <1>2, <3>2, SettledFacts
      <3>3. CASE g' = ForFile(file, g)
        BY <1>2, <3>3, ForFileFacts
      <3> QED
        BY <3>1, <3>2, <3>3
    <2>2. \/ g'.advisor \in {options.advisor, Settled(options).advisor}
          \/ options.need_context /\ \E j \in AdvisorFiles : j <= current'
      <3>1. CASE g.advisor = options.advisor
        BY <1>2, <2>1, <3>1, SettledAdvisor
      <3>2. CASE g.advisor = Settled(options).advisor
        BY <1>2, <2>1, <3>2, SettledFacts
      <3> QED
        BY <1>4, <3>1, <3>2 DEF Origin
    <2> QED
      BY <1>1, <1>4, <1>5, <2>1, <2>2 DEF Origin
  <1> QED
    BY <1>6, <1>7, <1>8, <1>9 DEF Moves

\* The settings of a file that is the only one, where its context selects them
LEMMA AloneInContext ==
  ASSUME NEW f, f.ext = "c", options \in Globals, options.need_context
  PROVE  /\ OwnAdvisor(f.context) # "" => Alone(f).advisor = OwnAdvisor(f.context)
         /\ OwnAdvisor(f.context) = "" => Alone(f).advisor = Settled(options).advisor
         /\ f.context = "LOOP" => Alone(f).sound
         /\ (f.context = "LargerUnroll" /\ Alone(f).advisor = "naive"
               /\ property \in {"none", "reach"}) => Alone(f).unroll
  <1> DEFINE h == ForFile(f, options)
             k == InContext(f.context, h)
  <1>1. h \in Globals /\ h.need_context /\ h.advisor = Settled(options).advisor
    BY ForFileFacts
  <1>2. Alone(f) = Settings(k)
    BY <1>1 DEF Alone
  <1>3. /\ k \in Globals
        /\ OwnAdvisor(f.context) # "" => k.advisor = OwnAdvisor(f.context)
        /\ OwnAdvisor(f.context) = "" => k.advisor = h.advisor
    BY <1>1, InContextFacts
  <1>4. /\ f.context = "LOOP" => k.sound
        /\ (f.context = "LargerUnroll" /\ property \in {"none", "reach"}) => k.unroll
    BY <1>1 DEF InContext, Globals
  <1> HIDE DEF h, k
  <1>5. /\ Alone(f).advisor = k.advisor
        /\ k.advisor = "absref" /\ k.sound => Alone(f).sound
        /\ k.advisor = "naive" /\ k.unroll => Alone(f).unroll
    <2>1. /\ Settings(k).advisor = k.advisor
          /\ k.advisor = "absref" /\ k.sound => Settings(k).sound
          /\ k.advisor = "naive" /\ k.unroll => Settings(k).unroll
      BY <1>3 DEF Settings
    <2> QED
      BY <1>2, <2>1
  <1>6. f.context = "LOOP" => OwnAdvisor(f.context) = "absref"
    BY DEF OwnAdvisor
  <1> QED
    BY <1>1, <1>3, <1>4, <1>5, <1>6

LEMMA AloneElsewhere ==
  ASSUME NEW f, f.ext = "ll" \/ ~options.need_context, options \in Globals
  PROVE  Alone(f).advisor = Settled(options).advisor
  <1> DEFINE h == ForFile(f, options)
  <1>1. h \in Globals /\ ~h.need_context /\ h.advisor = Settled(options).advisor
    BY ForFileFacts
  <1>2. Alone(f) = Settings(h)
    BY <1>1 DEF Alone
  <1> QED
    BY <1>1, <1>2 DEF Settings

\* A file that selects its own advisor, the soundness or the depth has them from
\* the context; what else the globals hold comes from an earlier file.
LEMMA CurrentLeak ==
  ASSUME InOrder, Contexts, Origin, pc = "analyse"
  PROVE  LET u == Settings(g)
             own == Alone(file)
             Before(S) == \E j \in S : j < current
         IN /\ u.sound /\ ~own.sound => Before(LoopFiles)
            /\ u.unroll /\ ~own.unroll => Before(DepthFiles)
            /\ u.slice => Before(SplitFiles)
            /\ u.advisor # own.advisor =>
                 \/ Before(IRFiles)
                 \/ /\ Before(AdvisorFiles)
                    /\ file.ext = "ll" \/ OwnAdvisor(file.context) = ""
  <1>1. /\ current \in DOMAIN files /\ current \in Int /\ used[current] = NotAnalysed
        /\ \A j \in DOMAIN files : j \in Int
    BY CurrentFile DEF Early
  <1>2. g \in Globals /\ options \in Globals /\ g.advisor # ""
        /\ (options.need_context => options.advisor = "")
    BY CeagleAssumption DEF InOrder, Contexts
  <1>3. /\ Settings(g).advisor = g.advisor
        /\ Settings(g).sound => g.sound /\ g.advisor = "absref"
        /\ Settings(g).unroll => g.unroll /\ g.advisor = "naive"
        /\ Settings(g).slice => g.slice
    BY <1>2 DEF Settings, Globals
  <1>4. \A S : S \subseteq DOMAIN files /\ current \notin S /\ (\E j \in S : j <= current)
                 => \E j \in S : j < current
    BY <1>1
  <1>5. /\ LoopFiles \subseteq DOMAIN files /\ DepthFiles \subseteq DOMAIN files
        /\ SplitFiles \subseteq DOMAIN files /\ AdvisorFiles \subseteq DOMAIN files
        /\ IRFiles \subseteq DOMAIN files
    BY DEF LoopFiles, DepthFiles, SplitFiles, AdvisorFiles, IRFiles
  <1>6. Settings(g).slice => \E j \in SplitFiles : j < current
    <2>1. NotAnalysed.advisor = ""
      BY DEF NotAnalysed
    <2>2. current \notin SplitFiles
      BY <1>1, <2>1 DEF SplitFiles
    <2> QED
      BY <1>3, <1>4, <1>5, <2>2 DEF Origin
  <1>7. CASE g.need_context
    <2>1. /\ options.need_context /\ file.ext = "c" /\ Upto = current
          /\ OwnAdvisor(file.context) # "" => g.advisor = OwnAdvisor(file.context)
      BY <1>7 DEF Contexts, Upto
    <2>2. /\ OwnAdvisor(file.context) # "" => Alone(file).advisor = OwnAdvisor(file.context)
          /\ OwnAdvisor(file.context) = "" => Alone(file).advisor = Settled(options).advisor
          /\ file.context = "LOOP" => Alone(file).sound
          /\ (file.context = "LargerUnroll" /\ Alone(file).advisor = "naive"
                /\ property \in {"none", "reach"}) => Alone(file).unroll
      BY <1>2, <2>1, AloneInContext
    <2>3. /\ current \in LoopFiles => file.context = "LOOP"
          /\ current \in DepthFiles => file.context = "LargerUnroll"
          /\ current \in AdvisorFiles => OwnAdvisor(file.context) # ""
      BY DEF LoopFiles, DepthFiles, AdvisorFiles, file
    <2>4. Settings(g).sound /\ ~Alone(file).sound => \E j \in LoopFiles : j < current
      BY <1>3, <1>4, <1>5, <2>1, <2>2, <2>3 DEF Origin
    <2>5. g.advisor # Alone(file).advisor =>
            (\E j \in AdvisorFiles : j < current) /\ OwnAdvisor(file.context) = ""
      BY <1>2, <1>4, <1>5, <2>1, <2>2, <2>3 DEF Origin
    <2>6. Settings(g).unroll /\ ~Alone(file).unroll => \E j \in DepthFiles : j < current
      <3>1. file.context = "LargerUnroll" => OwnAdvisor(file.context) = ""
        BY DEF OwnAdvisor
      <3>2. options.advisor = "" /\ property \in {"none", "reach"}
              => Settled(options).advisor = "naive"
        BY <1>2, SettledReach
      <3> QED
        BY <1>2, <1>3, <1>4, <1>5, <2>1, <2>2, <2>3, <3>1, <3>2 DEF Origin
    <2> QED
      BY <1>3, <1>6, <2>4, <2>5, <2>6
  <1>8. CASE ~g.need_context
    <2>1. Upto = current - 1
      BY <1>8 DEF Upto
    <2>2. /\ g.sound => \E j \in LoopFiles : j < current
          /\ g.unroll => \E j \in DepthFiles : j < current
      BY <1>1, <1>5, <2>1 DEF Origin
    <2>3. CASE ~options.need_context
      <3>1. g.advisor = Settled(options).advisor
        BY <1>2, <2>3, SettledFacts DEF Origin
      <3> QED
        BY <1>2, <1>3, <1>6, <2>2, <2>3, <3>1, AloneElsewhere
    <2>4. CASE options.need_context /\ file.ext = "ll"
      <3>1. Alone(file).advisor = Settled(options).advisor
        BY <1>2, <2>4, AloneElsewhere
      <3>2. current \notin AdvisorFiles
        BY <2>4 DEF AdvisorFiles, file
      <3>3. g.advisor # Alone(file).advisor => \E j \in AdvisorFiles : j < current
        BY <1>2, <1>4, <1>5, <2>4, <3>1, <3>2 DEF Origin
      <3> QED
        BY <1>3, <1>6, <2>2, <2>4, <3>3
    <2>5. CASE options.need_context /\ file.ext # "ll"
      <3>1. current \notin IRFiles
        BY <2>5 DEF IRFiles, file
      <3>2. \E j \in IRFiles : j < current
        BY <1>4, <1>5, <1>8, <2>5, <3>1 DEF Contexts
      <3> QED
        BY <1>3, <1>6, <2>2, <3>2
    <2> QED
      BY <2>3, <2>4, <2>5
  <1> QED
    BY <1>7, <1>8

LEMMA LeakNext ==
  ASSUME Settling, Moves
  PROVE  SettingsLeak'
  <1>1. /\ UNCHANGED <<files, property, options>>
        /\ IRFiles' = IRFiles /\ LoopFiles' = LoopFiles
        /\ DepthFiles' = DepthFiles /\ AdvisorFiles' = AdvisorFiles
    BY InputStays DEF input
  <1>2. \A f : Alone(f)' = Alone(f)
    BY <1>1, SettledStays
  <1>3. \A i : (\E j \in SplitFiles : j < i) => \E j \in SplitFiles' : j < i
    BY SplitFilesGrow DEF Settling
  <1>4. ASSUME NEW i \in DOMAIN files, used'[i].advisor # "", used'[i] = used[i]
        PROVE  LET own == Alone(files[i])'
                   Before(S) == \E j \in S : j < i
               IN /\ used'[i].sound /\ ~own.sound => Before(LoopFiles')
                  /\ used'[i].unroll /\ ~own.unroll => Before(DepthFiles')
                  /\ used'[i].slice => Before(SplitFiles')
                  /\ used'[i].advisor # own.advisor =>
                       \/ Before(IRFiles')
                       \/ /\ Before(AdvisorFiles')
                          /\ files'[i].ext = "ll" \/ OwnAdvisor(files'[i].context) = ""
    <2>1. Alone(files[i])' = Alone(files[i])
      BY <1>1, <1>2
    <2> QED
      BY <1>1, <1>3, <1>4, <2>1 DEF Settling, SettingsLeak
  <1>5. ASSUME NEW i \in DOMAIN files, used'[i] # used[i]
        PROVE  /\ i = current /\ pc = "analyse" /\ used'[i] = Settings(g)
    BY <1>5 DEF Moves, Verifies, Stays, Analyses, Settles, Loads, Selects, Splits, Use,
                Settling, InOrder
  <1>6. ASSUME NEW i \in DOMAIN files, used'[i] # used[i]
        PROVE  LET own == Alone(files[i])'
                   Before(S) == \E j \in S : j < i
               IN /\ used'[i].sound /\ ~own.sound => Before(LoopFiles')
                  /\ used'[i].unroll /\ ~own.unroll => Before(DepthFiles')
                  /\ used'[i].slice => Before(SplitFiles')
                  /\ used'[i].advisor # own.advisor =>
                       \/ Before(IRFiles')
                       \/ /\ Before(AdvisorFiles')
                          /\ files'[i].ext = "ll" \/ OwnAdvisor(files'[i].context) = ""
    <2>1. i = current /\ pc = "analyse" /\ used'[i] = Settings(g)
      BY <1>6, <1>5
    <2>2. Alone(files[i])' = Alone(files[i])
      BY <1>1, <1>2
    <2>3. /\ Settings(g).sound /\ ~Alone(files[i]).sound => \E j \in LoopFiles : j < i
          /\ Settings(g).unroll /\ ~Alone(files[i]).unroll => \E j \in DepthFiles : j < i
          /\ Settings(g).slice => \E j \in SplitFiles : j < i
          /\ Settings(g).advisor # Alone(files[i]).advisor =>
               \/ \E j \in IRFiles : j < i
               \/ /\ \E j \in AdvisorFiles : j < i
                  /\ files[i].ext = "ll" \/ OwnAdvisor(files[i].context) = ""
      BY <2>1, CurrentLeak DEF Settling, file
    <2> QED
      BY <1>1, <1>3, <2>1, <2>2, <2>3
  <1> QED
    BY <1>1, <1>4, <1>6 DEF SettingsLeak

LEMMA SettlingInit ==
  ASSUME Init
  PROVE  Settling
  <1>1. /\ options \in Globals /\ g = options /\ current = 0 /\ pc = "main"
        /\ options \in Options
    BY CeagleAssumption DEF Init
  <1>2. /\ ~g.slice /\ ~g.sound /\ ~g.unroll
    BY <1>1, CeagleAssumption
  <1>3. DOMAIN used = DOMAIN files /\ \A i \in DOMAIN files : used[i] = NotAnalysed
    BY DEF Init
  <1>4. NotAnalysed.advisor = ""
    BY DEF NotAnalysed
  <1>5. PICK n \in 1 .. MaxFiles : files \in [1 .. n -> File]
    BY DEF Init
  <1>6. n \in Nat
    <2>1. MaxFiles \in Nat
      BY CeagleAssumption
    <2> QED
      BY <1>5, <2>1
  <1>7. IsSeq(files) /\ Len(files) = n
    <2>1. files \in Seq(File) /\ Len(files) = n
      BY <1>5, <1>6
    <2> QED
      BY <2>1 DEF IsSeq
  <1>8. InOrder
    BY <1>1, <1>3, <1>6, <1>7 DEF InOrder, Early
  <1>9. Contexts
    BY <1>1 DEF Contexts
  <1>10. Origin
    BY <1>1, <1>2 DEF Origin
  <1>11. SettingsLeak
    BY <1>3, <1>4 DEF SettingsLeak
  <1> QED
    BY <1>8, <1>9, <1>10, <1>11 DEF Settling

LEMMA SettlingNext ==
  ASSUME Settling, [Next]_vars
  PROVE  Settling'
  <1>1. Moves
    BY StepMoves DEF Moves
  <1> QED
    BY <1>1, InOrderNext, ContextsNext, OriginNext, LeakNext DEF Settling

\* The settings of an earlier file reach a later one only in the ways stated.
THEOREM SettingsLeakOnlySo == Spec => []SettingsLeak
  <1>1. Settling => SettingsLeak
    BY DEF Settling
  <1> QED
    BY <1>1, SettlingInit, SettlingNext, PTL DEF Spec
-----------------------------------------------------------------------------
(***************************************************************************)
(* The witness                                                             *)
(***************************************************************************)
\* Where the verdict of a file comes from: no analysis, one that is not taken
\* for a writer of its witness, or one that wrote it.
Answered ==
  \/ used' = used /\ pc \in {"verify", "context"} /\ (OwnWriter' => OwnWriter)
  \/ ~OwnWriter'
  \/ witness' = [file |-> current, says |-> Says(result')]

\* The steps, by what they do to the result and the witness
Answering ==
  \/ pc' = "ended"
  \/ pc' = "verify" /\ result' = 0
  \/ /\ pc \in Early \cup {"structural"}
     /\ pc' \in {"main", "context", "analyse", "structural"} /\ result' = result
  \/ /\ pc \in Early \cup {"structural"} /\ current' = current
     /\ pc' = "return" /\ (result' # 0 => Answered)
  \/ /\ pc = "return" /\ pc' = "main" /\ UNCHANGED <<input, current, result, used>>
     /\ IF OwnWriter THEN UNCHANGED witness ELSE Writes(result)
  \/ UNCHANGED <<input, current, pc, result, g, used, witness>>

LEMMA WriterSettled ==
  ASSUME NEW h \in Globals
  PROVE  /\ Settled(h).advisor = "structural" => h.advisor = "structural"
         /\ Settled(h).advisor = "cde" => h.advisor = "cde"
         /\ Settled(h).cde = h.cde
  BY SettledFacts

LEMMA StepAnswers ==
  ASSUME InOrder, [Next]_vars
  PROVE  Answering
  <1>1. CASE UNCHANGED vars \/ Ended
    BY <1>1 DEF vars, main, Ended, Answering
  <1>2. CASE Verify
    BY <1>2 DEF Verify, Answering
  <1>3. CASE LeaveMain \/ NoIR \/ Unsupported \/ TimerFires
    BY <1>3 DEF LeaveMain, NoIR, Unsupported, TimerFires, Exit, Answering
  <1>4. CASE Missing \/ GiveUp \/ FloatSkipped \/ Unsuitable \/ LeaveStructure
    BY <1>4 DEF Missing, GiveUp, Opened, FloatSkipped, Context, Unsuitable, Searches, Advised,
                LeaveStructure, Structural, Judge, Return, Quiet, Answering, Early
  <1>5. CASE LdvMalloc
    BY <1>5 DEF LdvMalloc, Context, Judge, Return, Exit, Quiet, Answering, Early
  <1>6. CASE CheckOverflow
    <2>1. g' = Settled(g) /\ used' = used /\ pc = "verify" /\ current' = current
          /\ pc' \in {"return", "ended"}
      BY <1>6 DEF CheckOverflow, Opened, Judge, Return, Exit, Quiet
    <2>2. OwnWriter' => OwnWriter
      BY <2>1, WriterSettled DEF OwnWriter, InOrder
    <2> QED
      BY <2>1, <2>2 DEF Answered, Answering, Early
  <1>7. CASE Load
    BY <1>7 DEF Load, Proceeds, Opened, Answering, Early
  <1>8. CASE SelectAdvisor \/ Float
    BY <1>8 DEF SelectAdvisor, Float, Context, Answering, Early
  <1>9. CASE Recognise
    <2>1. /\ g' = InContext(file.context, g) /\ used' = used /\ pc = "context"
          /\ pc' = "return" /\ current' = current /\ g \in Globals
          /\ file.context \in {"ByteFalse", "FloatsArray", "Concurrency", "LargeLoop"}
      BY <1>9 DEF Recognise, Context, Judge, Return, Quiet, InOrder
    <2>2. /\ InContext(file.context, g).cde = g.cde
      BY <2>1, InContextMore
    <2>3. OwnAdvisor(file.context) \in {"", "absref"}
      BY <2>1 DEF OwnAdvisor
    <2>4. InContext(file.context, g).advisor \in {g.advisor, "absref"}
      BY <2>1, <2>3, InContextFacts
    <2>5. OwnWriter' => OwnWriter
      BY <2>1, <2>2, <2>4 DEF OwnWriter
    <2> QED
      BY <2>1, <2>5 DEF Answered, Answering, Early
  <1>10. CASE Run
    <2>1. g' = g /\ used' = used /\ pc = "context" /\ pc' = "return" /\ current' = current
      BY <1>10 DEF Run, Context, Judge, Return, Quiet
    <2> QED
      BY <2>1 DEF OwnWriter, Answered, Answering, Early
  <1>11. CASE RunECA
    <2>1. pc \in Early /\ current' = current
      BY <1>11 DEF RunECA, With, Quiet, Early
    <2>2. ASSUME NEW r \in {-1, 0, 1}, Judge(r), Writes(r) PROVE Answering
      <3>1. pc' = "return" /\ result' = r
        BY <2>2 DEF Judge, Return
      <3>2. result' # 0 => witness' = [file |-> current, says |-> Says(result')]
        BY <2>2, <3>1 DEF Writes
      <3> QED
        BY <2>1, <3>1, <3>2 DEF Answered, Answering
    <2>3. CASE pc' = "main" /\ result' = result
      BY <2>1, <2>3 DEF Answering
    <2> QED
      BY <1>11, <2>2, <2>3 DEF RunECA
  <1>12. CASE RunElevator
    <2>1. /\ pc = "analyse" /\ g' = g /\ g.advisor = "cde" /\ g.cde = "Elevator"
          /\ pc' \in {"return", "ended"} /\ current' = current
      BY <1>12 DEF RunElevator, With, Judge, Return, Exit, Quiet
    <2> QED
      BY <2>1 DEF OwnWriter, Answered, Answering, Early
  <1>13. CASE AbstractStructure
    BY <1>13 DEF AbstractStructure, With, Answering, Early
  <1>14. CASE Decide
    <2>1. /\ pc = "analyse" /\ g' = g /\ g.advisor \notin {"cde", "structural"}
          /\ pc' = "return" /\ current' = current
      BY <1>14 DEF Decide, Searches, Advised, Judge, Return, Quiet
    <2> QED
      BY <2>1 DEF OwnWriter, Answered, Answering, Early
  <1>15. CASE Throw \/ ThrowInStructure
    BY <1>15 DEF Throw, Searches, Advised, ThrowInStructure, Answering, Early
  <1>16. CASE Analyse
    BY <1>16 DEF Analyse, main, input, Answering
  <1>17. CASE SaysVerdict
    BY <1>17 DEF SaysVerdict, Structural, Answering
  <1>18. CASE WriteWitness
    BY <1>18 DEF WriteWitness, Quiet, OwnWriter, Answering
  <1> QED
    BY <1>1, <1>2, <1>3, <1>4, <1>5, <1>6, <1>7, <1>8, <1>9, <1>10, <1>11, <1>12,
       <1>13, <1>14, <1>15, <1>16, <1>17, <1>18 DEF Next

\* The advisor is one that writes its own witness only because of an option or of
\* a file that selected it.
LEMMA SourcedNext ==
  ASSUME InOrder, Contexts, Moves, OwnWriter => Sourced(Upto)
  PROVE  OwnWriter' => Sourced(Upto)'
  <1>1. UNCHANGED <<files, options>> /\ g \in Globals
    BY InputStays DEF input, InOrder
  <1>2. /\ Upto' \in Int /\ Upto \in Int /\ Upto <= Upto'
    BY UptoNext
  <1>3. Sourced(Upto) => Sourced(Upto)'
    <2>1. \A j \in 1 .. Upto : j \in 1 .. Upto'
      BY <1>2
    <2> QED
      BY <1>1, <2>1 DEF Sourced
  <1>4. CASE OwnWriter' => OwnWriter
    BY <1>3, <1>4
  <1>5. CASE Selects
    <2>1. /\ g' = InContext(file.context, g) /\ file.ext = "c"
          /\ current \in DOMAIN files /\ Upto' = current
      BY <1>5, SelectsOrigin DEF Selects
    <2>2. CASE file.context \in {"ECA", "DeviceDrivers"}
      <3>1. current \in 1 .. Upto'
        BY <2>1 DEF InOrder, IsSeq
      <3>2. files'[current].ext = "c" /\ files'[current].context \in {"ECA", "DeviceDrivers"}
        BY <1>1, <2>1, <2>2 DEF file
      <3> QED
        BY <3>1, <3>2 DEF Sourced
    <2>3. CASE file.context \notin {"ECA", "DeviceDrivers"}
      <3>1. /\ file.context # "Elevator" => g'.cde = g.cde
            /\ file.context = "Elevator" => g'.cde = "Elevator"
        BY <1>1, <2>1, <2>3, InContextMore
      <3>2. /\ file.context # "Elevator" => OwnAdvisor(file.context) \in {"", "absref", "naive"}
            /\ file.context = "Elevator" => OwnAdvisor(file.context) = "cde"
        BY <2>3 DEF OwnAdvisor
      <3>3. /\ OwnAdvisor(file.context) = "" => g'.advisor = g.advisor
            /\ OwnAdvisor(file.context) # "" => g'.advisor = OwnAdvisor(file.context)
        BY <1>1, <2>1, InContextFacts
      <3>4. OwnWriter' => OwnWriter
        BY <3>1, <3>2, <3>3 DEF OwnWriter
      <3> QED
        BY <1>4, <3>4
    <2> QED
      BY <2>2, <2>3
  <1>6. CASE Settles \/ Loads
    <2>1. g' = Settled(g) \/ g' = ForFile(file, g)
      BY <1>6 DEF Settles, Loads
    <2>2. g'.advisor = Settled(g).advisor /\ g'.cde = g.cde
      <3>1. CASE g' = Settled(g)
        BY <1>1, <3>1, SettledFacts
      <3>2. CASE g' = ForFile(file, g)
        BY <1>1, <3>2, ForFileFacts
      <3> QED
        BY <2>1, <3>1, <3>2
    <2> QED
      BY <1>1, <1>4, <2>2, WriterSettled DEF OwnWriter
  <1>7. CASE Splits
    <2>1. g'.advisor = g.advisor /\ g'.cde = g.cde
      BY <1>1, <1>7 DEF Splits, Globals
    <2> QED
      BY <1>4, <2>1 DEF OwnWriter
  <1>8. CASE Verifies \/ Stays \/ Analyses
    BY <1>4, <1>8 DEF Verifies, Stays, Analyses, OwnWriter
  <1> QED
    BY <1>5, <1>6, <1>7, <1>8 DEF Moves

LEMMA WitnessingNext ==
  ASSUME InOrder, Contexts, Witnessing, [Next]_vars
  PROVE  Witnessing'
  <1>1. Moves /\ Answering
    BY StepMoves, StepAnswers DEF Moves
  <1>2. UNCHANGED <<files, options>>
    BY <1>1, InputStays DEF input
  <1>3. OwnWriter' => Sourced(Upto)'
    BY <1>1, SourcedNext DEF Witnessing
  <1>4. pc' \in Early \cup {"structural"} => result' = 0
    BY <1>1 DEF Witnessing, Answering, Early
  <1>5. ASSUME UNCHANGED <<current, result, used, witness>>
        PROVE  Written' <=> Written
    BY <1>2, <1>5 DEF Written, Sourced, Says
  <1>6. ASSUME pc' = "return", result' # 0, OwnWriter'
        PROVE  Written'
    <2>1. CASE /\ pc \in Early \cup {"structural"} /\ current' = current /\ Answered
      <3>1. CASE witness' = [file |-> current, says |-> Says(result')]
        BY <2>1, <3>1 DEF Written, Says
      <3>2. CASE used' = used /\ pc \in {"verify", "context"} /\ OwnWriter
        <4>1. Sourced(current - 1)
          BY <3>2 DEF Witnessing, Upto
        <4>2. used[current] = NotAnalysed
          BY <3>2, CurrentFile DEF Early
        <4> QED
          BY <1>2, <2>1, <3>2, <4>1, <4>2 DEF Written, Sourced
      <3> QED
        BY <1>6, <2>1, <3>1, <3>2 DEF Answered
    <2>2. CASE UNCHANGED <<input, current, pc, result, g, used, witness>>
      BY <1>5, <1>6, <2>2 DEF Witnessing, OwnWriter
    <2> QED
      BY <1>1, <1>6, <2>1, <2>2 DEF Answering, Early
  <1>7. ASSUME pc' = "main", result' # 0
        PROVE  Written'
    <2>1. CASE pc \in Early \cup {"structural"} /\ result' = result
      BY <1>7, <2>1 DEF Witnessing
    <2>2. CASE /\ pc = "return" /\ UNCHANGED <<input, current, result, used>>
               /\ IF OwnWriter THEN UNCHANGED witness ELSE Writes(result)
      <3>1. CASE OwnWriter
        BY <1>5, <1>7, <2>2, <3>1 DEF Witnessing
      <3>2. CASE ~OwnWriter
        <4>1. witness' = [file |-> current, says |-> Says(result)]
          BY <1>7, <2>2, <3>2 DEF Writes
        <4> QED
          BY <2>2, <4>1 DEF Written, Says
      <3> QED
        BY <3>1, <3>2
    <2>3. CASE UNCHANGED <<input, current, pc, result, g, used, witness>>
      <3>1. Written
        BY <1>7, <2>3 DEF Witnessing, WitnessIsCurrent, Written, Sourced
      <3> QED
        BY <1>5, <2>3, <3>1
    <2> QED
      BY <1>1, <1>7, <2>1, <2>2, <2>3 DEF Answering, Early
  <1>8. WitnessIsCurrent'
    BY <1>7 DEF WitnessIsCurrent, Written, Sourced
  <1> QED
    BY <1>3, <1>4, <1>6, <1>8 DEF Witnessing

LEMMA WitnessingInit ==
  ASSUME Init
  PROVE  Witnessing
  <1>1. g = options /\ current = 0 /\ pc = "main" /\ result = 0
    BY DEF Init
  <1> QED
    BY <1>1 DEF Witnessing, WitnessIsCurrent, OwnWriter, Sourced, Early

\* A witness that main leaves behind is about the file that was judged, except
\* in the ways stated.
THEOREM WitnessBelongs == Spec => []WitnessIsCurrent
  <1>1. Settling /\ Witnessing /\ [Next]_vars => (Settling /\ Witnessing)'
    BY SettlingNext, WitnessingNext DEF Settling
  <1>2. Init => Settling /\ Witnessing
    BY SettlingInit, WitnessingInit
  <1>3. Settling /\ Witnessing => WitnessIsCurrent
    BY DEF Witnessing
  <1> QED
    BY <1>1, <1>2, <1>3, PTL DEF Spec
-----------------------------------------------------------------------------
(***************************************************************************)
(* What the recursive definitions of the structural abstraction return     *)
(***************************************************************************)
\* Flattened, sequences of sequences are sequences of the same elements.
LEMMA FlattenType ==
  ASSUME NEW T, NEW seqs \in Seq(Seq(T))
  PROVE  FlattenSeq(seqs) \in Seq(T)
<1>1. CASE Len(seqs) = 0
  <2>1. seqs = <<>>
    BY <1>1, EmptySeq
  <2> QED BY <1>1, <2>1 DEF FlattenSeq
<1>2. CASE Len(seqs) # 0
  <2> DEFINE n == Len(seqs)
             S == Seq(T)
             F == [t \in Nat \X S |-> IF t[1] \in 1 .. n THEN t[2] \o seqs[t[1]] ELSE t[2]]
             IsFlatten(f) ==
               f = [i \in 1 .. n |-> IF i = 1 THEN seqs[i] ELSE f[i - 1] \o seqs[i]]
  <2>1. n \in Nat /\ 1 \in 1 .. n /\ n \in 1 .. n /\ \A k \in 1 .. n : seqs[k] \in S
    BY <1>2, ElementOfSeq
  <2>2. F \in [Nat \X S -> S]
    <3>1. SUFFICES ASSUME NEW t \in Nat \X S PROVE F[t] \in S
      OBVIOUS
    <3>2. t[2] \in S
      BY <3>1
    <3>3. t[1] \in 1 .. n => t[2] \o seqs[t[1]] \in S
      BY <2>1, <3>2, ConcatProperties
    <3> QED BY <3>1, <3>2, <3>3
  <2>3. PICK r \in [1 .. n -> S] : RecursionOf(r, n, seqs[1], F)
    <3> HIDE DEF n, S, F
    <3> QED BY <2>1, <2>2, RecursionExists
  <2>4. ASSUME NEW k \in 1 .. n, k # 1 PROVE F[<<k, r[k - 1]>>] = r[k - 1] \o seqs[k]
    <3>1. k \in Nat /\ k - 1 \in 1 .. n
      BY <2>1, <2>4
    <3>2. <<k, r[k - 1]>> \in Nat \X S
      BY <3>1, <2>3
    <3> QED BY <3>2
  <2> HIDE DEF F, S
  <2>5. \A k \in 1 .. n : r[k] = IF k = 1 THEN seqs[k] ELSE r[k - 1] \o seqs[k]
    BY <2>3, <2>4 DEF RecursionOf
  <2>6. IsFlatten(r)
    BY <2>3, <2>5
  <2>7. FlattenSeq(seqs) = (CHOOSE f : IsFlatten(f))[n]
    BY <1>2 DEF FlattenSeq
  <2>8. PICK f : f = CHOOSE h : IsFlatten(h)
    OBVIOUS
  <2> HIDE DEF IsFlatten
  <2>9. IsFlatten(f)
    BY <2>6, <2>8, Zenon
  <2>10. \A k \in 1 .. n : f[k] = IF k = 1 THEN seqs[k] ELSE f[k - 1] \o seqs[k]
    BY <2>9 DEF IsFlatten
  <2> DEFINE P == {k \in 1 .. n : f[k] \in S}
  <2>11. 1 \in P
    BY <2>1, <2>10
  <2>12. ASSUME NEW k \in 1 .. n - 1, k \in P PROVE k + 1 \in P
    <3>1. k + 1 \in 1 .. n /\ k + 1 # 1 /\ (k + 1) - 1 = k
      BY <2>1
    <3>2. f[k + 1] = f[k] \o seqs[k + 1]
      BY <2>10, <3>1
    <3>3. f[k] \o seqs[k + 1] \in S
      BY <2>1, <2>12, <3>1, ConcatProperties DEF S
    <3> QED BY <3>1, <3>2, <3>3
  <2>13. n \in P
    <3> HIDE DEF P, n
    <3> QED BY <2>1, <2>11, <2>12, IntervalInduction
  <2> QED BY <2>7, <2>8, <2>13 DEF S
<1> QED BY <1>1, <1>2

Calling == [caller : Function, conds : Seq(Fact)]

\* One round of visitFunction over r, which gives the names for the callers
Round(r) ==
  [h \in Function |->
     <<h>> \o FlattenSeq([i \in DOMAIN Uses[h] |-> r[Uses[h][i].caller]])]

LEMMA UsesType ==
  ASSUME NEW h \in Function
  PROVE  /\ Uses[h] \in Seq(Calling) /\ DOMAIN Uses[h] = 1 .. Len(Uses[h])
         /\ Len(Uses[h]) \in Nat
         /\ \A i \in DOMAIN Uses[h] : Uses[h][i].caller \in Function
<1>1. Uses[h] \in Seq(Calling)
  BY StructuralAssumption DEF Calling
<1>2. DOMAIN Uses[h] = 1 .. Len(Uses[h]) /\ Len(Uses[h]) \in Nat
  BY <1>1, LenProperties
<1>3. \A i \in DOMAIN Uses[h] : Uses[h][i] \in Calling
  BY <1>1, <1>2, ElementOfSeq
<1> QED BY <1>1, <1>2, <1>3 DEF Calling

LEMMA RoundType ==
  ASSUME NEW h \in Function, NEW r,
         \A i \in DOMAIN Uses[h] : r[Uses[h][i].caller] \in Seq(Function)
  PROVE  <<h>> \o FlattenSeq([i \in DOMAIN Uses[h] |-> r[Uses[h][i].caller]])
           \in Seq(Function)
<1> DEFINE c == [i \in DOMAIN Uses[h] |-> r[Uses[h][i].caller]]
<1>1. c \in Seq(Seq(Function))
  <2>1. c \in [1 .. Len(Uses[h]) -> Seq(Function)]
    BY UsesType
  <2> HIDE DEF c
  <2> QED BY <2>1, UsesType, SeqDef
<1> HIDE DEF c
<1>2. FlattenSeq(c) \in Seq(Function)
  BY <1>1, FlattenType
<1>3. <<h>> \in Seq(Function)
  OBVIOUS
<1>4. <<h>> \o FlattenSeq(c) \in Seq(Function)
  BY <1>2, <1>3, ConcatProperties
<1> QED BY <1>4 DEF c
\* The names visitFunction finds from a function are names of functions: the
\* callers of a function are found in fewer rounds than the function.
LEMMA NamesType ==
  ASSUME NEW f \in Function PROVE Names(f) \in Seq(Function)
<1>1. PICK depth \in [Function -> 0 .. Cardinality(Function)] :
        \A h \in Function : \A i \in DOMAIN Uses[h] : depth[Uses[h][i].caller] < depth[h]
  BY StructuralAssumption
<1>2. PICK c : c = Cardinality(Function)
  OBVIOUS
<1>3. c \in Nat /\ depth \in [Function -> 0 .. c]
  BY <1>1, <1>2, StructuralAssumption, FS_CardinalityType
<1> DEFINE S == [Function -> Seq(Function)]
           F == [t \in Nat \X S |-> Round(t[2])]
           b == [h \in Function |-> <<>>]
<1>4. b \in S
  OBVIOUS
<1>5. ASSUME NEW r \in S PROVE Round(r) \in S
  BY RoundType, UsesType DEF Round
<1>6. F \in [Nat \X S -> S]
  <2> HIDE DEF S
  <2> QED BY <1>5
<1>7. PICK a \in [1 .. c + 3 -> S] : RecursionOf(a, c + 3, b, F)
  <2>1. c + 3 \in Nat
    BY <1>3
  <2> HIDE DEF S, F, b
  <2> QED BY <1>4, <1>6, <2>1, RecursionExists
<1>8. ASSUME NEW k \in 1 .. c + 2 PROVE a[k] \in S /\ a[k + 1] = Round(a[k])
  <2>1. k \in 1 .. c + 3 /\ k + 1 \in 1 .. c + 3 /\ k + 1 # 1 /\ (k + 1) - 1 = k
    BY <1>3
  <2>2. a[k + 1] = F[<<k + 1, a[k]>>]
    <3> HIDE DEF F
    <3> QED BY <1>7, <2>1 DEF RecursionOf
  <2>3. a[k] \in S /\ k + 1 \in Nat
    BY <1>7, <2>1
  <2> HIDE DEF S
  <2> QED BY <2>2, <2>3
<1> HIDE DEF S, F, b
<1>9. \A h \in Function : a[c + 3][h] = a[c + 2][h]
  <2> DEFINE P == {k \in 1 .. c + 2 :
                     \A h \in Function : depth[h] < k - 1 => a[k + 1][h] = a[k][h]}
  <2>1. 1 \in P
    <3>1. \A h \in Function : ~(depth[h] < 1 - 1)
      BY <1>3
    <3> QED BY <1>3, <3>1
  <2>2. ASSUME NEW k \in 1 .. (c + 2) - 1, k \in P PROVE k + 1 \in P
    <3>1. SUFFICES ASSUME NEW h \in Function, depth[h] < (k + 1) - 1
                   PROVE  a[(k + 1) + 1][h] = a[k + 1][h]
      BY <1>3
    <3>2. k \in 1 .. c + 2 /\ k + 1 \in 1 .. c + 2 /\ depth[h] \in Nat
      BY <1>3
    <3>3. ASSUME NEW i \in DOMAIN Uses[h]
          PROVE  a[k + 1][Uses[h][i].caller] = a[k][Uses[h][i].caller]
      <4>1. Uses[h][i].caller \in Function
        BY UsesType
      <4>2. depth[Uses[h][i].caller] < k - 1
        <5>1. depth[Uses[h][i].caller] \in Nat /\ depth[Uses[h][i].caller] < depth[h]
          BY <1>1, <1>3, <4>1
        <5> QED BY <3>1, <3>2, <5>1
      <4> QED BY <2>2, <4>1, <4>2
    <3>4. [i \in DOMAIN Uses[h] |-> a[k + 1][Uses[h][i].caller]]
            = [i \in DOMAIN Uses[h] |-> a[k][Uses[h][i].caller]]
      BY <3>3
    <3>5. a[(k + 1) + 1] = Round(a[k + 1]) /\ a[k + 1] = Round(a[k])
      BY <1>8, <3>2
    <3>6. /\ Round(a[k + 1])[h] =
               <<h>> \o FlattenSeq([i \in DOMAIN Uses[h] |-> a[k + 1][Uses[h][i].caller]])
          /\ Round(a[k])[h] =
               <<h>> \o FlattenSeq([i \in DOMAIN Uses[h] |-> a[k][Uses[h][i].caller]])
      BY DEF Round
    <3> QED BY <3>4, <3>5, <3>6
  <2>3. c + 2 \in P
    <3>1. 1 \in Nat /\ c + 2 \in Nat /\ c + 2 \in 1 .. c + 2
      BY <1>3
    <3> HIDE DEF P
    <3> QED BY <2>1, <2>2, <3>1, IntervalInduction
  <2>4. ASSUME NEW h \in Function PROVE depth[h] < (c + 2) - 1
    BY <1>3
  <2>5. (c + 2) + 1 = c + 3
    BY <1>3
  <2> QED BY <2>3, <2>4, <2>5
<1> DEFINE IsNames(r) ==
      r = [h \in Function |->
             <<h>> \o FlattenSeq([i \in DOMAIN Uses[h] |-> r[Uses[h][i].caller]])]
<1>10. IsNames(a[c + 2])
  <2>1. a[c + 2] \in S /\ a[c + 3] \in S /\ a[c + 3] = Round(a[c + 2])
    <3>1. c + 2 \in 1 .. c + 2 /\ (c + 2) + 1 = c + 3 /\ c + 3 \in 1 .. c + 3
      BY <1>3
    <3> QED BY <1>7, <1>8, <3>1
  <2>2. a[c + 3] = a[c + 2]
    BY <1>9, <2>1 DEF S
  <2> QED BY <2>1, <2>2 DEF Round
<1>11. Names(f) = (CHOOSE r : IsNames(r))[f]
  BY DEF Names
<1>12. PICK names : names = CHOOSE r : IsNames(r)
  OBVIOUS
<1> HIDE DEF IsNames
<1>13. IsNames(names)
  BY <1>10, <1>12, Zenon
<1>14. \A h \in Function :
         names[h] = <<h>> \o FlattenSeq([i \in DOMAIN Uses[h] |-> names[Uses[h][i].caller]])
  BY <1>13 DEF IsNames
<1>15. \A h \in Function : names[h] \in Seq(Function)
  <2> DEFINE P == {k \in 0 .. c + 1 :
                     \A h \in Function : depth[h] < k => names[h] \in Seq(Function)}
  <2>1. 0 \in P
    <3>1. \A h \in Function : ~(depth[h] < 0)
      BY <1>3
    <3> QED BY <1>3, <3>1
  <2>2. ASSUME NEW k \in 0 .. (c + 1) - 1, k \in P PROVE k + 1 \in P
    <3>1. SUFFICES ASSUME NEW h \in Function, depth[h] < k + 1
                   PROVE  names[h] \in Seq(Function)
      BY <1>3
    <3>2. ASSUME NEW i \in DOMAIN Uses[h] PROVE names[Uses[h][i].caller] \in Seq(Function)
      <4>1. Uses[h][i].caller \in Function
        BY UsesType
      <4>2. depth[Uses[h][i].caller] < k
        <5>1. depth[Uses[h][i].caller] \in Nat /\ depth[Uses[h][i].caller] < depth[h]
              /\ depth[h] \in Nat
          BY <1>1, <1>3, <4>1
        <5> QED BY <3>1, <5>1
      <4> QED BY <2>2, <4>1, <4>2
    <3>3. <<h>> \o FlattenSeq([i \in DOMAIN Uses[h] |-> names[Uses[h][i].caller]])
            \in Seq(Function)
      BY <3>2, RoundType, Zenon
    <3> QED BY <1>14, <3>3
  <2>3. c + 1 \in P
    <3>1. 0 \in Nat /\ c + 1 \in Nat /\ c + 1 \in 0 .. c + 1
      BY <1>3
    <3> HIDE DEF P
    <3> QED BY <2>1, <2>2, <3>1, IntervalInduction
  <2>4. ASSUME NEW h \in Function PROVE depth[h] < c + 1
    BY <1>3
  <2> QED BY <2>3, <2>4
<1> QED BY <1>11, <1>12, <1>15

\* The calls visitFunction leads to are calls.
LEMMA TracesType == Traces \in Seq(Calling)
<1> DEFINE n == Names(Error)
           c == [i \in DOMAIN n |-> Uses[n[i]]]
<1>1. n \in Seq(Function)
  BY NamesType, StructuralAssumption
<1>2. DOMAIN n = 1 .. Len(n) /\ Len(n) \in Nat /\ \A i \in DOMAIN n : n[i] \in Function
  BY <1>1, LenProperties, ElementOfSeq
<1>3. c \in Seq(Seq(Calling))
  <2> HIDE DEF n
  <2>1. c \in [1 .. Len(n) -> Seq(Calling)]
    BY <1>2, UsesType
  <2> HIDE DEF c
  <2> QED BY <1>2, <2>1, SeqDef
<1>4. Traces = FlattenSeq(c)
  BY DEF Traces
<1> HIDE DEF c, n
<1> QED BY <1>3, <1>4, FlattenType
-----------------------------------------------------------------------------
(***************************************************************************)
(* Types. The inductive invariant says of the nodes of every call and of   *)
(* the conditions that they are nodes of the MSG, of its operands that     *)
(* they come before the node, and that there is a node when a declaration  *)
(* is combined with the last one.                                          *)
(***************************************************************************)
Nodes(n) == [fact : Fact, kids : SUBSET (1 .. n)]

\* The nodes with these numbers can have operands with smaller ones only.
OperandsBefore(m) == \A k \in 1 .. Len(m) : m[k].kids \subseteq 1 .. k - 1

Shaped ==
  /\ msg \in Seq([fact : Fact, kids : SUBSET Nat]) /\ OperandsBefore(msg)
  /\ parts \in Seq(Seq(1 .. Len(msg)))
  /\ vcs \in Seq(1 .. Len(msg))
  /\ at \in {"declare", "solve", "report", "exit"} => Len(msg) > 0
  /\ declared \in 0 .. Len(Declared)
  /\ IsSeq(vcFormulas) /\ Len(vcFormulas) <= Len(vcs)
  /\ at = "solve" => iter \in 1 .. Len(vcFormulas)
  /\ at \in {"idle", "search", "declare", "solve", "report", "exit"}
  /\ verificationResult \in Results

LEMMA FunctionIsSeq ==
  ASSUME NEW S, NEW l \in Nat, NEW f \in [1 .. l -> S] PROVE f \in Seq(S)
BY SeqDef

LEMMA SeqOfMore ==
  ASSUME NEW A, NEW B, A \subseteq B, NEW s \in Seq(A) PROVE s \in Seq(B)
OBVIOUS

LEMMA SeqWidens ==
  ASSUME NEW m \in Nat, NEW n \in Nat, m <= n
  PROVE  /\ Seq(1 .. m) \subseteq Seq(1 .. n)
         /\ Seq(Seq(1 .. m)) \subseteq Seq(Seq(1 .. n))
<1>1. ASSUME NEW A, NEW B, A \subseteq B PROVE Seq(A) \subseteq Seq(B)
  BY <1>1
<1>2. 1 .. m \subseteq 1 .. n
  OBVIOUS
<1>3. Seq(1 .. m) \subseteq Seq(1 .. n)
  BY <1>1, <1>2, Zenon
<1> QED BY <1>1, <1>3, Zenon

\* Combining the nodes of calls makes AND nodes over these nodes.
LEMMA CombinedType ==
  ASSUME NEW n \in Nat, NEW calls \in Seq(Seq(1 .. n))
  PROVE  Combined(calls) \in Seq(Nodes(n))
<1> DEFINE row(c) == [j \in 1 .. Len(calls[c]) - 1 |-> Node(And, {calls[c][j], calls[c][j + 1]})]
           t == [c \in DOMAIN calls |-> row(c)]
<1>1. DOMAIN calls = 1 .. Len(calls) /\ Len(calls) \in Nat
      /\ \A c \in DOMAIN calls : calls[c] \in Seq(1 .. n)
  BY LenProperties, ElementOfSeq
<1>2. ASSUME NEW c \in DOMAIN calls PROVE row(c) \in Seq(Nodes(n))
  <2>1. PICK q \in Seq(1 .. n) : q = calls[c]
    BY <1>1
  <2>2. Len(q) \in Nat /\ \A j \in 1 .. Len(q) : q[j] \in 1 .. n
    BY <2>1, LenProperties, ElementOfSeq
  <2>3. ASSUME NEW j \in 1 .. Len(q) - 1
        PROVE  Node(And, {q[j], q[j + 1]}) \in Nodes(n)
    <3>1. q[j] \in 1 .. n /\ q[j + 1] \in 1 .. n
      BY <2>2
    <3> QED BY <3>1, StructuralAssumption DEF Node, Nodes
  <2>4. PICK l : l = IF Len(q) = 0 THEN 0 ELSE Len(q) - 1
    OBVIOUS
  <2>5. l \in Nat /\ 1 .. Len(q) - 1 = 1 .. l
    BY <2>2, <2>4
  <2>6. PICK r : r = row(c)
    OBVIOUS
  <2>7. r \in [1 .. l -> Nodes(n)]
    BY <2>1, <2>3, <2>5, <2>6
  <2> HIDE DEF row
  <2>8. r \in Seq(Nodes(n))
    BY <2>5, <2>7, FunctionIsSeq
  <2> QED BY <2>6, <2>8
<1> HIDE DEF row
<1>3. t \in Seq(Seq(Nodes(n)))
  <2>1. t \in [1 .. Len(calls) -> Seq(Nodes(n))]
    BY <1>1, <1>2
  <2> HIDE DEF t
  <2> QED BY <1>1, <2>1, FunctionIsSeq
<1>4. Combined(calls) = FlattenSeq(t)
  BY DEF Combined, row
<1> HIDE DEF t
<1> QED BY <1>3, <1>4, FlattenType

\* Nodes appended over nodes that were there keep the operands before.
LEMMA AppendNodes ==
  ASSUME NEW m \in Seq([fact : Fact, kids : SUBSET Nat]), OperandsBefore(m),
         NEW x \in Seq(Nodes(Len(m)))
  PROVE  /\ m \o x \in Seq([fact : Fact, kids : SUBSET Nat])
         /\ OperandsBefore(m \o x) /\ Len(m \o x) = Len(m) + Len(x)
<1>1. Len(m) \in Nat /\ Len(x) \in Nat /\ \A j \in 1 .. Len(x) : x[j] \in Nodes(Len(m))
  BY LenProperties, ElementOfSeq
<1>2. x \in Seq([fact : Fact, kids : SUBSET Nat])
  <2>1. Nodes(Len(m)) \subseteq [fact : Fact, kids : SUBSET Nat]
    BY <1>1 DEF Nodes
  <2> QED BY <2>1, SeqOfMore
<1>3. /\ m \o x \in Seq([fact : Fact, kids : SUBSET Nat])
      /\ Len(m \o x) = Len(m) + Len(x)
      /\ \A k \in 1 .. Len(m) + Len(x) :
           (m \o x)[k] = IF k <= Len(m) THEN m[k] ELSE x[k - Len(m)]
  BY <1>2, ConcatProperties
<1>4. ASSUME NEW k \in 1 .. Len(m \o x) PROVE (m \o x)[k].kids \subseteq 1 .. k - 1
  <2>1. CASE k <= Len(m)
    <3>1. k \in 1 .. Len(m) /\ (m \o x)[k] = m[k]
      BY <1>1, <1>3, <2>1
    <3> QED BY <3>1 DEF OperandsBefore
  <2>2. CASE ~(k <= Len(m))
    <3>1. k - Len(m) \in 1 .. Len(x) /\ (m \o x)[k] = x[k - Len(m)]
      BY <1>1, <1>3, <2>2
    <3>2. x[k - Len(m)].kids \subseteq 1 .. Len(m)
      BY <1>1, <3>1 DEF Nodes
    <3>3. 1 .. Len(m) \subseteq 1 .. k - 1
      BY <1>1, <1>3, <2>2
    <3> QED BY <3>1, <3>2, <3>3
  <2> QED BY <2>1, <2>2
<1> QED BY <1>3, <1>4 DEF OperandsBefore
Blank ==
  /\ msg = <<>> /\ parts = <<>> /\ vcs = <<>> /\ declared = 0 /\ vcFormulas = <<>>
  /\ at \in {"idle", "search"} /\ verificationResult = "UNKNOWN"

LEMMA BlankShaped == Blank => Shaped
<1> SUFFICES ASSUME Blank PROVE Shaped
  OBVIOUS
<1>1. \A S : <<>> \in Seq(S)
  BY EmptySeq
<1>2. Len(<<>>) = 0 /\ Len(Declared) \in Nat
  BY StructuralAssumption, LenProperties
<1>3. OperandsBefore(<<>>)
  BY <1>2 DEF OperandsBefore
<1>4. IsSeq(<<>>)
  BY <1>1 DEF IsSeq
<1>5. \A S : msg \in Seq(S) /\ parts \in Seq(S) /\ vcs \in Seq(S)
  BY <1>1 DEF Blank
<1> QED BY <1>2, <1>3, <1>4, <1>5 DEF Blank, Shaped, Results

LEMMA ShapedInit == Init => Shaped
<1> SUFFICES ASSUME Init PROVE Shaped
  OBVIOUS
<1>1. Blank
  BY DEF Init, Fresh, Blank
<1> QED BY <1>1, BlankShaped

\* The steps, by what they do to the structural abstraction
LEMMA StepStructural ==
  ASSUME [Next]_vars
  PROVE  \/ UNCHANGED structural \/ Start \/ FoundStmtTrace \/ FoundVariableDeclaration
         \/ Declarations \/ Proved \/ Undecided \/ Refuted \/ Reported \/ Searched
         \/ UNCHANGED <<vcvars, loopvars>> /\ at' = "idle"
<1>1. CASE AbstractStructure
  BY <1>1 DEF AbstractStructure
<1>2. CASE Analyse
  BY <1>2 DEF Analyse, Structural
<1>3. CASE SaysVerdict \/ LeaveStructure
  BY <1>3 DEF SaysVerdict, LeaveStructure, Structural
<1>4. CASE ThrowInStructure
  BY <1>4 DEF ThrowInStructure
<1>5. Quiet \/ Verify \/ Ended \/ UNCHANGED vars => UNCHANGED structural
  BY DEF Quiet, Verify, Ended, vars
<1>6. \/ Verify \/ Ended \/ AbstractStructure \/ Analyse \/ SaysVerdict
      \/ LeaveStructure \/ ThrowInStructure \/ Quiet \/ UNCHANGED vars
  BY DEF Next, LeaveMain, Missing, GiveUp, CheckOverflow, Unsupported, Load,
     SelectAdvisor, Recognise, LdvMalloc, Run, Float, FloatSkipped, RunECA,
     RunElevator, NoIR, Unsuitable, Decide, Throw, WriteWitness, TimerFires
<1> QED BY <1>1, <1>2, <1>3, <1>4, <1>5, <1>6

\* A call that is found adds its conditions, and in main the AND nodes.
LEMMA FoundStmtShaped ==
  ASSUME Shaped, FoundStmtTrace PROVE Shaped'
<1>1. PICK call : call = Traces[Len(parts) + 1]
  OBVIOUS
<1>2. /\ Len(msg) \in Nat /\ Len(parts) \in Nat /\ Len(Traces) \in Nat
      /\ Len(parts) < Len(Traces)
  BY TracesType, LenProperties DEF Shaped, FoundStmtTrace
<1>3. call \in Calling
  <2>1. Len(parts) + 1 \in 1 .. Len(Traces)
    BY <1>2
  <2> QED BY <1>1, <2>1, TracesType, ElementOfSeq
<1>4. PICK n : n = Len(call.conds) /\ n \in Nat
  BY <1>3 DEF Calling
<1>5. \A i \in 1 .. n : call.conds[i] \in Fact
  BY <1>3, <1>4, ElementOfSeq DEF Calling
<1>6. PICK conds : conds = [i \in 1 .. n |-> Node(call.conds[i], {})]
  OBVIOUS
<1>7. PICK l : l = [i \in 1 .. n |-> Len(msg) + i]
  OBVIOUS
<1>8. PICK calls : calls = Append(parts, l)
  OBVIOUS
<1>9. PICK ands : ands = IF call.caller = Main THEN Combined(calls) ELSE <<>>
  OBVIOUS
<1>10. /\ parts' = calls /\ msg' = msg \o conds \o ands /\ declared' = 0
       /\ at' = IF call.caller = Main /\ msg' # <<>> THEN "declare" ELSE "search"
       /\ UNCHANGED <<vcs, loopvars>>
  BY <1>1, <1>4, <1>6, <1>7, <1>8, <1>9 DEF FoundStmtTrace
<1>11. conds \in Seq(Nodes(Len(msg))) /\ Len(conds) = n
  <2>1. \A i \in 1 .. n : Node(call.conds[i], {}) \in Nodes(Len(msg))
    BY <1>5 DEF Node, Nodes
  <2>2. conds \in [1 .. n -> Nodes(Len(msg))]
    BY <1>6, <2>1
  <2> QED BY <1>4, <2>2, FunctionIsSeq, LenProperties
<1>12. PICK m : m = msg \o conds
  OBVIOUS
<1>13. /\ m \in Seq([fact : Fact, kids : SUBSET Nat]) /\ OperandsBefore(m)
       /\ Len(m) = Len(msg) + n
  BY <1>11, <1>12, AppendNodes DEF Shaped
<1>14. calls \in Seq(Seq(1 .. Len(m)))
  <2>1. parts \in Seq(Seq(1 .. Len(m)))
    <3>1. Seq(Seq(1 .. Len(msg))) \subseteq Seq(Seq(1 .. Len(m)))
      BY <1>2, <1>4, <1>13, SeqWidens
    <3> QED BY <3>1 DEF Shaped
  <2>2. l \in Seq(1 .. Len(m))
    <3>1. l \in [1 .. n -> 1 .. Len(m)]
      BY <1>2, <1>4, <1>7, <1>13
    <3> QED BY <1>4, <3>1, FunctionIsSeq
  <2> QED BY <1>8, <2>1, <2>2, AppendProperties
<1>15. Len(m) \in Nat
  BY <1>2, <1>4, <1>13
<1>16. ands \in Seq(Nodes(Len(m)))
  <2>1. Combined(calls) \in Seq(Nodes(Len(m)))
    BY <1>14, <1>15, CombinedType
  <2>2. <<>> \in Seq(Nodes(Len(m)))
    BY EmptySeq
  <2> QED BY <1>9, <2>1, <2>2
<1>17. /\ msg' \in Seq([fact : Fact, kids : SUBSET Nat]) /\ OperandsBefore(msg')
       /\ Len(msg') = Len(m) + Len(ands) /\ Len(ands) \in Nat
  BY <1>10, <1>12, <1>13, <1>16, AppendNodes, LenProperties
<1>18. Len(m) <= Len(msg') /\ Len(msg) <= Len(msg') /\ Len(msg') \in Nat
  BY <1>2, <1>4, <1>13, <1>15, <1>17
<1>19. parts' \in Seq(Seq(1 .. Len(msg')))
  <2>1. Seq(Seq(1 .. Len(m))) \subseteq Seq(Seq(1 .. Len(msg')))
    BY <1>15, <1>18, SeqWidens
  <2> QED BY <1>10, <1>14, <2>1
<1>20. vcs' \in Seq(1 .. Len(msg'))
  <2>1. Seq(1 .. Len(msg)) \subseteq Seq(1 .. Len(msg'))
    BY <1>2, <1>18, SeqWidens
  <2> QED BY <1>10, <2>1 DEF Shaped
<1>21. at' \in {"declare", "search"} /\ (at' = "declare" => Len(msg') > 0)
  <2>1. msg' # <<>> => Len(msg') > 0
    BY <1>17, EmptySeq
  <2> QED BY <1>10, <2>1
<1>22. declared' \in 0 .. Len(Declared)
  BY <1>10, StructuralAssumption, LenProperties
<1> QED BY <1>10, <1>17, <1>19, <1>20, <1>21, <1>22 DEF Shaped, loopvars, IsSeq

\* A declaration adds its initial value and the condition over the last node.
LEMMA FoundVariableShaped ==
  ASSUME Shaped, FoundVariableDeclaration PROVE Shaped'
<1>1. /\ at = "declare" /\ declared < Len(Declared) /\ declared' = declared + 1
      /\ msg' = msg \o <<Node(Declared[declared'], {}), Node(And, {Len(msg) + 1, Len(msg)})>>
      /\ vcs' = Append(vcs, Len(msg) + 2) /\ vcFormulas' = MSG2smt(msg', vcs')
      /\ iter' = 1 /\ at' = "solve" /\ UNCHANGED <<parts, verificationResult>>
  BY DEF FoundVariableDeclaration
<1>2. Len(msg) \in Nat /\ Len(msg) > 0 /\ Len(Declared) \in Nat /\ declared' \in 1 .. Len(Declared)
  BY <1>1, StructuralAssumption, LenProperties DEF Shaped
<1>3. PICK x, y : x = Node(Declared[declared'], {}) /\ y = Node(And, {Len(msg) + 1, Len(msg)})
  OBVIOUS
<1>4. x \in Nodes(Len(msg)) /\ y \in Nodes(Len(msg) + 1)
  <2>1. Declared[declared'] \in Fact
    BY <1>2, StructuralAssumption, ElementOfSeq
  <2>2. {Len(msg) + 1, Len(msg)} \subseteq 1 .. Len(msg) + 1
    BY <1>2
  <2> QED BY <1>3, <2>1, <2>2, StructuralAssumption DEF Node, Nodes
<1>5. PICK m : m = msg \o <<x>>
  OBVIOUS
<1>6. /\ m \in Seq([fact : Fact, kids : SUBSET Nat]) /\ OperandsBefore(m)
      /\ Len(m) = Len(msg) + 1
  <2>1. <<x>> \in Seq(Nodes(Len(msg))) /\ Len(<<x>>) = 1
    BY <1>4
  <2> QED BY <1>5, <2>1, AppendNodes DEF Shaped
<1>7. msg' = m \o <<y>>
  <2>1. x \in [fact : Fact, kids : SUBSET Nat] /\ y \in [fact : Fact, kids : SUBSET Nat]
    BY <1>2, <1>4 DEF Nodes
  <2>2. <<x, y>> = <<x>> \o <<y>>
    <3>1. PICK S : x \in S /\ y \in S
      BY <2>1
    <3>2. <<x>> \in Seq(S) /\ <<x, y>> \in Seq(S) /\ Len(<<x>>) = 1 /\ Len(<<x, y>>) = 2
      BY <3>1
    <3>3. PICK q : q = Append(<<x>>, y)
      OBVIOUS
    <3>4. q \in Seq(S) /\ Len(q) = 2 /\ q[1] = x /\ q[2] = y
      BY <3>1, <3>2, <3>3, AppendProperties
    <3>5. q = <<x, y>>
      BY <3>2, <3>4, SeqEqual
    <3> QED BY <3>1, <3>2, <3>3, <3>5, AppendIsConcat
  <2>3. msg \o (<<x>> \o <<y>>) = (msg \o <<x>>) \o <<y>>
    <3>1. <<x>> \in Seq([fact : Fact, kids : SUBSET Nat]) /\ <<y>> \in Seq([fact : Fact, kids : SUBSET Nat])
      BY <2>1
    <3> QED BY <3>1, ConcatAssociative DEF Shaped
  <2> QED BY <1>1, <1>3, <1>5, <2>2, <2>3
<1>8. /\ msg' \in Seq([fact : Fact, kids : SUBSET Nat]) /\ OperandsBefore(msg')
      /\ Len(msg') = Len(msg) + 2
  <2>1. <<y>> \in Seq(Nodes(Len(m))) /\ Len(<<y>>) = 1
    BY <1>4, <1>6
  <2>2. /\ m \o <<y>> \in Seq([fact : Fact, kids : SUBSET Nat]) /\ OperandsBefore(m \o <<y>>)
        /\ Len(m \o <<y>>) = Len(m) + 1
    BY <1>6, <2>1, AppendNodes
  <2> QED BY <1>2, <1>6, <1>7, <2>2
<1>9. parts' \in Seq(Seq(1 .. Len(msg')))
  <2>1. Seq(Seq(1 .. Len(msg))) \subseteq Seq(Seq(1 .. Len(msg')))
    BY <1>2, <1>8, SeqWidens
  <2> QED BY <1>1, <2>1 DEF Shaped
<1>10. vcs' \in Seq(1 .. Len(msg')) /\ Len(vcs') \in Nat \ {0}
  <2>1. Seq(1 .. Len(msg)) \subseteq Seq(1 .. Len(msg'))
    BY <1>2, <1>8, SeqWidens
  <2>2. vcs \in Seq(1 .. Len(msg')) /\ Len(msg) + 2 \in 1 .. Len(msg')
    BY <1>2, <1>8, <2>1 DEF Shaped
  <2>3. Len(vcs) \in Nat
    BY <2>2, LenProperties
  <2> QED BY <1>1, <2>2, <2>3, AppendProperties
<1>11. IsSeq(vcFormulas') /\ Len(vcFormulas') = Len(vcs')
  BY <1>1, <1>10, FormulasArePart DEF IsSeq
<1>12. 1 \in 1 .. Len(vcFormulas')
  BY <1>10, <1>11
<1>13. Len(vcFormulas') <= Len(vcs') /\ declared' \in 0 .. Len(Declared) /\ Len(msg') > 0
  BY <1>2, <1>8, <1>10, <1>11
<1>14. verificationResult' \in Results
  BY <1>1 DEF Shaped
<1> QED BY <1>1, <1>8, <1>9, <1>10, <1>11, <1>12, <1>13, <1>14 DEF Shaped, IsSeq

LEMMA ShapedNext ==
  ASSUME Shaped, [Next]_vars PROVE Shaped'
<1>1. CASE UNCHANGED <<vcvars, loopvars>> /\ at' \in {at, "idle", "search"}
  BY <1>1 DEF Shaped, vcvars, loopvars, IsSeq
<1>2. CASE Start
  <2>1. Blank'
    BY <1>2 DEF Start, Blank
  <2>2. Blank' => Shaped'
    BY BlankShaped, PTL
  <2> QED BY <2>1, <2>2
<1>3. CASE Proved \/ Undecided
  <2>1. /\ Advance /\ at = "solve" /\ UNCHANGED <<vcvars, vcFormulas>>
        /\ verificationResult' \in Results
    BY <1>3 DEF Proved, Undecided, Results
  <2>2. iter \in 1 .. Len(vcFormulas) /\ Len(vcFormulas) \in Nat
    BY <2>1 DEF Shaped, IsSeq
  <2>3. /\ iter' = iter + 1 /\ at' \in {"report", "solve"}
        /\ at' = "solve" => iter # Len(vcFormulas)
    BY <2>1 DEF Advance
  <2>4. at' = "solve" => iter' \in 1 .. Len(vcFormulas)
    BY <2>2, <2>3
  <2> QED BY <2>1, <2>3, <2>4 DEF Shaped, vcvars, IsSeq
<1>4. CASE Refuted
  BY <1>4 DEF Refuted, Shaped, vcvars, IsSeq, Results
<1>5. CASE Reported
  BY <1>5 DEF Reported, Shaped, vcvars, loopvars, IsSeq
<1>6. CASE Declarations \/ Searched
  BY <1>1, <1>6 DEF Declarations, Searched
<1>7. CASE UNCHANGED structural
  BY <1>1, <1>7 DEF structural
<1> QED BY <1>1, <1>2, <1>3, <1>4, <1>5, <1>6, <1>7, StepStructural,
           FoundStmtShaped, FoundVariableShaped
-----------------------------------------------------------------------------
\* What is typed of main and verify, with the globals as Settling has them
Places == {"main", "verify", "context", "analyse", "structural", "return", "ended"}

MainTyped ==
  /\ pc \in Places
  /\ pc \notin {"main", "ended"} => current > 0
  /\ pc = "structural" => g.advisor # ""
  /\ result \in {-11, -1, 0, 1} /\ timer \in BOOLEAN
  /\ witness.file \in 0 .. current
  /\ at = "idle" \/ pc \in {"structural", "ended"}

\* The steps: main takes the next file, or what is typed stays with its file.
NewFile ==
  /\ pc' = "verify" /\ current' = current + 1
  /\ at = "idle" \/ pc \notin {"structural", "ended"}
  /\ result' = 0 /\ UNCHANGED <<timer, witness, at>>

SameFile ==
  /\ current' = current
  /\ \/ pc' \in {"main", "ended"}
     \/ pc \notin {"main", "ended"} /\ pc' \in Places \cup {pc}
  /\ result' \in {result, -11, -1, 0, 1} /\ timer' \in {timer, TRUE}
  /\ witness' = witness \/ witness'.file = current
  /\ pc' = "structural" => \/ pc = "structural" /\ g' = g
                           \/ g'.advisor = "structural"
  /\ \/ at' = "idle" \/ pc' \in {"structural", "ended"}
     \/ at' = at /\ pc \notin {"structural", "ended"}

LEMMA StepTyped ==
  ASSUME [Next]_vars, g \in Globals
  PROVE  NewFile \/ SameFile
<1>1. CASE UNCHANGED vars
  BY <1>1 DEF vars, main, structural, SameFile
<1>2. CASE Verify
  BY <1>2 DEF Verify, structural, NewFile
<1>3. CASE LeaveMain
  BY <1>3 DEF LeaveMain, Quiet, SameFile
<1>4. CASE Missing \/ GiveUp \/ CheckOverflow \/ Unsupported \/ Load
  <2>1. pc = "verify" /\ UNCHANGED <<current, timer, witness, at>>
    BY <1>4 DEF Missing, GiveUp, CheckOverflow, Unsupported, Load, Proceeds, Opened,
                Quiet, structural
  <2>2. pc' \in {"return", "ended", "context", "analyse"}
        /\ result' \in {result, -11, -1, 0, 1}
    BY <1>4 DEF Missing, GiveUp, CheckOverflow, Unsupported, Load, Judge, Return, Exit
  <2> QED BY <2>1, <2>2 DEF SameFile, Places
<1>5. CASE SelectAdvisor \/ Recognise \/ LdvMalloc \/ Run \/ Float \/ FloatSkipped
  <2>1. /\ pc = "context" /\ UNCHANGED <<current, witness, at>> /\ timer' \in {timer, TRUE}
    BY <1>5 DEF SelectAdvisor, Recognise, LdvMalloc, Run, Float, FloatSkipped, Context,
                Quiet, structural
  <2>2. pc' \in {"return", "ended", "analyse"} /\ result' \in {result, -11, -1, 0, 1}
    BY <1>5 DEF SelectAdvisor, Recognise, LdvMalloc, Run, Float, FloatSkipped, Judge,
                Return, Exit
  <2> QED BY <2>1, <2>2 DEF SameFile, Places
<1>6. CASE RunECA \/ RunElevator \/ NoIR \/ Unsuitable \/ Decide \/ Throw
  <2>1. pc = "analyse" /\ UNCHANGED <<current, timer, at>>
    BY <1>6 DEF RunECA, RunElevator, NoIR, Unsuitable, Decide, Throw, With, Advised,
                Searches, Quiet, structural
  <2>2. pc' \in {"return", "ended", "main"} /\ result' \in {result, -11, -1, 0, 1}
    BY <1>6 DEF RunECA, RunElevator, NoIR, Unsuitable, Decide, Throw, Judge, Return, Exit
  <2>3. witness' = witness \/ witness'.file = current
    BY <1>6 DEF RunECA, RunElevator, NoIR, Unsuitable, Decide, Throw, Writes
  <2> QED BY <2>1, <2>2, <2>3 DEF SameFile, Places
<1>7. CASE AbstractStructure
  <2>1. g'.advisor = "structural"
    BY <1>7 DEF AbstractStructure, With, Globals
  <2> QED BY <1>7, <2>1 DEF AbstractStructure, With, SameFile, Places
<1>8. CASE Analyse
  BY <1>8 DEF Analyse, main, Structural, SameFile
<1>9. CASE SaysVerdict
  <2>1. /\ pc = "structural" /\ UNCHANGED <<current, g, result, timer>>
        /\ pc' = IF at' = "exit" THEN "ended" ELSE pc
    BY <1>9 DEF SaysVerdict, Structural
  <2>2. witness' = witness \/ witness'.file = current
    BY <1>9 DEF SaysVerdict, Writes
  <2> QED BY <2>1, <2>2 DEF SameFile
<1>10. CASE LeaveStructure \/ ThrowInStructure
  BY <1>10 DEF LeaveStructure, ThrowInStructure, Structural, Searched, Return, SameFile, Places
<1>11. CASE WriteWitness
  <2>1. witness' = witness \/ witness'.file = current
    BY <1>11 DEF WriteWitness, Writes
  <2> QED BY <1>11, <2>1 DEF WriteWitness, Quiet, structural, SameFile
<1>12. CASE TimerFires
  BY <1>12 DEF TimerFires, Exit, Quiet, SameFile
<1>13. CASE Ended
  BY <1>1, <1>13 DEF Ended
<1> QED BY <1>1, <1>2, <1>3, <1>4, <1>5, <1>6, <1>7, <1>8, <1>9, <1>10, <1>11, <1>12,
           <1>13 DEF Next

LEMMA MainTypedNext ==
  ASSUME MainTyped, g \in Globals, current \in Nat, [Next]_vars
  PROVE  MainTyped'
<1>1. CASE NewFile
  <2>1. witness'.file \in 0 .. current' /\ current' > 0
    <3>1. current' = current + 1 /\ witness' = witness /\ witness.file \in 0 .. current
      BY <1>1 DEF NewFile, MainTyped
    <3> QED BY <3>1
  <2>2. timer' \in BOOLEAN
    BY <1>1 DEF NewFile, MainTyped
  <2>3. result' \in {-11, -1, 0, 1} /\ pc' \in Places /\ pc' # "structural" /\ at' = "idle"
    BY <1>1 DEF NewFile, MainTyped, Places
  <2> QED BY <2>1, <2>2, <2>3 DEF MainTyped
<1>2. CASE SameFile
  <2>1. witness'.file \in 0 .. current'
    <3>1. /\ current' = current /\ witness.file \in 0 .. current
          /\ witness' = witness \/ witness'.file = current
      BY <1>2 DEF SameFile, MainTyped
    <3> QED BY <3>1
  <2>2. timer' \in BOOLEAN
    BY <1>2 DEF SameFile, MainTyped
  <2>3. result' \in {-11, -1, 0, 1}
    BY <1>2 DEF SameFile, MainTyped
  <2>4. pc' \in Places /\ (pc' \notin {"main", "ended"} => current' > 0)
    BY <1>2 DEF SameFile, MainTyped, Places
  <2>5. pc' = "structural" => g'.advisor # ""
    BY <1>2 DEF SameFile, MainTyped
  <2>6. at' = "idle" \/ pc' \in {"structural", "ended"}
    BY <1>2 DEF SameFile, MainTyped
  <2> QED BY <2>1, <2>2, <2>3, <2>4, <2>5, <2>6 DEF MainTyped
<1> QED BY <1>1, <1>2, StepTyped

(***************************************************************************)
(* The types of the command ceagle: the current file, the globals, what is *)
(* returned and written, and the MSG with its operands, conditions and     *)
(* formulas.                                                               *)
(***************************************************************************)
THEOREM TypesKept == Spec => []TypeOK
<1>1. Init => MainTyped
  <2> SUFFICES ASSUME Init PROVE MainTyped
    OBVIOUS
  <2>1. pc = "main" /\ result = 0 /\ at = "idle" /\ current = 0 /\ witness.file = 0
    BY DEF Init, NoWitness
  <2>2. timer \in BOOLEAN
    BY DEF Init
  <2> QED BY <2>1, <2>2 DEF MainTyped, Places
<1>2. Settling => g \in Globals /\ current \in Nat
  BY DEF Settling, InOrder, IsSeq
<1>3. Settling /\ MainTyped /\ [Next]_vars => MainTyped'
  BY <1>2, MainTypedNext
<1>4. Shaped /\ [Next]_vars => Shaped'
  BY ShapedNext
<1>5. Settling /\ MainTyped /\ Shaped => TypeOK
  <2> SUFFICES ASSUME Settling, MainTyped, Shaped PROVE TypeOK
    OBVIOUS
  <2>1. StructuralTypeOK
    <3>1. /\ \A k \in DOMAIN msg : msg[k].kids \subseteq 1 .. k - 1
          /\ \A k \in DOMAIN vcs : vcs[k] \in DOMAIN msg
      BY LenProperties, ElementOfSeq DEF Shaped, OperandsBefore
    <3>2. DOMAIN vcs = 1 .. Len(vcs) /\ Len(vcs) \in Nat
      BY LenProperties DEF Shaped
    <3>3. DOMAIN vcFormulas = 1 .. Len(vcFormulas) /\ Len(vcFormulas) \in Nat
      BY LenProperties DEF Shaped, IsSeq
    <3>4. DOMAIN vcFormulas \subseteq DOMAIN vcs
      BY <3>2, <3>3 DEF Shaped
    <3> QED BY <3>1, <3>3, <3>4 DEF StructuralTypeOK, Shaped, Results
  <2>2. pc \in {"context", "analyse", "structural"} => g.advisor # ""
    BY DEF Settling, Contexts, MainTyped
  <2>3. current \in 0 .. Len(files) /\ g \in Globals
    BY DEF Settling, InOrder
  <2> QED BY <2>1, <2>2, <2>3 DEF TypeOK, MainTyped, Places
<1> QED BY <1>1, <1>3, <1>4, <1>5, ShapedInit, SettlingInit, SettlingNext, PTL DEF Spec
=============================================================================
