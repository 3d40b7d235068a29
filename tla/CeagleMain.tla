----------------------------- MODULE CeagleMain -----------------------------
(***************************************************************************)
(* The command ceagle (src/src/main_ceagle.cpp): main calls verify for     *)
(* each file of the command line. verify settles by which means the file   *)
(* is judged, in global variables that the next file finds as they are,    *)
(* and prints a verdict; main writes the witness. The analyses are jobs    *)
(* here with the outcomes their callers tell apart; the structural         *)
(* abstraction, which prints verdicts of its own and may exit, is the      *)
(* module StructuralAbstraction. For files with floats a thread prints     *)
(* TRUE and exits the process after 850 seconds.                           *)
(***************************************************************************)
EXTENDS StructuralAbstraction

CONSTANTS
  File,        \* kinds of files: the extension and the context that matches
  Options,     \* how the options of the command line set the globals
  MaxFiles     \* bound on the files of a command line

VARIABLES
  files,       \* the files of the command line
  property,    \* what the property file asks for, "none" without the file
  options,     \* the global variables when the options are read
  g,           \* the global variables
  current,     \* the file verify was called for last
  pc,          \* where main and verify are
  result,      \* what verify returned for the current file
  timer,       \* a thread of timeFloats sleeps
  out,         \* the verdicts printed, for which file and by whom
  witness,     \* the file witness.graphml is about, and what it says
  used         \* for every file the settings it was analysed with

input == <<files, property, options>>
main == <<input, g, current, pc, result, timer, out, witness, used>>
vars == <<main, structural>>

file == files[current]

\* The global variables of main_ceagle.cpp. unroll stands for the unroll depth,
\* which is the usual one or a larger one.
Globals ==
  [need_context : BOOLEAN,
   advisor : {"", "naive", "absref", "value", "structural", "cde", "arraysbounds"},
   cde : {"ECA", "Elevator"}, check_overflow : BOOLEAN, slice : BOOLEAN,
   sound : BOOLEAN, unroll : BOOLEAN]

\* An option that names an advisor turns the contexts off, and no option with
\* which a file is analysed slices it or sets the soundness or the depth.
ASSUME CeagleAssumption ==
  /\ Options \subseteq Globals
  /\ \A o \in Options : /\ o.need_context => o.advisor = ""
                       /\ ~o.slice /\ ~o.sound /\ ~o.unroll
  /\ MaxFiles \in Nat

\* The options that leave everything to verify.
NoOptions ==
  [need_context |-> TRUE, advisor |-> "", cde |-> "ECA", check_overflow |-> FALSE,
   slice |-> FALSE, sound |-> FALSE, unroll |-> FALSE]

\* The globals an analysis depends on.
Settings(h) ==
  [advisor |-> h.advisor,
   cde     |-> h.advisor = "cde" /\ h.cde = "ECA",
   slice   |-> h.advisor \notin {"cde", "structural"} /\ h.slice,
   sound   |-> h.advisor = "absref" /\ h.sound,
   unroll  |-> h.advisor = "naive" /\ h.unroll]

NotAnalysed == [advisor |-> "", cde |-> FALSE, slice |-> FALSE,
                sound |-> FALSE, unroll |-> FALSE]

NoWitness == [file |-> 0, says |-> "nothing"]
-----------------------------------------------------------------------------
(***************************************************************************)
(* How the globals are settled                                             *)
(***************************************************************************)
\* The property file chooses the advisor unless one is set.
FromProperty(h) ==
  IF h.advisor # "" THEN h
  ELSE CASE property \in {"none", "termination"} -> h
         [] property = "deref"    -> [h EXCEPT !.advisor = "arraysbounds"]
         [] property = "overflow" -> [h EXCEPT !.check_overflow = TRUE]
         [] OTHER                 -> [h EXCEPT !.advisor = "naive"]

Settled(h) == LET p == FromProperty(h)
              IN IF p.advisor = "" THEN [p EXCEPT !.advisor = "naive"] ELSE p

\* The advisor a context selects; "" if it leaves the advisor as it is.
OwnAdvisor(c) ==
  CASE c \in {"Elevator", "ECA"}                            -> "cde"
    [] c = "DeviceDrivers"                                  -> "structural"
    [] c \in {"ByteOperation", "ByteFalse", "GCD", "LOOP"} -> "absref"
    [] c = "ByteNaive"                                      -> "naive"
    [] OTHER                                                -> ""

\* What the context c makes of the globals; LOOP sets AbstractState::sound.
InContext(c, h) ==
  [h EXCEPT !.advisor = IF OwnAdvisor(c) = "" THEN @ ELSE OwnAdvisor(c),
            !.cde     = IF c \in {"Elevator", "ECA"} THEN c ELSE @,
            !.sound   = @ \/ c = "LOOP",
            !.unroll  = @ \/ (c = "LargerUnroll" /\ property \in {"none", "reach"})]

\* A file of IR has no source for the contexts.
ForFile(f, h) == IF f.ext = "ll" THEN [Settled(h) EXCEPT !.need_context = FALSE]
                                 ELSE Settled(h)

\* The settings a file has when it is the only one.
Alone(f) == LET h == ForFile(f, options)
            IN Settings(IF h.need_context THEN InContext(f.context, h) ELSE h)
-----------------------------------------------------------------------------
Say(verdict, by) ==
  out' = Append(out, [file |-> current, verdict |-> verdict, by |-> by])

Silent == out' = out

Return(r) == result' = r /\ pc' = "return"

Exit == pc' = "ended" /\ UNCHANGED result

\* The verdict that goes with what verify returns
Verdict(r) == IF r < 0 THEN "FALSE" ELSE IF r > 0 THEN "TRUE" ELSE "UNKNOWN"

Judge(r) == Say(Verdict(r), "verify") /\ Return(r)

Quiet == UNCHANGED <<input, current, structural>>
-----------------------------------------------------------------------------
Init ==
  /\ files \in UNION {[1 .. n -> File] : n \in 1 .. MaxFiles}
  /\ property \in {"none", "reach", "deref", "overflow", "termination", "other"}
  /\ options \in Options /\ g = options
  /\ current = 0 /\ pc = "main" /\ result = 0 /\ timer = FALSE
  /\ out = <<>> /\ witness = NoWitness
  /\ used = [i \in DOMAIN files |-> NotAnalysed]
  /\ Fresh /\ at = "idle"

\* The loop of main calls verify for the next file.
Verify ==
  /\ pc = "main" /\ current < Len(files)
  /\ current' = current + 1 /\ pc' = "verify" /\ result' = 0
  /\ UNCHANGED <<input, g, timer, out, witness, used, structural>>

\* All files were verified; the thread ends with the process.
LeaveMain ==
  /\ pc = "main" /\ current = Len(files)
  /\ pc' = "ended"
  /\ UNCHANGED <<g, result, timer, out, witness, used>> /\ Quiet

Missing ==
  /\ pc = "verify" /\ file.ext = "missing"
  /\ Silent /\ Return(0)
  /\ UNCHANGED <<g, timer, witness, used>> /\ Quiet

\* The file exists, and the property is not given up at once.
Opened == pc = "verify" /\ file.ext # "missing"

GivesUp == property = "termination" /\ g.advisor = ""

GiveUp ==
  /\ Opened /\ GivesUp
  /\ Judge(0)
  /\ UNCHANGED <<g, timer, witness, used>> /\ Quiet

\* mutation: the switch over the result of verifyOverflow falls through
CheckOverflowAndOn ==
  /\ Opened /\ ~GivesUp /\ Settled(g).check_overflow
  /\ g' = Settled(g)
  /\ \E r \in {-1, 0, 1} : Say(Verdict(r), "verify")
  /\ pc' = "analyse"
  /\ UNCHANGED <<result, timer, witness, used>> /\ Quiet

\* verifyOverflow judges every file, also IR, or fails an assertion when the
\* file does not compile.
CheckOverflow ==
  /\ Opened /\ ~GivesUp /\ Settled(g).check_overflow
  /\ g' = Settled(g)
  /\ \/ \E r \in {-1, 0, 1} : Judge(r)
     \/ Silent /\ Exit
  /\ UNCHANGED <<timer, witness, used>> /\ Quiet

Proceeds == Opened /\ ~GivesUp /\ ~Settled(g).check_overflow

Unsupported ==
  /\ Proceeds /\ file.ext = "other"
  /\ g' = Settled(g) /\ Silent /\ Exit
  /\ UNCHANGED <<timer, witness, used>> /\ Quiet

\* A source is compiled and looked at by the contexts; IR is taken as it is.
Load ==
  /\ Proceeds /\ file.ext \in {"c", "ll"}
  /\ g' = ForFile(file, g)
  /\ pc' = IF g'.need_context THEN "context" ELSE "analyse"
  /\ UNCHANGED <<result, timer, out, witness, used>> /\ Quiet
-----------------------------------------------------------------------------
(***************************************************************************)
(* The switch over the context that matched                                *)
(***************************************************************************)
Context(C) == pc = "context" /\ file.context \in C

SelectAdvisor ==
  /\ Context({"Elevator", "ECA", "DeviceDrivers", "ByteOperation", "ByteNaive",
              "GCD", "LOOP"})
  /\ g' = InContext(file.context, g) /\ pc' = "analyse"
  /\ UNCHANGED <<result, timer, out, witness, used>> /\ Quiet

\* The text of the file is one whose verdict is known.
Recognise ==
  /\ pc = "context" /\ g' = InContext(file.context, g)
  /\ \/ Context({"ByteFalse"}) /\ Judge(-1)
     \/ Context({"FloatsArray"}) /\ \E r \in {-1, 1} : Judge(r)
     \/ Context({"Concurrency"}) /\ Judge(0)
     \/ Context({"LargeLoop"}) /\ \E r \in {0, 1} : Judge(r)
  /\ UNCHANGED <<timer, witness, used>> /\ Quiet

\* An assertion rules out that another property is checked.
LdvMalloc ==
  /\ Context({"LdvMalloc"})
  /\ IF g.advisor = "arraysbounds" THEN Judge(0)
     ELSE Silent /\ (Exit \/ Return(0))
  /\ UNCHANGED <<g, timer, witness, used>> /\ Quiet

\* The runners run the program; its status is -11 for the one, -1 for the other.
Run ==
  /\ \/ /\ Context({"NoNondet"}) /\ property \in {"none", "reach"}
        /\ \E r \in {-11, 0, 1} : Judge(r)
     \/ Context({"NoNondet"}) /\ property \notin {"none", "reach"}
          /\ Silent /\ Return(0)
     \/ Context({"LargeLoop"}) /\ \E r \in {-1, 1} : Judge(r)
  /\ UNCHANGED <<g, timer, witness, used>> /\ Quiet

\* mutation: the thread is only started for a larger unroll depth
FloatAtLargerDepth ==
  /\ Context({"Float", "LargerUnroll"}) /\ property \in {"none", "reach"}
  /\ g' = InContext(file.context, g)
  /\ timer' = (timer \/ file.context = "LargerUnroll") /\ pc' = "analyse"
  /\ UNCHANGED <<result, out, witness, used>> /\ Quiet

\* mutation: a file with floats gets the advisor of the loops
FloatAsLoop ==
  /\ Context({"Float", "LargerUnroll"}) /\ property \in {"none", "reach"}
  /\ g' = [InContext(file.context, g) EXCEPT !.advisor = "absref"]
  /\ timer' = TRUE /\ pc' = "analyse"
  /\ UNCHANGED <<result, out, witness, used>> /\ Quiet

\* The thread is started, and the file analysed with the advisor there is.
Float ==
  /\ Context({"Float", "LargerUnroll"}) /\ property \in {"none", "reach"}
  /\ g' = InContext(file.context, g)
  /\ timer' = TRUE /\ pc' = "analyse"
  /\ UNCHANGED <<result, out, witness, used>> /\ Quiet

FloatSkipped ==
  /\ Context({"Float", "LargerUnroll"}) /\ property \notin {"none", "reach"}
  /\ Silent /\ Return(0)
  /\ UNCHANGED <<g, timer, witness, used>> /\ Quiet
-----------------------------------------------------------------------------
(***************************************************************************)
(* The analyses                                                            *)
(***************************************************************************)
With(A) == pc = "analyse" /\ g.advisor \in A

Use == used' = [used EXCEPT ![current] = Settings(g)]

Says(r) == IF r < 0 THEN "violation" ELSE "correctness"

Writes(r) == witness' = IF r = 0 THEN witness
                        ELSE [file |-> current, says |-> Says(r)]

\* runECA writes a witness of its own. It takes the explorer's UNKNOWN, and
\* everything else that has TRUE in it, as proof. wrap throws when it cannot open
\* its files; main catches it and prints no verdict.
RunECA ==
  /\ With({"cde"}) /\ g.cde = "ECA" /\ Use
  /\ \/ \E r \in {-1, 0, 1} : Judge(r) /\ Writes(r)
     \/ Silent /\ pc' = "main" /\ UNCHANGED <<result, witness>>
  /\ UNCHANGED <<g, timer>> /\ Quiet

\* runElevator; an exception that its pipe cannot be opened is not caught.
RunElevator ==
  /\ With({"cde"}) /\ g.cde = "Elevator" /\ Use
  /\ \/ \E r \in {-1, 0, 1} : Judge(r)
     \/ Silent /\ Exit
  /\ UNCHANGED <<g, timer, witness>> /\ Quiet

Advised == pc = "analyse" /\ g.advisor # "cde"

\* Without IR of the file the process ends.
NoIR ==
  /\ Advised /\ Silent /\ Exit
  /\ UNCHANGED <<g, timer, witness, used>> /\ Quiet

\* SAManager gets the module sliced; the name to slice for stays set.
AbstractStructure ==
  /\ With({"structural"})
  /\ g' = [g EXCEPT !.slice = TRUE] /\ used' = [used EXCEPT ![current] = Settings(g)]
  /\ pc' = "structural" /\ Start
  /\ UNCHANGED <<input, current, result, timer, out, witness>>

Searches == Advised /\ g.advisor # "structural"

\* Only reachability is for the advisors.
Unsuitable ==
  /\ Searches /\ property # "reach"
  /\ Judge(0)
  /\ UNCHANGED <<g, timer, witness, used>> /\ Quiet

\* CEGAR, the value analysis or the search: UNSAFE, UNKNOWN, SAFE, or nothing.
Decide ==
  /\ Searches /\ property = "reach" /\ Use
  /\ \/ \E r \in {-1, 0, 1} : Judge(r)
     \/ Silent /\ Return(0)
  /\ UNCHANGED <<g, timer, witness>> /\ Quiet

\* An exception of the analysis is caught in main: a message, or a solver that
\* cannot be started, which is answered with TRUE. No witness is written.
Throw ==
  /\ Searches /\ property = "reach" /\ Use
  /\ Silent \/ Say("TRUE", "handler")
  /\ pc' = "main"
  /\ UNCHANGED <<g, result, timer, witness>> /\ Quiet

\* The structural abstraction at work
Structural(step) == pc = "structural" /\ step

Analyse ==
  /\ \/ Structural(FoundStmtTrace) \/ Structural(FoundVariableDeclaration)
     \/ Structural(Declarations) \/ Structural(Proved)
     \/ Structural(Undecided) \/ Structural(Refuted)
  /\ UNCHANGED main

\* Its verdict and witness. After FALSE the process exits.
SaysVerdict ==
  /\ Structural(Reported)
  /\ Say(verificationResult, "structural")
  /\ Writes(CASE verificationResult = "FALSE" -> -1
              [] verificationResult = "TRUE"  -> 1
              [] OTHER                        -> 0)
  /\ pc' = IF at' = "exit" THEN "ended" ELSE pc
  /\ UNCHANGED <<input, current, g, result, timer, used>>

LeaveStructure ==
  /\ Structural(Searched)
  /\ Silent /\ Return(0)
  /\ UNCHANGED <<input, current, g, timer, witness, used>>

\* An exception leaves SAManager as it is: a message about a node MSG2smt cannot
\* write or a formula Z3 does not take, or that Z3 cannot be started.
ThrowInStructure ==
  /\ pc = "structural"
  /\ \/ at = "declare" /\ declared < Len(Declared) /\ Silent
     \/ at = "solve" /\ (Silent \/ Say("TRUE", "handler"))
  /\ at' = "idle" /\ pc' = "main"
  /\ UNCHANGED <<input, current, g, result, timer, witness, used, vcvars, loopvars>>

\* mutation: the witness is left to the concolic execution of either type
WriteWitnessUnlessCDE ==
  /\ pc = "return" /\ pc' = "main"
  /\ IF g.advisor \in {"structural", "cde"}
       THEN UNCHANGED witness ELSE Writes(result)
  /\ UNCHANGED <<g, result, timer, out, used>> /\ Quiet

\* main writes the witness unless it takes the analysis for one that did.
WriteWitness ==
  /\ pc = "return" /\ pc' = "main"
  /\ IF g.advisor = "structural" \/ (g.advisor = "cde" /\ g.cde = "ECA")
       THEN UNCHANGED witness ELSE Writes(result)
  /\ UNCHANGED <<g, result, timer, out, used>> /\ Quiet

\* analyzeFloats, at any moment after it was started
TimerFires ==
  /\ timer /\ pc # "ended"
  /\ Say("TRUE", "timer") /\ Exit
  /\ UNCHANGED <<g, timer, witness, used>> /\ Quiet

Ended == pc = "ended" /\ UNCHANGED vars

Next ==
  \/ Verify \/ LeaveMain \/ Missing \/ GiveUp \/ CheckOverflow \/ Unsupported \/ Load
  \/ SelectAdvisor \/ Recognise \/ LdvMalloc \/ Run \/ Float \/ FloatSkipped
  \/ RunECA \/ RunElevator \/ NoIR \/ AbstractStructure \/ Unsuitable \/ Decide \/ Throw
  \/ Analyse \/ SaysVerdict \/ LeaveStructure \/ ThrowInStructure
  \/ WriteWitness \/ TimerFires \/ Ended

\* Any analysis may take for ever. The thread that sleeps wakes up.
Spec == Init /\ [][Next]_vars /\ WF_vars(TimerFires)
-----------------------------------------------------------------------------
(***************************************************************************)
(* Properties                                                              *)
(***************************************************************************)
\* The types of the globals and of what is printed and written.
TypeOK ==
  /\ current \in 0 .. Len(files)
  /\ pc \notin {"main", "ended"} => current > 0
  /\ pc \in {"main", "verify", "context", "analyse", "structural", "return", "ended"}
  /\ g \in Globals
  /\ pc \in {"context", "analyse", "structural"} => g.advisor # ""
  /\ result \in {-11, -1, 0, 1} /\ timer \in BOOLEAN
  /\ witness.file \in 0 .. current
  /\ at = "idle" \/ pc \in {"structural", "ended"}
  /\ StructuralTypeOK

\* The files that are IR, that set the soundness flag, the unroll depth or the
\* advisor, and those that were abstracted structurally
IRFiles      == {j \in DOMAIN files : files[j].ext = "ll"}
LoopFiles    == {j \in DOMAIN files : files[j].ext = "c" /\ files[j].context = "LOOP"}
DepthFiles   == {j \in DOMAIN files : files[j].ext = "c" /\ files[j].context = "LargerUnroll"}
AdvisorFiles == {j \in DOMAIN files : files[j].ext = "c" /\ OwnAdvisor(files[j].context) # ""}
SplitFiles   == {j \in DOMAIN files : used[j].advisor = "structural"}

\* A global of main that a file leaves behind changes the analysis of a later
\* file only in these ways. Soundness comes from a file with a loop, the unroll depth from
\* one of the two that set it, slicing from one that was abstracted structurally.
\* The advisor is another one only if IR came before and turned the contexts off,
\* or the file selects none itself and one before selected it.
SettingsLeak ==
  \A i \in DOMAIN files : used[i].advisor # "" =>
    LET own == Alone(files[i])
        Before(S) == \E j \in S : j < i
    IN /\ used[i].sound /\ ~own.sound => Before(LoopFiles)
       /\ used[i].unroll /\ ~own.unroll => Before(DepthFiles)
       /\ used[i].slice => Before(SplitFiles)
       /\ used[i].advisor # own.advisor =>
            \/ Before(IRFiles)
            \/ /\ Before(AdvisorFiles)
               /\ files[i].ext = "ll" \/ OwnAdvisor(files[i].context) = ""

\* The verdicts printed for one file agree. Only the thread says TRUE after
\* FALSE; only the structural abstraction takes TRUE or UNKNOWN back, when it
\* finds another declaration, and a solver that cannot be started while it does.
VerdictsAgree ==
  \A i, j \in DOMAIN out :
    (i < j /\ out[i].file = out[j].file /\ out[i].verdict # out[j].verdict) =>
      \/ out[j].by = "timer"
      \/ out[i].verdict # "FALSE" /\ out[i].by = "structural"

\* When main goes on to the next file after verify returned TRUE or FALSE, the
\* witness is about this file and says the same. Not so when the verdict came
\* from no analysis, while an option or an earlier file left main the advisor of
\* an analysis that writes the witness itself: then the old witness stays.
WitnessIsCurrent ==
  (pc = "main" /\ result # 0) =>
    \/ witness = [file |-> current, says |-> Says(result)]
    \/ /\ used[current] = NotAnalysed
       /\ \/ options.advisor \in {"structural", "cde"}
          \/ \E j \in 1 .. current - 1 :
               files[j].ext = "c" /\ files[j].context \in {"ECA", "DeviceDrivers"}

\* When a file with floats is analysed the process ends, even if the analysis, or
\* one of a later file, takes for ever.
FloatsEnd ==
  (pc = "analyse" /\ g.need_context /\ file.context \in {"Float", "LargerUnroll"})
    ~> pc = "ended"
=============================================================================
