--------------------------- MODULE ControlsProofs ---------------------------
(***************************************************************************)
(* Theorems about Controls, for any files, controls and effects: a control *)
(* reported as fired was noticed by its own tests, the red run executes    *)
(* the planted text, and only a process that was killed over its plant, or *)
(* whose restore raised, leaves a fault in the tree.                       *)
(***************************************************************************)
EXTENDS Controls, TLAPS

-----------------------------------------------------------------------------
(* The inductive invariant.                                                *)

Stamp == 0..(MaxClock + MaxWrites)

Bytecode == [text : SUBSET Control, stamp : Stamp]

\* The controls that plant in a file.
FaultsOf(f) == {c \in Control : FileOf[c] = f}

\* What a process may leave of a file: nothing is wrong with one never planted in.
SpoilsOf(f) == FaultsOf(f) \cup {Cut : c \in FaultsOf(f)}

\* What a process under way may have done to a file.
InHand(f) == IF Planting /\ f = Subject THEN {process.c, Cut} ELSE {}

\* A file holds the faults of that file, or nothing of its text; bytecode of an
\* empty one is never made.
FilesOK ==
  /\ cache \in [File -> Bytecode \cup {NoCache}]
  /\ \A f \in File : text[f] \subseteq SpoilsOf(f)
  /\ \A f \in File : cache[f] # NoCache => cache[f].text \subseteq FaultsOf(f)

\* A process has a control from its choice to its judgement, and writes left to
\* restore what it plants.
ProcessOK ==
  /\ process.at \notin {"none", "next"} => process.c \in Control
  /\ process.at \in {"green", "plant"} => process.writes + 2 <= MaxWrites
  /\ process.at \in {"planted", "red", "restore"} => process.writes + 1 <= MaxWrites
  /\ process.raised => process.at \in {"restore", "restored"}

\* While a process runs, a fault that another left behind is one that keeps its
\* anchor, and what the process will put back is what it found.
TreeOK ==
  /\ process.at # "none" => \A f \in File : text[f] \subseteq KeepsAnchor \cup InHand(f)
  /\ Planting =>
       process.original \subseteq KeepsAnchor \cap left[Subject] \cap FaultsOf(Subject)
  /\ process.at \in {"planted", "red"} => text[Subject] = process.original \cup {process.c}

Unnoticed(faults) == \A d \in faults : effect[d] = "unnoticed"

\* Before the plant the tests have loaded what they would load again.
GreenOK ==
  At("plant") => \A f \in Sees[process.c] : loaded[f] = Load(f)

\* Nothing but the plant is noticed by the tests, and they will load the plant.
RedOK ==
  /\ process.at \in {"planted", "red"} =>
       /\ Unnoticed(process.original)
       /\ \A f \in Sees[process.c] \ {Subject} : Unnoticed(Load(f))
  /\ At("red") => Load(Subject) = text[Subject]

\* What the red run noticed is the plant.
ReportOK ==
  process.at \in {"restore", "restored", "judge"} /\ ~process.raised =>
    \A f \in Sees[process.c] : Unnoticed(loaded[f] \ {process.c})

IInv ==
  /\ TypeOK
  /\ FilesOK
  /\ ProcessOK
  /\ TreeOK
  /\ GreenOK
  /\ RedOK
  /\ ReportOK
  /\ OnlyACutOffRunLeavesAFault
  /\ RedRunLoadsThePlant
  /\ CountedMeansNoticed

-----------------------------------------------------------------------------
(* What is loaded.                                                         *)

\* The files of the controls of a process are files.
LEMMA SubjectIsAFile ==
  ASSUME NEW c \in Control
  PROVE  FileOf[c] \in File /\ FileOf[c] \in Sees[c] /\ Sees[c] \subseteq File
BY ControlsHaveFiles

\* What is loaded of a file that is not empty are faults of that file.
LEMMA LoadsFaults ==
  ASSUME FilesOK, NEW f \in File, Cut \notin text[f]
  PROVE  Load(f) \subseteq FaultsOf(f)
BY DEF FilesOK, SpoilsOf, Load, IsValid

\* Bytecode as long as a text whose faults all grow it holds those faults.
LEMMA LoadsWhatKeepsAnchor ==
  ASSUME NEW f \in File, text[f] \subseteq KeepsAnchor
  PROVE  text[f] \subseteq Load(f)
BY KeepingGrows DEF Load, IsValid, Size

\* Of a test module no two texts are as long as each other.
LEMMA RewrittenBySize ==
  ASSUME NEW f \in File, f \in Rewritten, NEW S, NEW T, S \subseteq SpoilsOf(f),
         T \subseteq SpoilsOf(f), Size(S) = Size(T)
  PROVE  S = T
<1>1. SpoilsOf(f) \cap SizePreserving = {}
  BY RewrittenChangeSize, CutIsNoControl, FaultsAreControls DEF SpoilsOf, FaultsOf
<1> QED
  BY <1>1 DEF Size

\* What a file is loaded as stands while nothing writes it.
LEMMA LoadStands ==
  ASSUME NEW f \in File, text'[f] = text[f], stamp'[f] = stamp[f], cache'[f] = cache[f]
  PROVE  Load(f)' = Load(f)
BY DEF Load, IsValid

\* Bytecode compiled of what was loaded is loaded again.
LEMMA CompiledIsLoadedAgain ==
  ASSUME TypeOK, FilesOK, NEW seen, cache' = Compiled(seen), text' = text, stamp' = stamp,
         \A f \in File : Cut \notin text[f]
  PROVE  FilesOK' /\ \A f \in File : Load(f)' = Load(f)
<1>1. ASSUME NEW f \in File
      PROVE  /\ cache'[f] \in Bytecode \cup {NoCache}
             /\ cache'[f] # NoCache => cache'[f].text \subseteq FaultsOf(f)
             /\ Load(f)' = Load(f)
  <2> DEFINE made == [text |-> Load(f), stamp |-> stamp[f]]
  <2>1. Load(f) \subseteq FaultsOf(f) /\ Load(f) \subseteq Control /\ stamp[f] \in Stamp
    BY LoadsFaults DEF TypeOK, FaultsOf, Stamp
  <2>2. made \in Bytecode /\ made # NoCache /\ made.text = Load(f) /\ made.stamp = stamp[f]
    BY <2>1, NoCacheIsApart, BoundsAreNatural DEF Bytecode, Stamp
  <2>3. Size(Load(f)) = Size(text[f])
    BY DEF Load, IsValid
  <2>4. cache'[f] = made \/ cache'[f] = cache[f]
    BY DEF Compiled
  <2> HIDE DEF made
  <2>5. CASE cache'[f] = made
    <3>1. IsValid(f)'
      BY <2>2, <2>3, <2>5 DEF IsValid
    <3>2. Load(f)' = Load(f)
      BY <2>2, <2>5, <3>1 DEF Load
    <3> QED
      BY <2>1, <2>2, <2>5, <3>2
  <2>6. CASE cache'[f] = cache[f]
    BY <2>6, LoadStands DEF FilesOK
  <2> QED
    BY <2>4, <2>5, <2>6
<1>2. cache' \in [File -> Bytecode \cup {NoCache}]
  <2>1. cache' = [f \in File |-> cache'[f]]
    BY DEF Compiled
  <2> QED
    BY <1>1, <2>1
<1> QED
  BY <1>1, <1>2 DEF FilesOK

-----------------------------------------------------------------------------
(* What is reported.                                                       *)

\* A green report is of faults that no test noticed.
LEMMA GreenIsUnnoticed ==
  ASSUME effect \in [Control -> Effect], NEW faults, faults \subseteq Control,
         Report(faults).status = 0
  PROVE  Unnoticed(faults)
<1> DEFINE done == {Does(d) : d \in faults}
<1>1. done \subseteq Effect
  BY DEF Does
<1>2. "unparsable" \notin done /\ "errs" \notin done /\ "fails" \notin done
  BY <1>1 DEF Report
<1>3. \A d \in faults : Does(d) \in done
  OBVIOUS
<1> QED
  BY <1>1, <1>2, <1>3 DEF Effect, Unnoticed, Does

\* A report of a fired control is of a fault that made tests fail.
LEMMA FiredIsFailed ==
  ASSUME NEW faults, Verdict(Report(faults)) = "FIRED"
  PROVE  \E d \in faults : effect[d] = "fails"
<1> DEFINE done == {Does(d) : d \in faults}
<1>1. Report(faults).status = 1 /\ Report(faults).failed
  BY DEF Verdict
<1>2. "fails" \in done
  BY <1>1 DEF Report
<1> QED
  BY <1>2 DEF Does

-----------------------------------------------------------------------------
(* The steps.                                                              *)

ProcessRecord ==
  [at : {"none", "next", "green", "plant", "planted", "red", "restore", "restored", "judge"},
   c : Control \cup {NoControl}, writes : 0..MaxWrites, original : SUBSET Control,
   raised : BOOLEAN]

\* No process is a state of a process.
LEMMA NoProcessIsIdle ==
  /\ NoProcess \in ProcessRecord
  /\ NoProcess.at = "none" /\ NoProcess.raised = FALSE
BY BoundsAreNatural DEF NoProcess, ProcessRecord

\* Nothing is planted and nothing runs at the start.
LEMMA InitIInv == Init => IInv
<1> SUFFICES ASSUME Init
             PROVE  IInv
  OBVIOUS
<1>1. process = NoProcess /\ process \in ProcessRecord /\ process.at = "none"
      /\ process.raised = FALSE
  BY NoProcessIsIdle DEF Init
<1>2. TypeOK
  BY <1>1, BoundsAreNatural DEF Init, TypeOK, ProcessRecord
<1>3. FilesOK
  BY DEF Init, FilesOK
<1> QED
  BY <1>1, <1>2, <1>3
  DEF Init, IInv, ProcessOK, TreeOK, GreenOK, RedOK, ReportOK, Planting, At, InHand,
      OnlyACutOffRunLeavesAFault, RedRunLoadsThePlant, CountedMeansNoticed

\* A step of the process that neither runs tests nor writes: the invariant holds
\* of where it goes.
LEMMA ProcessMoves ==
  ASSUME IInv, UNCHANGED <<effect, files, clock, loaded, counted>>,
         NEW p \in ProcessRecord, process' = p, UNCHANGED left,
         ProcessOK', TreeOK', GreenOK', RedOK', ReportOK', OnlyACutOffRunLeavesAFault',
         RedRunLoadsThePlant'
  PROVE  IInv'
<1>1. TypeOK'
  BY DEF IInv, TypeOK, files, ProcessRecord
<1>2. FilesOK'
  BY DEF IInv, FilesOK, files
<1>3. CountedMeansNoticed'
  BY DEF IInv, CountedMeansNoticed
<1> QED
  BY <1>1, <1>2, <1>3 DEF IInv

\* A process starts in a tree whose anchors live: what is in it keeps them.
LEMMA StartStep ==
  ASSUME IInv, Start
  PROVE  IInv'
<1> DEFINE p == [process EXCEPT !.at = "next"]
<1>1. process \in ProcessRecord /\ process.at = "none" /\ process' = p
      /\ UNCHANGED <<effect, files, clock, loaded, counted, left>>
  BY DEF IInv, TypeOK, ProcessRecord, Start, At, GoTo
<1>2. p \in ProcessRecord /\ p.at = "next" /\ p.raised = process.raised
  BY <1>1 DEF ProcessRecord
<1> HIDE DEF p
<1>3. ProcessOK'
  BY <1>1, <1>2 DEF IInv, ProcessOK, Planting
<1>4. TreeOK'
  <2>1. ASSUME NEW f \in File
        PROVE  text[f] \subseteq KeepsAnchor
    BY DEF Start, AnchorLives, IInv, FilesOK, SpoilsOf, FaultsOf
  <2> QED
    BY <1>1, <1>2, <2>1 DEF TreeOK, Planting, files
<1>5. GreenOK' /\ RedOK' /\ ReportOK' /\ RedRunLoadsThePlant'
  BY <1>1, <1>2 DEF GreenOK, RedOK, ReportOK, RedRunLoadsThePlant, At
<1>6. OnlyACutOffRunLeavesAFault'
  BY <1>1, <1>2 DEF IInv, OnlyACutOffRunLeavesAFault, Planting, InHand, files
<1> QED
  BY <1>1, <1>2, <1>3, <1>4, <1>5, <1>6, ProcessMoves

\* A process between two controls has planted nothing.
LEMMA ChooseStep ==
  ASSUME IInv, NEW c \in Control, Choose(c)
  PROVE  IInv'
<1> DEFINE n == [process EXCEPT !.at = "green"]
           p == [n EXCEPT !.c = c]
<1>1. process \in ProcessRecord /\ process.at = "next" /\ process.writes + 2 <= MaxWrites
      /\ process' = p /\ UNCHANGED <<effect, files, clock, loaded, counted, left>>
  BY DEF IInv, TypeOK, ProcessRecord, Choose, At
<1>2. n \in ProcessRecord /\ n.at = "green" /\ n.raised = process.raised
      /\ n.writes = process.writes
  BY <1>1 DEF ProcessRecord
<1> HIDE DEF n
<1>3. p \in ProcessRecord /\ p.at = "green" /\ p.raised = process.raised
      /\ p.writes = process.writes /\ p.c = c
  BY <1>2 DEF ProcessRecord
<1> HIDE DEF p
<1>4. ProcessOK'
  BY <1>1, <1>3 DEF IInv, ProcessOK, Planting
<1>5. TreeOK'
  BY <1>1, <1>3 DEF IInv, TreeOK, Planting, InHand, files
<1>6. GreenOK' /\ RedOK' /\ ReportOK' /\ RedRunLoadsThePlant'
  BY <1>1, <1>3 DEF GreenOK, RedOK, ReportOK, RedRunLoadsThePlant, At
<1>7. OnlyACutOffRunLeavesAFault'
  BY <1>1, <1>3 DEF IInv, OnlyACutOffRunLeavesAFault, Planting, InHand, files
<1> QED
  BY <1>1, <1>3, <1>4, <1>5, <1>6, <1>7, ProcessMoves

\* A target that fails before the plant is left alone.
LEMMA UnmeasuredStep ==
  ASSUME IInv, Unmeasured
  PROVE  IInv'
<1> DEFINE p == [process EXCEPT !.at = "next"]
<1>1. process \in ProcessRecord /\ process.at = "plant" /\ process' = p
      /\ UNCHANGED <<effect, files, clock, loaded, counted, left>>
  BY DEF IInv, TypeOK, ProcessRecord, Unmeasured, At, GoTo
<1>2. p \in ProcessRecord /\ p.at = "next" /\ p.raised = process.raised
  BY <1>1 DEF ProcessRecord
<1> HIDE DEF p
<1>3. ProcessOK'
  BY <1>1, <1>2 DEF IInv, ProcessOK, Planting
<1>4. TreeOK'
  BY <1>1, <1>2 DEF IInv, TreeOK, Planting, InHand, files
<1>5. GreenOK' /\ RedOK' /\ ReportOK' /\ RedRunLoadsThePlant'
  BY <1>1, <1>2 DEF GreenOK, RedOK, ReportOK, RedRunLoadsThePlant, At
<1>6. OnlyACutOffRunLeavesAFault'
  BY <1>1, <1>2 DEF IInv, OnlyACutOffRunLeavesAFault, Planting, InHand, files
<1> QED
  BY <1>1, <1>2, <1>3, <1>4, <1>5, <1>6, ProcessMoves

\* An interrupted run goes through the finally: what it found is still kept.
LEMMA InterruptStep ==
  ASSUME IInv, Interrupt
  PROVE  IInv'
<1> DEFINE n == [process EXCEPT !.at = "restore"]
           p == [n EXCEPT !.raised = TRUE]
<1>1. process \in ProcessRecord /\ process.at \in {"planted", "red", "restore"} /\ process' = p
      /\ UNCHANGED <<effect, files, clock, loaded, counted, left>>
  BY DEF IInv, TypeOK, ProcessRecord, Interrupt, Unwinds
<1>2. n \in ProcessRecord /\ n.at = "restore" /\ n.c = process.c /\ n.writes = process.writes
      /\ n.original = process.original
  BY <1>1 DEF ProcessRecord
<1> HIDE DEF n
<1>3. p \in ProcessRecord /\ p.at = "restore" /\ p.raised = TRUE /\ p.c = process.c
      /\ p.writes = process.writes /\ p.original = process.original
  BY <1>2 DEF ProcessRecord
<1> HIDE DEF p
<1>4. ProcessOK'
  BY <1>1, <1>3 DEF IInv, ProcessOK, Planting
<1>5. TreeOK'
  BY <1>1, <1>3 DEF IInv, TreeOK, Planting, InHand, Subject, files
<1>6. GreenOK' /\ RedOK' /\ ReportOK' /\ RedRunLoadsThePlant'
  BY <1>1, <1>3 DEF GreenOK, RedOK, ReportOK, RedRunLoadsThePlant, At
<1>7. OnlyACutOffRunLeavesAFault'
  BY <1>1, <1>3 DEF IInv, OnlyACutOffRunLeavesAFault, Planting, Subject, files
<1> QED
  BY <1>1, <1>3, <1>4, <1>5, <1>6, <1>7, ProcessMoves

\* A process that ends between two controls leaves the tree as it found it.
LEMMA FinishStep ==
  ASSUME IInv, Finish
  PROVE  IInv'
<1>1. process.at = "next" /\ process' = NoProcess
      /\ UNCHANGED <<effect, files, clock, loaded, counted, left>>
  BY DEF Finish, At
<1>2. ProcessOK' /\ TreeOK'
  BY <1>1, NoProcessIsIdle DEF ProcessOK, TreeOK, Planting
<1>3. GreenOK' /\ RedOK' /\ ReportOK' /\ RedRunLoadsThePlant'
  BY <1>1, NoProcessIsIdle DEF GreenOK, RedOK, ReportOK, RedRunLoadsThePlant, At
<1>4. OnlyACutOffRunLeavesAFault'
  BY <1>1, NoProcessIsIdle DEF IInv, OnlyACutOffRunLeavesAFault, Planting, InHand, files
<1> QED
  BY <1>1, <1>2, <1>3, <1>4, NoProcessIsIdle, ProcessMoves

\* The second passes and nothing else happens.
LEMMA TickStep ==
  ASSUME IInv, Tick
  PROVE  IInv'
<1>1. clock' = clock + 1 /\ clock < MaxClock
      /\ UNCHANGED <<effect, files, process, loaded, counted, left>>
  BY DEF Tick
<1>2. TypeOK'
  BY <1>1, BoundsAreNatural DEF IInv, TypeOK, files
<1>3. FilesOK' /\ ProcessOK' /\ TreeOK'
  BY <1>1 DEF IInv, FilesOK, ProcessOK, TreeOK, Planting, InHand, Subject, files
<1>4. GreenOK' /\ RedOK' /\ ReportOK'
  BY <1>1 DEF IInv, GreenOK, RedOK, ReportOK, At, Load, IsValid, Subject, Unnoticed, files
<1>5. OnlyACutOffRunLeavesAFault' /\ RedRunLoadsThePlant' /\ CountedMeansNoticed'
  BY <1>1
  DEF IInv, OnlyACutOffRunLeavesAFault, Planting, RedRunLoadsThePlant, CountedMeansNoticed, At,
      Subject, files
<1> QED
  BY <1>2, <1>3, <1>4, <1>5 DEF IInv

\* The green run remembers what the tests load, and they would load it again.
LEMMA GreenStep ==
  ASSUME IInv, Green
  PROVE  IInv'
<1> DEFINE p == [process EXCEPT !.at = "plant"]
<1>1. /\ process \in ProcessRecord /\ process.at = "green" /\ process' = p
      /\ loaded' = [f \in File |-> IF f \in Sees[process.c] THEN Load(f) ELSE {}]
      /\ cache' = Compiled(Sees[process.c])
      /\ UNCHANGED <<effect, text, stamp, clock, counted, left>>
  BY DEF IInv, TypeOK, ProcessRecord, Green, RunTests, At, GoTo
<1>2. p \in ProcessRecord /\ p.at = "plant" /\ p.raised = process.raised /\ p.c = process.c
      /\ p.writes = process.writes
  BY <1>1 DEF ProcessRecord
<1> HIDE DEF p
<1>3. process.c \in Control /\ Sees[process.c] \subseteq File
  BY <1>1, SubjectIsAFile DEF IInv, ProcessOK
<1>4. \A f \in File : Cut \notin text[f]
  BY <1>1, CutIsNoControl, FaultsAreControls DEF IInv, TreeOK, InHand, Planting
<1>5. FilesOK' /\ \A f \in File : Load(f)' = Load(f)
  BY <1>4, <1>1, CompiledIsLoadedAgain DEF IInv
<1>6. \A f \in File : Load(f) \subseteq Control
  BY <1>4, LoadsFaults DEF IInv, FaultsOf
<1>7. TypeOK'
  BY <1>1, <1>2, <1>5, <1>6 DEF IInv, TypeOK, FilesOK, Bytecode, Stamp, ProcessRecord
<1>8. ProcessOK' /\ TreeOK'
  BY <1>1, <1>2 DEF IInv, ProcessOK, TreeOK, Planting, InHand
<1>9. GreenOK'
  BY <1>1, <1>2, <1>3, <1>5 DEF GreenOK
<1>10. RedOK' /\ ReportOK' /\ RedRunLoadsThePlant'
  BY <1>1, <1>2 DEF RedOK, ReportOK, RedRunLoadsThePlant, At
<1>11. OnlyACutOffRunLeavesAFault' /\ CountedMeansNoticed'
  BY <1>1, <1>2 DEF IInv, OnlyACutOffRunLeavesAFault, Planting, CountedMeansNoticed, InHand
<1> QED
  BY <1>5, <1>7, <1>8, <1>9, <1>10, <1>11 DEF IInv

\* The red run loads the plant, and what was unnoticed before it.
LEMMA RedStep ==
  ASSUME IInv, Red
  PROVE  IInv'
<1> DEFINE p == [process EXCEPT !.at = "restore"]
<1>1. /\ process \in ProcessRecord /\ process.at = "red" /\ process' = p
      /\ loaded' = [f \in File |-> IF f \in Sees[process.c] THEN Load(f) ELSE {}]
      /\ cache' = Compiled(Sees[process.c])
      /\ UNCHANGED <<effect, text, stamp, clock, counted, left>>
  BY DEF IInv, TypeOK, ProcessRecord, Red, RunTests, At, GoTo
<1>2. p \in ProcessRecord /\ p.at = "restore" /\ p.raised = process.raised /\ p.c = process.c
      /\ p.writes = process.writes /\ p.original = process.original
  BY <1>1 DEF ProcessRecord
<1> HIDE DEF p
<1>3. process.c \in Control /\ Sees[process.c] \subseteq File /\ Subject \in Sees[process.c]
  BY <1>1, SubjectIsAFile DEF IInv, ProcessOK, Subject
<1>4. \A f \in File : Cut \notin text[f]
  BY <1>1, <1>3, CutIsNoControl, FaultsAreControls DEF IInv, TypeOK, TreeOK, InHand
<1>5. FilesOK' /\ \A f \in File : Load(f)' = Load(f)
  BY <1>4, <1>1, CompiledIsLoadedAgain DEF IInv
<1>6. \A f \in File : Load(f) \subseteq Control
  BY <1>4, LoadsFaults DEF IInv, FaultsOf
<1>7. TypeOK'
  BY <1>1, <1>2, <1>5, <1>6 DEF IInv, TypeOK, FilesOK, Bytecode, Stamp, ProcessRecord
<1>8. ProcessOK' /\ TreeOK'
  BY <1>1, <1>2 DEF IInv, ProcessOK, TreeOK, Planting, InHand, Subject
<1>9. GreenOK' /\ RedOK'
  BY <1>1, <1>2 DEF GreenOK, RedOK, At
<1>10. Load(Subject) = process.original \cup {process.c} /\ Load(Subject) = text[Subject]
  BY <1>1 DEF IInv, RedOK, TreeOK, At
<1>11. RedRunLoadsThePlant'
  BY <1>1, <1>2, <1>3, <1>10 DEF RedRunLoadsThePlant, Subject
<1>12. ReportOK'
  <2>1. \A f \in Sees[process.c] : Unnoticed(Load(f) \ {process.c})
    BY <1>1, <1>10 DEF IInv, RedOK, Unnoticed
  <2> QED
    BY <1>1, <1>2, <1>3, <2>1 DEF ReportOK, Unnoticed
<1>13. OnlyACutOffRunLeavesAFault' /\ CountedMeansNoticed'
  BY <1>1, <1>2 DEF IInv, OnlyACutOffRunLeavesAFault, Planting, CountedMeansNoticed, Subject
<1> QED
  BY <1>5, <1>7, <1>8, <1>9, <1>11, <1>12, <1>13 DEF IInv

\* A control is counted when what its red run noticed can only be its plant.
LEMMA JudgeStep ==
  ASSUME IInv, Judge
  PROVE  IInv'
<1> DEFINE p == [process EXCEPT !.at = "next"]
           c == process.c
<1>1. /\ process \in ProcessRecord /\ process.at = "judge" /\ process' = p
      /\ counted' = counted \cup (IF Verdict(ReportOf(c)) = "FIRED" THEN {c} ELSE {})
      /\ UNCHANGED <<effect, files, clock, loaded, left>>
  BY DEF IInv, TypeOK, ProcessRecord, Judge, At, GoTo
<1>2. p \in ProcessRecord /\ p.at = "next" /\ p.raised = process.raised
  BY <1>1 DEF ProcessRecord
<1>3. c \in Control /\ ~process.raised
  BY <1>1 DEF IInv, ProcessOK
<1> HIDE DEF p, c
<1>4. ASSUME Verdict(ReportOf(c)) = "FIRED"
      PROVE  effect[c] = "fails"
  <2>1. PICK d \in UNION {loaded[f] : f \in Sees[c]} : effect[d] = "fails"
    BY <1>4, FiredIsFailed DEF ReportOf
  <2>2. PICK f \in Sees[c] : d \in loaded[f]
    BY <2>1
  <2>3. Unnoticed(loaded[f] \ {c})
    BY <1>1, <1>3, <2>2 DEF IInv, ReportOK, c
  <2> QED
    BY <2>1, <2>2, <2>3 DEF Unnoticed
<1>5. CountedMeansNoticed'
  BY <1>1, <1>4 DEF IInv, CountedMeansNoticed
<1>6. TypeOK'
  BY <1>1, <1>2, <1>3 DEF IInv, TypeOK, ProcessRecord, files
<1>7. FilesOK' /\ ProcessOK' /\ TreeOK'
  BY <1>1, <1>2 DEF IInv, FilesOK, ProcessOK, TreeOK, Planting, InHand, files
<1>8. GreenOK' /\ RedOK' /\ ReportOK' /\ RedRunLoadsThePlant'
  BY <1>1, <1>2 DEF GreenOK, RedOK, ReportOK, RedRunLoadsThePlant, At
<1>9. OnlyACutOffRunLeavesAFault'
  BY <1>1, <1>2 DEF IInv, OnlyACutOffRunLeavesAFault, Planting, InHand, files
<1> QED
  BY <1>5, <1>6, <1>7, <1>8, <1>9 DEF IInv

\* Writing a file changes its text and its stamp.
LEMMA WriteKeepsFiles ==
  ASSUME IInv, NEW f \in File, NEW S, S \subseteq SpoilsOf(f), WriteText(f, S)
  PROVE  /\ text' \in [File -> SUBSET Fault] /\ stamp' \in [File -> Stamp] /\ FilesOK'
         /\ text'[f] = S
         /\ \A g \in File \ {f} : text'[g] = text[g] /\ Load(g)' = Load(g)
<1>1. /\ text' = [text EXCEPT ![f] = S] /\ stamp' = [stamp EXCEPT ![f] = clock] /\ cache' = cache
  BY DEF WriteText
<1>2. S \subseteq Fault /\ clock \in Stamp
  BY BoundsAreNatural DEF SpoilsOf, FaultsOf, Fault, IInv, TypeOK, Stamp
<1>3. /\ text' \in [File -> SUBSET Fault] /\ stamp' \in [File -> Stamp] /\ text'[f] = S
      /\ \A g \in File \ {f} : text'[g] = text[g] /\ stamp'[g] = stamp[g]
  BY <1>1, <1>2 DEF IInv, TypeOK, Stamp
<1>4. FilesOK'
  BY <1>1, <1>3 DEF IInv, FilesOK
<1>5. \A g \in File \ {f} : Load(g)' = Load(g)
  BY <1>1, <1>3, LoadStands
<1> QED
  BY <1>3, <1>4, <1>5

\* A write cut off leaves the file as it was, or empty.
LEMMA CutOffKeepsFiles ==
  ASSUME IInv, NEW f \in File, FaultsOf(f) # {}, CutOff(f)
  PROVE  /\ text' \in [File -> SUBSET Fault] /\ stamp' \in [File -> Stamp] /\ FilesOK'
         /\ text'[f] \in {text[f], {Cut}}
         /\ \A g \in File \ {f} : text'[g] = text[g]
<1>1. CASE UNCHANGED files
  BY <1>1 DEF files, IInv, TypeOK, FilesOK, Stamp
<1>2. CASE WriteText(f, {Cut})
  BY <1>2, WriteKeepsFiles DEF SpoilsOf
<1> QED
  BY <1>1, <1>2 DEF CutOff

\* The plant goes into a tree whose other faults no test noticed.
LEMMA PlantStep ==
  ASSUME IInv, Plant
  PROVE  IInv'
<1> DEFINE c == process.c
           n == [process EXCEPT !.at = "planted"]
           q == [n EXCEPT !.writes = @ + 1]
           p == [q EXCEPT !.original = text[Subject]]
<1>1. /\ process \in ProcessRecord /\ process.at = "plant" /\ process' = p
      /\ ReportOf(c).status = 0
      /\ text' = [text EXCEPT ![Subject] = text[Subject] \cup {c}]
      /\ stamp' = [stamp EXCEPT ![Subject] = clock]
      /\ UNCHANGED <<cache, effect, clock, loaded, counted, left>>
  BY DEF IInv, TypeOK, ProcessRecord, Plant, Ready, WriteText, At
<1>2. c \in Control /\ Subject \in File /\ Subject \in Sees[c] /\ Sees[c] \subseteq File
      /\ FileOf[c] = Subject
  BY <1>1, SubjectIsAFile DEF IInv, ProcessOK, Subject
<1>3. /\ process.writes + 2 <= MaxWrites /\ ~process.raised
      /\ text[Subject] \subseteq FaultsOf(Subject) /\ text[Subject] \subseteq Control
      /\ text[Subject] \subseteq KeepsAnchor \cap left[Subject]
  BY <1>1, <1>2, CutIsNoControl, FaultsAreControls
  DEF IInv, ProcessOK, FilesOK, SpoilsOf, FaultsOf, TreeOK, InHand, Planting,
      OnlyACutOffRunLeavesAFault
<1>4. n \in ProcessRecord /\ n.at = "planted" /\ n.c = c /\ n.raised = FALSE
      /\ n.writes = process.writes
  BY <1>1, <1>3 DEF ProcessRecord
<1> HIDE DEF n
<1>5. q \in ProcessRecord /\ q.at = "planted" /\ q.c = c /\ q.raised = FALSE
      /\ q.writes = process.writes + 1
  BY <1>3, <1>4, BoundsAreNatural DEF ProcessRecord
<1> HIDE DEF q
<1>6. p \in ProcessRecord /\ p.at = "planted" /\ p.c = c /\ p.raised = FALSE
      /\ p.writes = process.writes + 1 /\ p.original = text[Subject]
  BY <1>3, <1>5 DEF ProcessRecord
<1> HIDE DEF p
<1>7. Subject' = Subject
  BY <1>1, <1>6 DEF Subject
<1> HIDE DEF c
<1>8. /\ text' \in [File -> SUBSET Fault] /\ stamp' \in [File -> Stamp] /\ FilesOK'
      /\ text'[Subject] = text[Subject] \cup {c}
      /\ \A f \in File \ {Subject} : text'[f] = text[f] /\ Load(f)' = Load(f)
  <2>1. text[Subject] \cup {c} \subseteq SpoilsOf(Subject)
    BY <1>2, <1>3 DEF SpoilsOf, FaultsOf
  <2>2. WriteText(Subject, text[Subject] \cup {c})
    BY DEF Plant, c
  <2> QED
    BY <1>2, <2>1, <2>2, WriteKeepsFiles
<1>9. TypeOK'
  BY <1>1, <1>6, <1>8 DEF IInv, TypeOK, ProcessRecord, Stamp
<1>10. ProcessOK'
  <2>1. process.writes \in Nat
    BY <1>1, BoundsAreNatural DEF ProcessRecord
  <2> QED
    BY <1>1, <1>2, <1>3, <1>6, <2>1, BoundsAreNatural DEF ProcessOK, Planting
<1>11. TreeOK'
  <2>1. \A f \in File : text[f] \subseteq KeepsAnchor
    BY <1>1 DEF IInv, TreeOK, InHand, Planting
  <2> QED
    BY <1>1, <1>3, <1>6, <1>7, <1>8, <2>1 DEF TreeOK, Planting, InHand
<1>12. RedOK'
  <2>1. Unnoticed(UNION {loaded[f] : f \in Sees[c]})
    <3>1. UNION {loaded[f] : f \in Sees[c]} \subseteq Control
      BY <1>2 DEF IInv, TypeOK
    <3> QED
      BY <1>1, <3>1, GreenIsUnnoticed DEF IInv, TypeOK, ReportOf
  <2>2. \A f \in Sees[c] : Unnoticed(Load(f))
    BY <1>1, <2>1 DEF IInv, GreenOK, At, Unnoticed, c
  <2>3. Unnoticed(text[Subject])
    BY <1>2, <1>3, <2>2, LoadsWhatKeepsAnchor DEF Unnoticed
  <2>4. \A f \in Sees[c] \ {Subject} : Load(f)' = Load(f)
    BY <1>2, <1>8
  <2> QED
    BY <1>1, <1>6, <1>7, <2>2, <2>3, <2>4 DEF RedOK, At, Unnoticed
<1>13. GreenOK' /\ ReportOK' /\ RedRunLoadsThePlant'
  BY <1>1, <1>6 DEF GreenOK, ReportOK, RedRunLoadsThePlant, At
<1>14. OnlyACutOffRunLeavesAFault' /\ CountedMeansNoticed'
  BY <1>1, <1>2, <1>6, <1>7, <1>8
  DEF IInv, OnlyACutOffRunLeavesAFault, CountedMeansNoticed, Planting
<1> QED
  BY <1>8, <1>9, <1>10, <1>11, <1>12, <1>13, <1>14 DEF IInv

\* A plant that raises has left the file as it was, or empty, and goes to the finally.
LEMMA PlantRaisesStep ==
  ASSUME IInv, PlantRaises
  PROVE  IInv'
<1> DEFINE n == [process EXCEPT !.at = "restore"]
           q == [n EXCEPT !.writes = @ + 1]
           o == [q EXCEPT !.original = text[Subject]]
           p == [o EXCEPT !.raised = TRUE]
<1>1. /\ process \in ProcessRecord /\ process.at = "plant" /\ process' = p
      /\ CutOff(Subject) /\ UNCHANGED <<effect, clock, loaded, counted, left>>
  BY DEF IInv, TypeOK, ProcessRecord, PlantRaises, Ready, At
<1>2. process.c \in Control /\ Subject \in File /\ process.c \in FaultsOf(Subject)
  BY <1>1, SubjectIsAFile DEF IInv, ProcessOK, Subject, FaultsOf
<1>3. /\ process.writes + 2 <= MaxWrites /\ process.writes \in Nat
      /\ text[Subject] \subseteq Control
      /\ text[Subject] \subseteq KeepsAnchor \cap left[Subject] \cap FaultsOf(Subject)
      /\ \A f \in File : text[f] \subseteq KeepsAnchor /\ text[f] \subseteq left[f]
  <2>1. \A f \in File : text[f] \subseteq KeepsAnchor /\ text[f] \subseteq left[f]
    BY <1>1 DEF IInv, TreeOK, InHand, Planting, OnlyACutOffRunLeavesAFault
  <2>2. text[Subject] \subseteq FaultsOf(Subject)
    BY <1>2, <2>1, CutIsNoControl, FaultsAreControls DEF IInv, FilesOK, SpoilsOf
  <2> QED
    BY <1>1, <1>2, <2>1, <2>2, FaultsAreControls, BoundsAreNatural
    DEF IInv, ProcessOK, ProcessRecord
<1>4. n \in ProcessRecord /\ n.at = "restore" /\ n.c = process.c /\ n.writes = process.writes
  BY <1>1 DEF ProcessRecord
<1> HIDE DEF n
<1>5. q \in ProcessRecord /\ q.at = "restore" /\ q.c = process.c
      /\ q.writes = process.writes + 1
  BY <1>3, <1>4, BoundsAreNatural DEF ProcessRecord
<1> HIDE DEF q
<1>6. o \in ProcessRecord /\ o.at = "restore" /\ o.c = process.c
      /\ o.writes = process.writes + 1 /\ o.original = text[Subject]
  BY <1>3, <1>5 DEF ProcessRecord
<1> HIDE DEF o
<1>7. p \in ProcessRecord /\ p.at = "restore" /\ p.c = process.c /\ p.raised = TRUE
      /\ p.writes = process.writes + 1 /\ p.original = text[Subject]
  BY <1>6 DEF ProcessRecord
<1> HIDE DEF p
<1>8. /\ text' \in [File -> SUBSET Fault] /\ stamp' \in [File -> Stamp] /\ FilesOK'
      /\ text'[Subject] \in {text[Subject], {Cut}}
      /\ \A f \in File \ {Subject} : text'[f] = text[f]
  BY <1>1, <1>2, CutOffKeepsFiles
<1>9. Subject' = Subject /\ Planting' /\ process'.c = process.c
  BY <1>1, <1>7 DEF Subject, Planting
<1>10. TypeOK'
  BY <1>1, <1>7, <1>8 DEF IInv, TypeOK, FilesOK, Bytecode, Stamp, ProcessRecord
<1>11. ProcessOK'
  BY <1>1, <1>2, <1>3, <1>7, BoundsAreNatural DEF ProcessOK
<1>12. TreeOK'
  <2>1. ASSUME NEW f \in File
        PROVE  text'[f] \subseteq KeepsAnchor \cup InHand(f)'
    BY <1>3, <1>8, <1>9 DEF InHand
  <2> QED
    BY <1>1, <1>3, <1>7, <1>9, <2>1 DEF TreeOK
<1>13. OnlyACutOffRunLeavesAFault'
  BY <1>1, <1>3, <1>8, <1>9 DEF OnlyACutOffRunLeavesAFault, Planting
<1>14. GreenOK' /\ RedOK' /\ ReportOK' /\ RedRunLoadsThePlant'
  BY <1>1, <1>7 DEF GreenOK, RedOK, ReportOK, RedRunLoadsThePlant, At
<1>15. CountedMeansNoticed'
  BY <1>1 DEF IInv, CountedMeansNoticed
<1> QED
  BY <1>8, <1>10, <1>11, <1>12, <1>13, <1>14, <1>15 DEF IInv

\* Settling a file moves its stamp and deletes the bytecode it can name: the file
\* is loaded as it is.
LEMMA Settled ==
  ASSUME IInv, NEW f \in File, Settle(f)
  PROVE  /\ stamp' \in [File -> Stamp] /\ text' = text /\ FilesOK'
         /\ \A g \in File \ {f} : Load(g)' = Load(g)
         /\ Load(f)' = text[f]
<1>1. /\ stamp' = [stamp EXCEPT ![f] = Later(f)] /\ text' = text
      /\ cache' = [cache EXCEPT ![f] = IF f \in Rewritten THEN @ ELSE NoCache]
  BY DEF Settle
<1>2. Later(f) \in Stamp
  BY BoundsAreNatural DEF Later, Stamp, IInv, TypeOK
<1>3. stamp' \in [File -> Stamp]
  BY <1>1, <1>2 DEF IInv, TypeOK, Stamp
<1>4. FilesOK'
  BY <1>1 DEF IInv, FilesOK
<1>5. \A g \in File \ {f} : stamp'[g] = stamp[g] /\ cache'[g] = cache[g]
  BY <1>1 DEF IInv, TypeOK, FilesOK
<1>6. \A g \in File \ {f} : Load(g)' = Load(g)
  BY <1>1, <1>5, LoadStands
<1>7. Load(f)' = text[f]
  <2>1. CASE f \in Rewritten
    <3>1. CASE IsValid(f)'
      <4>1. cache'[f].text \subseteq SpoilsOf(f) /\ text[f] \subseteq SpoilsOf(f)
            /\ Size(cache'[f].text) = Size(text[f])
        BY <1>1, <1>4, <3>1 DEF FilesOK, SpoilsOf, IsValid
      <4>2. cache'[f].text = text[f]
        BY <2>1, <4>1, RewrittenBySize
      <4> QED
        BY <3>1, <4>2 DEF Load
    <3>2. CASE ~IsValid(f)'
      BY <1>1, <3>2 DEF Load
    <3> QED
      BY <3>1, <3>2
  <2>2. CASE f \notin Rewritten
    <3>1. cache'[f] = NoCache
      BY <1>1, <2>2 DEF IInv, FilesOK
    <3> QED
      BY <1>1, <3>1 DEF Load, IsValid
  <2> QED
    BY <2>1, <2>2
<1> QED
  BY <1>1, <1>3, <1>4, <1>6, <1>7

\* Once the plant is settled the tests will load it.
LEMMA SettlePlantStep ==
  ASSUME IInv, SettlePlant
  PROVE  IInv'
<1> DEFINE p == [process EXCEPT !.at = "red"]
<1>1. /\ process \in ProcessRecord /\ process.at = "planted" /\ process' = p
      /\ Settle(Subject) /\ UNCHANGED <<effect, clock, loaded, counted, left>>
  BY DEF IInv, TypeOK, ProcessRecord, SettlePlant, At, GoTo
<1>2. p \in ProcessRecord /\ p.at = "red" /\ p.c = process.c /\ p.raised = process.raised
      /\ p.writes = process.writes /\ p.original = process.original
  BY <1>1 DEF ProcessRecord
<1> HIDE DEF p
<1>3. Sees[process.c] \subseteq File
  BY <1>1, SubjectIsAFile DEF IInv, ProcessOK
<1>4. PICK f \in File : f = Subject
  BY <1>1, SubjectIsAFile DEF IInv, ProcessOK, Subject
<1>5. Subject' = f
  BY <1>1, <1>2, <1>4 DEF Subject
<1>6. /\ stamp' \in [File -> Stamp] /\ text' = text /\ FilesOK'
      /\ \A g \in File \ {f} : Load(g)' = Load(g)
      /\ Load(f)' = text[f]
  BY <1>1, <1>4, Settled
<1>7. TypeOK'
  BY <1>1, <1>2, <1>6 DEF IInv, TypeOK, FilesOK, Bytecode, Stamp, ProcessRecord
<1>8. ProcessOK' /\ TreeOK'
  BY <1>1, <1>2, <1>4, <1>5, <1>6 DEF IInv, ProcessOK, TreeOK, Planting, InHand
<1>9. RedOK'
  <2>1. Unnoticed(process.original)' /\ Load(f)' = text'[f]
    BY <1>1, <1>2, <1>6 DEF IInv, RedOK, Unnoticed
  <2>2. \A g \in Sees[process.c] \ {f} : Load(g)' = Load(g) /\ Unnoticed(Load(g))
    BY <1>1, <1>3, <1>4, <1>6 DEF IInv, RedOK
  <2>3. \A g \in Sees[process.c] \ {f} : Unnoticed(Load(g))'
    BY <1>1, <2>2 DEF Unnoticed
  <2> QED
    BY <1>2, <1>1, <1>5, <2>1, <2>3 DEF RedOK, Unnoticed, At
<1>10. GreenOK' /\ ReportOK' /\ RedRunLoadsThePlant'
  BY <1>1, <1>2 DEF GreenOK, ReportOK, RedRunLoadsThePlant, At
<1>11. OnlyACutOffRunLeavesAFault' /\ CountedMeansNoticed'
  BY <1>1, <1>2, <1>6 DEF IInv, OnlyACutOffRunLeavesAFault, Planting, CountedMeansNoticed, Subject
<1> QED
  BY <1>6, <1>7, <1>8, <1>9, <1>10, <1>11 DEF IInv

\* A restore that returns, with the text put back or lost, goes on to the
\* verification.
LEMMA RestoreReturns ==
  ASSUME IInv, process.at = "restore",
         process' = [process EXCEPT !.at = "restored", !.writes = @ + 1],
         UNCHANGED <<effect, clock, loaded, counted, left>>,
         text' \in [File -> SUBSET Fault], stamp' \in [File -> Stamp], FilesOK',
         text'[Subject] \in {text[Subject], {Cut}, process.original},
         \A f \in File \ {Subject} : text'[f] = text[f]
  PROVE  IInv'
<1> DEFINE n == [process EXCEPT !.at = "restored"]
           p == [n EXCEPT !.writes = @ + 1]
<1>1. process \in ProcessRecord /\ process.at = "restore" /\ process' = p
  BY DEF IInv, TypeOK, ProcessRecord
<1>2. process.c \in Control /\ Subject \in File
  BY <1>1, SubjectIsAFile DEF IInv, ProcessOK, Subject
<1>3. /\ process.writes + 1 <= MaxWrites /\ process.writes \in Nat
      /\ process.original \subseteq KeepsAnchor \cap left[Subject] \cap FaultsOf(Subject)
  BY <1>1, BoundsAreNatural DEF IInv, ProcessOK, TreeOK, Planting, ProcessRecord
<1>4. n \in ProcessRecord /\ n.at = "restored" /\ n.c = process.c /\ n.raised = process.raised
      /\ n.writes = process.writes /\ n.original = process.original
  BY <1>1 DEF ProcessRecord
<1> HIDE DEF n
<1>5. p \in ProcessRecord /\ p.at = "restored" /\ p.c = process.c /\ p.raised = process.raised
      /\ p.original = process.original
  BY <1>3, <1>4, BoundsAreNatural DEF ProcessRecord
<1> HIDE DEF p
<1>6. Subject' = Subject
  BY <1>1, <1>5 DEF Subject
<1>7. Planting /\ Planting' /\ InHand(Subject) = {process.c, Cut}
      /\ \A f \in File : InHand(f)' = InHand(f)
  BY <1>1, <1>5, <1>6 DEF Planting, InHand
<1>8. TypeOK'
  BY <1>1, <1>5 DEF IInv, TypeOK, FilesOK, Bytecode, Stamp, ProcessRecord
<1>9. ProcessOK'
  BY <1>1, <1>2, <1>5 DEF IInv, ProcessOK
<1>10. TreeOK'
  <2>1. ASSUME NEW f \in File
        PROVE  text'[f] \subseteq KeepsAnchor \cup InHand(f)'
    BY <1>1, <1>3, <1>7 DEF IInv, TreeOK
  <2> QED
    BY <1>1, <1>3, <1>5, <1>6, <2>1 DEF TreeOK
<1>11. OnlyACutOffRunLeavesAFault'
  BY <1>1, <1>3, <1>5, <1>6, <1>7 DEF IInv, OnlyACutOffRunLeavesAFault, Planting
<1>12. ReportOK'
  BY <1>1, <1>5 DEF IInv, ReportOK, Unnoticed
<1>13. GreenOK' /\ RedOK' /\ RedRunLoadsThePlant'
  BY <1>1, <1>5 DEF GreenOK, RedOK, RedRunLoadsThePlant, At
<1>14. CountedMeansNoticed'
  BY DEF IInv, CountedMeansNoticed
<1> QED
  BY <1>8, <1>9, <1>10, <1>11, <1>12, <1>13, <1>14 DEF IInv

\* The restore puts back what the process found.
LEMMA RestoreStep ==
  ASSUME IInv, Restore
  PROVE  IInv'
<1>1. process.at = "restore" /\ Subject \in File
  BY SubjectIsAFile DEF Restore, At, IInv, ProcessOK, Subject
<1>2. process.original \subseteq SpoilsOf(Subject)
  BY <1>1 DEF Restore, At, IInv, TreeOK, Planting, SpoilsOf
<1> QED
  BY <1>1, <1>2, WriteKeepsFiles, RestoreReturns DEF Restore

\* A restore that is lost leaves the file as it was, or empty.
LEMMA RestoreIsLostStep ==
  ASSUME IInv, RestoreIsLost
  PROVE  IInv'
<1>1. process.at = "restore" /\ Subject \in File /\ FaultsOf(Subject) # {}
  BY SubjectIsAFile DEF RestoreIsLost, At, IInv, ProcessOK, Subject, FaultsOf
<1> QED
  BY <1>1, CutOffKeepsFiles, RestoreReturns DEF RestoreIsLost

\* Once the restore is settled the run is judged, or the exception goes on.
LEMMA SettleRestoreStep ==
  ASSUME IInv, SettleRestore
  PROVE  IInv'
<1> DEFINE j == [process EXCEPT !.at = "judge"]
           p == IF process.raised THEN NoProcess ELSE j
<1>1. /\ process \in ProcessRecord /\ process.at = "restored" /\ process' = p
      /\ Settle(Subject) /\ UNCHANGED <<effect, clock, loaded, counted, left>>
      /\ text[Subject] = process.original
  BY DEF IInv, TypeOK, ProcessRecord, SettleRestore, Verified, At
<1>2. j \in ProcessRecord /\ j.at = "judge" /\ j.c = process.c /\ j.raised = process.raised
  BY <1>1 DEF ProcessRecord
<1> HIDE DEF j
<1>3. /\ p \in ProcessRecord /\ p.at \in {"none", "judge"} /\ p.raised = FALSE
      /\ p.at = "judge" => p.c = process.c /\ process.raised = FALSE
  BY <1>1, <1>2, NoProcessIsIdle DEF ProcessRecord
<1> HIDE DEF p
<1>4. PICK f \in File : f = Subject
  BY <1>1, SubjectIsAFile DEF IInv, ProcessOK, Subject
<1>5. stamp' \in [File -> Stamp] /\ text' = text /\ FilesOK'
  BY <1>1, <1>4, Settled
<1>6. TypeOK'
  BY <1>1, <1>3, <1>5 DEF IInv, TypeOK, FilesOK, Bytecode, Stamp, ProcessRecord
<1>7. ProcessOK'
  BY <1>1, <1>3 DEF IInv, ProcessOK, Planting
<1>8. process.original \subseteq KeepsAnchor \cap left[f]
  BY <1>1, <1>4 DEF IInv, TreeOK, Planting
<1>9. ASSUME NEW g \in File
      PROVE  text[g] \subseteq KeepsAnchor /\ text[g] \subseteq left[g]
  BY <1>1, <1>4, <1>8 DEF IInv, TreeOK, OnlyACutOffRunLeavesAFault, Planting, InHand
<1>10. TreeOK' /\ OnlyACutOffRunLeavesAFault'
  BY <1>1, <1>3, <1>5, <1>9 DEF TreeOK, OnlyACutOffRunLeavesAFault, Planting
<1>11. ReportOK'
  BY <1>1, <1>3 DEF IInv, ReportOK, Unnoticed
<1>12. GreenOK' /\ RedOK' /\ RedRunLoadsThePlant'
  BY <1>1, <1>3 DEF GreenOK, RedOK, RedRunLoadsThePlant, At
<1>13. CountedMeansNoticed'
  BY <1>1 DEF IInv, CountedMeansNoticed
<1> QED
  BY <1>5, <1>6, <1>7, <1>10, <1>11, <1>12, <1>13 DEF IInv

\* A process that stops leaves what it had in hand, and says so.
LEMMA StopKeepsIInv ==
  ASSUME IInv, Stops, UNCHANGED <<effect, clock, loaded, counted>>,
         text' \in [File -> SUBSET Fault], stamp' \in [File -> Stamp], FilesOK',
         \A f \in File : text'[f] = text[f] \/ (Planting /\ f = Subject)
  PROVE  IInv'
<1>1. /\ process' = NoProcess
      /\ left' = [f \in File |-> IF Planting /\ f = Subject THEN left[f] \cup text'[f]
                                                          ELSE left[f]]
  BY DEF Stops
<1>2. left' \in [File -> SUBSET Fault]
  BY <1>1 DEF IInv, TypeOK
<1>3. TypeOK'
  BY <1>1, <1>2, NoProcessIsIdle DEF IInv, TypeOK, FilesOK, Bytecode, Stamp, ProcessRecord
<1>4. ProcessOK' /\ TreeOK'
  BY <1>1, NoProcessIsIdle DEF ProcessOK, TreeOK, Planting
<1>5. GreenOK' /\ RedOK' /\ ReportOK' /\ RedRunLoadsThePlant'
  BY <1>1, NoProcessIsIdle DEF GreenOK, RedOK, ReportOK, RedRunLoadsThePlant, At
<1>6. OnlyACutOffRunLeavesAFault'
  <2>1. ASSUME NEW f \in File
        PROVE  text'[f] \subseteq left'[f]
    BY <1>1 DEF IInv, OnlyACutOffRunLeavesAFault, Planting
  <2> QED
    BY <2>1 DEF OnlyACutOffRunLeavesAFault, Planting
<1>7. CountedMeansNoticed'
  BY DEF IInv, CountedMeansNoticed
<1> QED
  BY <1>3, <1>4, <1>5, <1>6, <1>7 DEF IInv

\* A kill changes no file.
LEMMA KillStep ==
  ASSUME IInv, Kill
  PROVE  IInv'
<1>1. text' \in [File -> SUBSET Fault] /\ stamp' \in [File -> Stamp] /\ FilesOK'
  BY DEF Kill, files, IInv, TypeOK, FilesOK, Stamp
<1> QED
  BY <1>1, StopKeepsIInv DEF Kill, files

\* A restoring write that raises leaves the file as it was, or empty.
LEMMA RestoreRaisesStep ==
  ASSUME IInv, RestoreRaises
  PROVE  IInv'
<1>1. Planting /\ Subject \in File /\ FaultsOf(Subject) # {}
  BY SubjectIsAFile DEF RestoreRaises, At, Planting, IInv, ProcessOK, Subject, FaultsOf
<1> QED
  BY <1>1, CutOffKeepsFiles, StopKeepsIInv DEF RestoreRaises

\* A restore that is not verified ends the process.
LEMMA NotRestoredStep ==
  ASSUME IInv, NotRestored
  PROVE  IInv'
<1>1. Subject \in File
  BY SubjectIsAFile DEF NotRestored, At, IInv, ProcessOK, Subject
<1>2. stamp' \in [File -> Stamp] /\ text' = text /\ FilesOK'
  BY <1>1, Settled DEF NotRestored
<1>3. text' \in [File -> SUBSET Fault]
  BY <1>2 DEF IInv, TypeOK
<1> QED
  BY <1>2, <1>3, StopKeepsIInv DEF NotRestored

\* A repair takes the faults of one file out, and no other file has them.
LEMMA RepairStep ==
  ASSUME IInv, NEW f \in File, Repair(f)
  PROVE  IInv'
<1>1. /\ process.at = "none" /\ text' = [text EXCEPT ![f] = {}]
      /\ stamp' = [stamp EXCEPT ![f] = clock] /\ left' = [left EXCEPT ![f] = {}]
      /\ UNCHANGED <<cache, effect, clock, process, loaded, counted>>
  BY DEF Repair, WriteText, At
<1>2. /\ text' \in [File -> SUBSET Fault] /\ text'[f] = {}
      /\ \A g \in File \ {f} : text'[g] = text[g]
  BY <1>1 DEF IInv, TypeOK
<1>3. TypeOK'
  <2>1. clock \in 0..(MaxClock + MaxWrites)
    BY BoundsAreNatural DEF IInv, TypeOK
  <2> QED
    BY <1>1, <1>2, <2>1 DEF IInv, TypeOK
<1>4. FilesOK'
  BY <1>1, <1>2 DEF IInv, FilesOK
<1>5. ProcessOK' /\ TreeOK'
  BY <1>1 DEF IInv, ProcessOK, TreeOK, Planting
<1>6. GreenOK' /\ RedOK' /\ ReportOK' /\ RedRunLoadsThePlant'
  BY <1>1 DEF GreenOK, RedOK, ReportOK, RedRunLoadsThePlant, At
<1>7. OnlyACutOffRunLeavesAFault'
  <2>1. ~Planting /\ ~Planting'
    BY <1>1 DEF Planting
  <2>2. left'[f] = {} /\ \A g \in File \ {f} : left'[g] = left[g]
    BY <1>1 DEF IInv, TypeOK
  <2> QED
    BY <1>2, <2>1, <2>2 DEF IInv, OnlyACutOffRunLeavesAFault, Planting
<1>8. CountedMeansNoticed'
  BY <1>1 DEF IInv, CountedMeansNoticed
<1> QED
  BY <1>3, <1>4, <1>5, <1>6, <1>7, <1>8 DEF IInv

\* Every step keeps the invariant.
LEMMA NextKeepsIInv == IInv /\ [Next]_vars => IInv'
<1> SUFFICES ASSUME IInv, [Next]_vars
             PROVE  IInv'
  OBVIOUS
<1>1. CASE UNCHANGED vars
  BY <1>1
  DEF vars, files, IInv, TypeOK, FilesOK, ProcessOK, TreeOK, GreenOK, RedOK, ReportOK, Planting,
      InHand, Subject, At, Load, IsValid, Unnoticed, OnlyACutOffRunLeavesAFault,
      RedRunLoadsThePlant, CountedMeansNoticed
<1> QED
  BY <1>1, StartStep, ChooseStep, GreenStep, UnmeasuredStep, PlantStep, SettlePlantStep, RedStep,
     PlantRaisesStep, InterruptStep, RestoreStep, RestoreRaisesStep, RestoreIsLostStep,
     SettleRestoreStep, NotRestoredStep, JudgeStep, FinishStep, KillStep, RepairStep,
     TickStep
  DEF Next

-----------------------------------------------------------------------------
(* What follows from it.                                                   *)

\* The invariant holds in every reachable state of the instrument.
THEOREM Invariance == Spec => []IInv
<1> QED
  BY InitIInv, NextKeepsIInv, PTL DEF Spec

\* A file, its bytecode and the process stay of their types: no stamp runs past
\* the clock by more than the writes of a process.
THEOREM TypeCorrect == Spec => []TypeOK
<1>1. IInv => TypeOK
  BY DEF IInv
<1> QED
  BY <1>1, Invariance, PTL

\* planted() restores in a finally and verifies it: what a process leaves in the
\* tree it held when it was killed over it or when its restore raised; whatever ends
\* the run before, and a run that goes on, leave nothing.
THEOREM TheTreeIsPutBack == Spec => []OnlyACutOffRunLeavesAFault
<1>1. IInv => OnlyACutOffRunLeavesAFault
  BY DEF IInv
<1> QED
  BY <1>1, Invariance, PTL

\* _write leaves no bytecode that Python or pytest would take for the planted
\* text, whatever an earlier process left: the red run executes the plant.
THEOREM ThePlantIsLoaded == Spec => []RedRunLoadsThePlant
<1>1. IInv => RedRunLoadsThePlant
  BY DEF IInv
<1> QED
  BY <1>1, Invariance, PTL

\* verdict() and the green run before the plant: a control is counted as fired
\* only if its own fault made a test fail.
THEOREM AFiredControlWasNoticed == Spec => []CountedMeansNoticed
<1>1. IInv => CountedMeansNoticed
  BY DEF IInv
<1> QED
  BY <1>1, Invariance, PTL
=============================================================================
