------------------------------ MODULE Controls ------------------------------
(***************************************************************************)
(* The negative controls: a fault is planted in a source file, the tests   *)
(* it should break run in a fresh interpreter, and the file is put back.   *)
(* What can go wrong is the instrument: a run killed before it restores, a *)
(* restore that fails, a crash taken for a failure, and an interpreter     *)
(* that serves the bytecode of the file as it was before the plant.        *)
(*                                                                         *)
(* One process of fail_controls.py runs at a time; it runs one control     *)
(* after another.  A file is the set of faults in it; write_text opens the *)
(* file, which empties it, and then writes, so that a write cut off leaves *)
(* it empty.                                                               *)
(***************************************************************************)
EXTENDS Naturals

CONSTANTS
  File,            \* the files that are planted in
  Rewritten,       \* test modules: pytest keeps their bytecode under its own name
  Control,         \* the controls, each with its one fault
  FileOf,          \* where the fault of a control is planted
  Sees,            \* the files the tests of a control load
  KeepsAnchor,     \* faults whose text still contains their anchor
  SizePreserving,  \* faults as long as their anchor
  MaxClock,        \* bound: seconds
  MaxWrites,       \* bound: writes of one process, two for a control
  Cut,             \* what is wrong with a file that a write has left empty
  NoControl,       \* no control is under way
  NoCache          \* no bytecode

ASSUME ControlsHaveFiles ==
  /\ FileOf \in [Control -> File] /\ Sees \in [Control -> SUBSET File]
  /\ \A c \in Control : FileOf[c] \in Sees[c]
  /\ Rewritten \subseteq File
ASSUME FaultsAreControls == KeepsAnchor \subseteq Control /\ SizePreserving \subseteq Control
\* A text that contains another and differs from it is longer.
ASSUME KeepingGrows == KeepsAnchor \cap SizePreserving = {}
\* No fault of the table planted in a test module is as long as its anchor.
ASSUME RewrittenChangeSize == \A c \in SizePreserving : FileOf[c] \notin Rewritten
ASSUME CutIsNoControl == Cut \notin Control
ASSUME NoCacheIsApart == NoCache \notin [text : SUBSET Control, stamp : Nat]
ASSUME BoundsAreNatural == MaxClock \in Nat /\ MaxWrites \in Nat

VARIABLES
  effect,      \* what each fault does to tests that load it
  text,        \* what each file holds, as the faults in it
  stamp,       \* its modification time, in whole seconds
  cache,       \* its bytecode, with the stamp and the text it was made from
  clock,
  process,     \* the fail_controls.py under way
  loaded,      \* history: what the last test run executed of each file
  counted,     \* history: the controls reported as fired
  left         \* history: what each file held when a process stopped with a
               \*   plant in it: killed, or by an exception in its restore

files == <<text, stamp, cache>>
vars == <<effect, text, stamp, cache, clock, process, loaded, counted, left>>

Fault == Control \cup {Cut}

Effect == {"fails", "errs", "unparsable", "unnoticed"}

NoProcess == [at |-> "none", c |-> NoControl, writes |-> 0, original |-> {}, raised |-> FALSE]

TypeOK ==
  /\ effect \in [Control -> Effect]
  /\ text \in [File -> SUBSET Fault]
  /\ stamp \in [File -> 0..(MaxClock + MaxWrites)]
  /\ \A f \in File : cache[f] \in [text : SUBSET Control, stamp : 0..(MaxClock + MaxWrites)]
                                    \cup {NoCache}
  /\ clock \in 0..MaxClock
  /\ process \in [at : {"none", "next", "green", "plant", "planted", "red", "restore",
                        "restored", "judge"},
                  c : Control \cup {NoControl}, writes : 0..MaxWrites,
                  original : SUBSET Control, raised : BOOLEAN]
  /\ loaded \in [File -> SUBSET Control]
  /\ counted \subseteq Control
  /\ left \in [File -> SUBSET Fault]

Init ==
  /\ effect \in [Control -> Effect]
  /\ text = [f \in File |-> {}]
  /\ stamp = [f \in File |-> 0]
  /\ cache = [f \in File |-> NoCache]
  /\ clock = 0
  /\ process = NoProcess
  /\ loaded = [f \in File |-> {}]
  /\ counted = {}
  /\ left = [f \in File |-> {}]

-----------------------------------------------------------------------------
(* Bytecode and test runs.                                                 *)

Size(faults) == faults \ SizePreserving

\* CPython's test, and pytest's: the stamp in whole seconds, and the size.
IsValid(f) ==
  /\ cache[f] # NoCache
  /\ cache[f].stamp = stamp[f]
  /\ Size(cache[f].text) = Size(text[f])

Load(f) == IF IsValid(f) THEN cache[f].text ELSE text[f]

Does(fault) == effect[fault]

\* The loader keeps the bytecode of what it compiled.
Compiled(seen) ==
  [f \in File |-> IF f \in seen /\ ~\E d \in Load(f) : Does(d) = "unparsable"
                  THEN [text |-> Load(f), stamp |-> stamp[f]] ELSE cache[f]]

\* What pytest says of tests that loaded these faults: its exit status, and
\* whether its summary names failures and errors.
Report(faults) ==
  LET done == {Does(d) : d \in faults}
  IN  CASE "unparsable" \in done -> [status |-> 2, failed |-> FALSE, errors |-> TRUE]
        [] "unparsable" \notin done /\ "errs" \in done ->
             [status |-> 1, failed |-> "fails" \in done, errors |-> TRUE]
        [] done \cap {"unparsable", "errs"} = {} /\ "fails" \in done ->
             [status |-> 1, failed |-> TRUE, errors |-> FALSE]
        [] OTHER -> [status |-> 0, failed |-> FALSE, errors |-> FALSE]

ReportOf(c) == Report(UNION {loaded[f] : f \in Sees[c]})

\* Mutant: any exit that is not zero is a fired control.
AnyFailure(report) == IF report.status = 0 THEN "GREEN" ELSE "FIRED"

\* verdict: tests ran and failed, and neither the runner, a fixture nor the
\* collection crashed.  An exception in the body of a test is a failure to pytest.
Verdict(report) ==
  IF report.status = 0 THEN "GREEN"
  ELSE IF report.status # 1 \/ ~report.failed \/ report.errors THEN "CRASHED"
  ELSE "FIRED"

-----------------------------------------------------------------------------
(* plant.py.                                                               *)

\* How an anchor is found: once, in a file without its fault, and once more in
\* one whose fault keeps it; never in an empty file.
AnchorLives(c) ==
  /\ Cut \notin text[FileOf[c]]
  /\ c \notin text[FileOf[c]] \/ c \in KeepsAnchor

\* write_text: the file's time is now.
WriteText(f, faults) ==
  /\ text' = [text EXCEPT ![f] = faults]
  /\ stamp' = [stamp EXCEPT ![f] = clock]
  /\ UNCHANGED cache

\* write_text raises, an interrupt or an error of the disk: before the file is
\* open, or once opening it has emptied it.
CutOff(f) == UNCHANGED files \/ WriteText(f, {Cut})

\* Past the times of the process's earlier writes.
Later(f) == clock + process.writes

\* Mutant: the stamp alone is moved on.
AdvanceOnly(f) ==
  /\ stamp' = [stamp EXCEPT ![f] = Later(f)]
  /\ UNCHANGED <<text, cache>>

\* The rest of _write: a time past the cached one, and the bytecode deleted
\* under the name Python gives it, which is not the name pytest gives.
Settle(f) ==
  /\ stamp' = [stamp EXCEPT ![f] = Later(f)]
  /\ cache' = [cache EXCEPT ![f] = IF f \in Rewritten THEN @ ELSE NoCache]
  /\ UNCHANGED text

-----------------------------------------------------------------------------
(* fail_controls.py, in its process.                                       *)

At(place) == process.at = place
GoTo(place) == process' = [process EXCEPT !.at = place]
Subject == FileOf[process.c]

\* The process is between its plant and the verified restore.
Planting == process.at \in {"planted", "red", "restore", "restored"}

\* The process ends where it is, and what it has planted in stays as it is.
Stops ==
  /\ process' = NoProcess
  /\ left' = [f \in File |-> IF Planting /\ f = Subject THEN left[f] \cup text'[f] ELSE left[f]]

\* check_anchors comes first: a dead one ends the run before any control.
Start ==
  /\ At("none")
  /\ \A c \in Control : AnchorLives(c)
  /\ GoTo("next")
  /\ UNCHANGED <<effect, files, clock, loaded, counted, left>>

Choose(c) ==
  /\ At("next")
  /\ process.writes + 2 <= MaxWrites
  /\ process' = [process EXCEPT !.at = "green", !.c = c]
  /\ UNCHANGED <<effect, files, clock, loaded, counted, left>>

\* The tests of the control, in a fresh interpreter.
RunTests(next) ==
  /\ loaded' = [f \in File |-> IF f \in Sees[process.c] THEN Load(f) ELSE {}]
  /\ cache' = Compiled(Sees[process.c])
  /\ GoTo(next)
  /\ UNCHANGED <<effect, text, stamp, clock, counted, left>>

Green == At("green") /\ RunTests("plant")

\* UNMEASURED: the tests fail before anything is planted, or none of them ran,
\* which pytest ends with a status of its own.
Unmeasured ==
  /\ At("plant")
  /\ ReportOf(process.c).status # 0
  /\ GoTo("next")
  /\ UNCHANGED <<effect, files, clock, loaded, counted, left>>

\* The tests are green and planted() finds the anchor.
Ready ==
  /\ At("plant")
  /\ ReportOf(process.c).status = 0
  /\ AnchorLives(process.c)

Plant ==
  /\ Ready
  /\ WriteText(Subject, text[Subject] \cup {process.c})
  /\ process' = [process EXCEPT !.at = "planted", !.writes = @ + 1, !.original = text[Subject]]
  /\ UNCHANGED <<effect, clock, loaded, counted, left>>

\* The write of the plant is inside the try: when it raises, the finally restores.
PlantRaises ==
  /\ Ready
  /\ CutOff(Subject)
  /\ process' = [process EXCEPT !.at = "restore", !.writes = @ + 1, !.original = text[Subject],
                               !.raised = TRUE]
  /\ UNCHANGED <<effect, clock, loaded, counted, left>>

SettlePlant ==
  /\ At("planted")
  /\ Settle(Subject)
  /\ GoTo("red")
  /\ UNCHANGED <<effect, clock, loaded, counted, left>>

Red == At("red") /\ RunTests("restore")

\* Mutant: the restore is not in a finally.
GivesUp == process' = NoProcess /\ UNCHANGED files

\* An exception inside the try of planted() goes through its finally, and on.
Unwinds ==
  /\ process' = [process EXCEPT !.at = "restore", !.raised = TRUE]
  /\ UNCHANGED files

\* The operator interrupts the run, or the tests cannot be run: from the plant on
\* and before the finally.
Interrupt ==
  /\ process.at \in {"planted", "red", "restore"} /\ ~process.raised
  /\ Unwinds
  /\ UNCHANGED <<effect, clock, loaded, counted, left>>

Restore ==
  /\ At("restore")
  /\ WriteText(Subject, process.original)
  /\ process' = [process EXCEPT !.at = "restored", !.writes = @ + 1]
  /\ UNCHANGED <<effect, clock, loaded, counted, left>>

\* The finally is protected by nothing: an interrupt of the restoring write, or
\* its failure, ends the process, with the fault in the file or with no text.
RestoreRaises ==
  /\ At("restore")
  /\ CutOff(Subject)
  /\ Stops
  /\ UNCHANGED <<effect, clock, loaded, counted>>

\* The restoring write fails and does not say so.
RestoreIsLost ==
  /\ At("restore")
  /\ CutOff(Subject)
  /\ process' = [process EXCEPT !.at = "restored", !.writes = @ + 1]
  /\ UNCHANGED <<effect, clock, loaded, counted, left>>

\* Mutant: the restore is assumed.
Assumed == TRUE

\* The restore is verified: the file reads as it did.
Verified == text[Subject] = process.original

SettleRestore ==
  /\ At("restored")
  /\ Verified
  /\ Settle(Subject)
  /\ process' = IF process.raised THEN NoProcess
                ELSE [process EXCEPT !.at = "judge"]
  /\ UNCHANGED <<effect, clock, loaded, counted, left>>

\* The AssertionError that says the file was not restored.
NotRestored ==
  /\ At("restored")
  /\ ~Verified
  /\ Settle(Subject)
  /\ Stops
  /\ UNCHANGED <<effect, clock, loaded, counted>>

\* The report of the red run is judged and the next control runs.
Judge ==
  /\ At("judge")
  /\ counted' = counted \cup (IF Verdict(ReportOf(process.c)) = "FIRED" THEN {process.c} ELSE {})
  /\ GoTo("next")
  /\ UNCHANGED <<effect, files, clock, loaded, left>>

Finish ==
  /\ At("next")
  /\ process' = NoProcess
  /\ UNCHANGED <<effect, files, clock, loaded, counted, left>>

\* A signal no handler sees; outside the try an interrupt does the same.
Kill ==
  /\ process # NoProcess
  /\ UNCHANGED files
  /\ Stops
  /\ UNCHANGED <<effect, clock, loaded, counted>>

-----------------------------------------------------------------------------

\* Somebody restores a file by hand, with an editor that deletes no bytecode.
Repair(f) ==
  /\ At("none")
  /\ text[f] # {}
  /\ WriteText(f, {})
  /\ left' = [left EXCEPT ![f] = {}]
  /\ UNCHANGED <<effect, clock, process, loaded, counted>>

Tick ==
  /\ clock < MaxClock
  /\ clock' = clock + 1
  /\ UNCHANGED <<effect, files, process, loaded, counted, left>>

Next ==
  \/ Start
  \/ \E c \in Control : Choose(c)
  \/ Green
  \/ Unmeasured
  \/ Plant
  \/ PlantRaises
  \/ SettlePlant
  \/ Red
  \/ Interrupt
  \/ Restore
  \/ RestoreRaises
  \/ RestoreIsLost
  \/ SettleRestore
  \/ NotRestored
  \/ Judge
  \/ Finish
  \/ Kill
  \/ \E f \in File : Repair(f)
  \/ Tick

Spec == Init /\ [][Next]_vars

-----------------------------------------------------------------------------
(* What the instrument may be trusted with.                                *)

\* A control is reported as fired only if its own fault made tests fail: never for
\* a runner, a fixture or a collection that crashed, a fault left behind by another
\* run or the bytecode of another text.
CountedMeansNoticed == \A c \in counted : effect[c] = "fails"

\* The red run executes the planted file as it is on disk: bytecode that does
\* not exist cannot be served stale.
RedRunLoadsThePlant ==
  At("restore") /\ ~process.raised => loaded[Subject] = text[Subject]

\* A process that ends by itself, or by an exception before its restore (in the
\* write of the plant, between it and the tests, in the tests), has put the tree
\* back, and one that goes on to its next control too.  Outside a plant under way a
\* file holds only what a process left in it that was killed over it, or that its
\* restore ended by an exception: what raised there, or what says "NOT restored".
OnlyACutOffRunLeavesAFault ==
  \A f \in File :
    text[f] \subseteq left[f] \cup (IF Planting /\ f = Subject THEN {process.c, Cut} ELSE {})
=============================================================================
