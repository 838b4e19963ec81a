------------------------------ MODULE Command ------------------------------
(***************************************************************************)
(* One command of the command line from its first line to its exit status, *)
(* with the connection it runs over and the server at the other end: what  *)
(* an operator who reads only the status may conclude about the store.     *)
(*                                                                         *)
(* The runs here are of two kinds.  A "spend" presents one and the same    *)
(* token (confirm-email-change, consume-password-reset), the operator's    *)
(* reruns included; a "verify" is verify-password.  The server applies a   *)
(* commit it has received whether or not the client lives to be told.      *)
(***************************************************************************)
EXTENDS Naturals, FiniteSets

CONSTANT Run     \* invocations of the command line

ASSUME RunsAreFinite == IsFiniteSet(Run)

Door == {"spend", "verify"}

NoExit    == "running"
Killed    == "killed"
Traceback == "traceback"   \* an exception nobody caught; the status is 1
ExitDone  == "0"
ExitNotVerified    == "1"
ExitConfiguration  == "2"
ExitRefusedRequest == "3"

VARIABLES
  door,     \* what each run was asked to do
  at,       \* where in _run each run is
  exit,     \* its exit status
  printed,  \* the runs that printed their answer
  used,     \* the runs refused because the token was spent already
  line,     \* each run's connection, seen from the client
  server    \* its transaction, seen from the server

vars == <<door, at, exit, printed, used, line, server>>

TypeOK ==
  /\ door \in [Run -> Door]
  /\ at \in [Run -> {"start", "connected", "commit", "awaiting", "answer", "print",
                     "refused", "failed", "over"}]
  /\ exit \in [Run -> {NoExit, Killed, Traceback, ExitDone, ExitNotVerified,
                       ExitConfiguration, ExitRefusedRequest}]
  /\ printed \subseteq Run
  /\ used \subseteq Run
  /\ line \in [Run -> {"none", "up", "lost"}]
  /\ server \in [Run -> {"none", "open", "locked", "committing", "committed", "aborted"}]

Init ==
  /\ door \in [Run -> Door]
  /\ at = [i \in Run |-> "start"]
  /\ exit = [i \in Run |-> NoExit]
  /\ printed = {}
  /\ used = {}
  /\ line = [i \in Run |-> "none"]
  /\ server = [i \in Run |-> "none"]

\* Mutant: the second of two runs does not wait for the first.
NobodyWaits(i) == TRUE

\* The customer's row is locked by a transaction the server has not ended.
RowIsFree(i) == \A j \in Run \ {i} : server[j] \notin {"locked", "committing"}

TokenIsSpent == \E j \in Run : door[j] = "spend" /\ server[j] = "committed"

Exit(i, status) ==
  /\ exit' = [exit EXCEPT ![i] = status]
  /\ at' = [at EXCEPT ![i] = "over"]

GoTo(i, place) == at' = [at EXCEPT ![i] = place] /\ UNCHANGED exit

\* The server ends a transaction that has not committed.
RolledBack(i) ==
  server' = [server EXCEPT ![i] = IF @ = "none" THEN "none" ELSE "aborted"]

-----------------------------------------------------------------------------
(* The body of _run.                                                       *)

\* No DSN, or a database that does not connect.
NotConfigured(i) ==
  /\ at[i] = "start"
  /\ Exit(i, ExitConfiguration)
  /\ UNCHANGED <<door, printed, used, line, server>>

Connect(i) ==
  /\ at[i] = "start"
  /\ line' = [line EXCEPT ![i] = "up"]
  /\ server' = [server EXCEPT ![i] = "open"]
  /\ GoTo(i, "connected")
  /\ UNCHANGED <<door, printed, used>>

\* The door of a spend: it waits for the row, then returns or is refused.
SpendDoor(i) ==
  /\ at[i] = "connected" /\ line[i] = "up" /\ door[i] = "spend"
  /\ RowIsFree(i)
  /\ server' = [server EXCEPT ![i] = "locked"]
  /\ IF TokenIsSpent
     THEN GoTo(i, "refused") /\ used' = used \cup {i}
     ELSE GoTo(i, "commit") /\ UNCHANGED used
  /\ UNCHANGED <<door, printed, line>>

\* verify_password locks nothing and comes back with one of its outcomes.
VerifyDoor(i) ==
  /\ at[i] = "connected" /\ line[i] = "up" /\ door[i] = "verify"
  /\ GoTo(i, "answer")
  /\ UNCHANGED <<door, printed, used, line, server>>

\* Anything else a request can be refused for, before or inside the door.
OtherRefusal(i) ==
  /\ at[i] = "connected"
  /\ GoTo(i, "refused")
  /\ UNCHANGED <<door, printed, used, line, server>>

\* The driver raises: the server said no, or there is nobody at the other end.
DriverError(i) ==
  /\ at[i] \in {"connected", "commit"}
  /\ GoTo(i, "failed")
  /\ UNCHANGED <<door, printed, used, line, server>>

\* Mutant: the answer does not wait for the commit to return.
SendAndAnswer(i) ==
  /\ at[i] = "commit" /\ line[i] = "up"
  /\ server' = [server EXCEPT ![i] = "committing"]
  /\ GoTo(i, "print")
  /\ UNCHANGED <<door, printed, used, line>>

\* connection.commit() is sent ...
SendCommit(i) ==
  /\ at[i] = "commit" /\ line[i] = "up"
  /\ server' = [server EXCEPT ![i] = "committing"]
  /\ GoTo(i, "awaiting")
  /\ UNCHANGED <<door, printed, used, line>>

\* ... and answered, or the server refuses it, or the answer never arrives.
CommitReturns(i) ==
  /\ at[i] = "awaiting"
  /\ \/ line[i] = "up" /\ server[i] = "committed" /\ GoTo(i, "print")
     \/ line[i] = "up" /\ server[i] = "aborted" /\ GoTo(i, "failed")
     \/ line[i] = "lost" /\ GoTo(i, "failed")
  /\ UNCHANGED <<door, printed, used, line, server>>

\* verify-password writes nothing: it rolls back before it answers.
AnswerVerify(i) ==
  /\ at[i] = "answer"
  /\ \/ line[i] = "up" /\ RolledBack(i) /\ GoTo(i, "print")
     \/ line[i] = "lost" /\ GoTo(i, "failed") /\ UNCHANGED server
  /\ UNCHANGED <<door, printed, used, line>>

Answer(i) ==
  /\ at[i] = "print"
  /\ printed' = printed \cup {i}
  /\ \E status \in IF door[i] = "verify" THEN {ExitDone, ExitNotVerified} ELSE {ExitDone} :
       Exit(i, status)
  /\ UNCHANGED <<door, used, line, server>>

\* Mutant: a rollback that raises is passed over and the status stands.
RollbackIgnored(i, place, status) ==
  /\ at[i] = place
  /\ Exit(i, status)
  /\ \/ line[i] = "up" /\ RolledBack(i)
     \/ line[i] = "lost" /\ UNCHANGED server
  /\ UNCHANGED <<door, printed, used, line>>

\* Both handlers roll back first.  Over a lost connection the rollback raises,
\* out of the handler and past the other one.
Handle(i, place, status) ==
  /\ at[i] = place
  /\ \/ line[i] = "up" /\ RolledBack(i) /\ Exit(i, status)
     \/ line[i] = "lost" /\ Exit(i, Traceback) /\ UNCHANGED server
  /\ UNCHANGED <<door, printed, used, line>>

HandleRefused(i) == Handle(i, "refused", ExitRefusedRequest)
HandleError(i) == Handle(i, "failed", ExitConfiguration)

-----------------------------------------------------------------------------
(* The world around it.                                                    *)

\* The server dies, an administrator ends the session, the network goes.
LoseLine(i) ==
  /\ line[i] = "up" /\ at[i] # "over"
  /\ line' = [line EXCEPT ![i] = "lost"]
  /\ UNCHANGED <<door, at, exit, printed, used, server>>

\* The process is killed, at any line of it.
Kill(i) ==
  /\ at[i] # "over"
  /\ Exit(i, Killed)
  /\ line' = [line EXCEPT ![i] = IF @ = "none" THEN "none" ELSE "lost"]
  /\ UNCHANGED <<door, printed, used, server>>

\* A commit the server has received it applies, client or no client.
ServerCommits(i) ==
  /\ server[i] = "committing"
  /\ server' = [server EXCEPT ![i] = "committed"]
  /\ UNCHANGED <<door, at, exit, printed, used, line>>

\* Mutant: a transaction whose client is gone keeps its row.
AbortsCommitsOnly(i) ==
  /\ server[i] = "committing"
  /\ RolledBack(i)
  /\ UNCHANGED <<door, at, exit, printed, used, line>>

\* Or it ends the transaction: a commit that failed, a client that is gone.
ServerAborts(i) ==
  /\ \/ server[i] = "committing"
     \/ server[i] \in {"open", "locked"} /\ line[i] = "lost"
  /\ RolledBack(i)
  /\ UNCHANGED <<door, at, exit, printed, used, line>>

-----------------------------------------------------------------------------

Client(i) ==
  \/ NotConfigured(i)
  \/ Connect(i)
  \/ SpendDoor(i)
  \/ VerifyDoor(i)
  \/ OtherRefusal(i)
  \/ DriverError(i)
  \/ SendCommit(i)
  \/ CommitReturns(i)
  \/ AnswerVerify(i)
  \/ Answer(i)
  \/ HandleRefused(i)
  \/ HandleError(i)

Server(i) == ServerCommits(i) \/ ServerAborts(i)

Next == \E i \in Run : Client(i) \/ Server(i) \/ LoseLine(i) \/ Kill(i)

Spec == Init /\ [][Next]_vars

(***************************************************************************)
(* A process that can go on does, and finds out in the end that nobody is  *)
(* at the other end of its line; no refusal and no error is owed to it.    *)
(* The server ends what it has in hand, the transaction of a client that   *)
(* is gone included.                                                       *)
(***************************************************************************)
GoesOn(i) ==
  \/ Connect(i) \/ SpendDoor(i) \/ VerifyDoor(i)
  \/ SendCommit(i) \/ CommitReturns(i) \/ AnswerVerify(i) \/ Answer(i)
  \/ HandleRefused(i) \/ HandleError(i)
  \/ line[i] = "lost" /\ DriverError(i)

FairSpec == Spec /\ \A i \in Run : WF_vars(GoesOn(i)) /\ WF_vars(Server(i))

-----------------------------------------------------------------------------
(* What an exit status says.                                               *)

\* Of a command that writes: what was printed was written before, so that no
\* token reaches an operator from a transaction the store went on to forget; and
\* status 0 says that it was printed.
DoneMeansWritten ==
  \A i \in Run : door[i] = "spend" =>
    /\ i \in printed => server[i] = "committed"
    /\ exit[i] = ExitDone => i \in printed

\* Status 2 and status 3: nothing was written and nothing will be, so the
\* command may be run again.
StoppedMeansNothingWritten ==
  \A i \in Run : exit[i] \in {ExitConfiguration, ExitRefusedRequest} =>
    server[i] \in {"none", "aborted"}

\* Whatever was killed or cut off between the commit and its acknowledgement:
\* once a run exits 0, or is refused because the token is used, the token was
\* spent by exactly one run.
SpentExactlyOnce ==
  LET spenders == {i \in Run : door[i] = "spend" /\ server[i] = "committed"}
  IN  /\ Cardinality(spenders) <= 1
      /\ \A i \in Run : (exit[i] = ExitDone /\ door[i] = "spend") \/ i \in used =>
           Cardinality(spenders) = 1

\* Every run ends, behind whichever lost run still holds the customer's row.
EveryRunEnds == \A i \in Run : <>(at[i] = "over")

\* The claim of the command line: whatever the driver raises, a refusal or a
\* sentence, never a traceback.
NeverATraceback == \A i \in Run : exit[i] # Traceback
=============================================================================
