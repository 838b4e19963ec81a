---------------------------- MODULE CommandProofs ----------------------------
(***************************************************************************)
(* Theorems about Command, for any number of runs: what the exit status    *)
(* and the printed answer say of the store, whoever is killed or cut off   *)
(* between the commit and its acknowledgement.                             *)
(*                                                                         *)
(* After them those about Rules, whose values the command line takes in:   *)
(* texts of any length, instants and windows of any size, command lines of *)
(* any length, and every declaration of a table.                           *)
(***************************************************************************)
EXTENDS Command, Rules, FiniteSetTheorems, SequenceTheorems, TLAPS

-----------------------------------------------------------------------------
(* The inductive invariant.                                                *)

\* Where the client is tells what its transaction can be at the server.  While
\* the line is up the server ends nothing on its own but a commit it received.
PlaceOK(i) ==
  /\ at[i] = "start" => line[i] = "none" /\ server[i] = "none"
  /\ at[i] \notin {"start", "over"} => line[i] # "none" /\ server[i] # "none"
  /\ at[i] = "connected" =>
       server[i] \in {"open", "aborted"} /\ (line[i] = "up" => server[i] = "open")
  /\ at[i] = "commit" =>
       /\ door[i] = "spend"
       /\ server[i] \in {"locked", "aborted"} /\ (line[i] = "up" => server[i] = "locked")
  /\ at[i] = "awaiting" =>
       door[i] = "spend" /\ server[i] \in {"committing", "committed", "aborted"}
  /\ at[i] = "answer" => door[i] = "verify" /\ server[i] \in {"open", "aborted"}
  /\ at[i] = "print" => IF door[i] = "spend" THEN server[i] = "committed"
                                             ELSE server[i] = "aborted"
  /\ at[i] = "refused" => server[i] \in {"open", "locked", "aborted"}
  /\ at[i] = "failed" /\ line[i] = "up" => server[i] \in {"open", "locked", "aborted"}

\* What a run has said stays so: nothing of it is left for the server to do.
StatusOK(i) ==
  /\ at[i] # "over" => exit[i] = NoExit /\ i \notin printed
  /\ exit[i] \in {ExitConfiguration, ExitRefusedRequest} => server[i] \in {"none", "aborted"}
  /\ exit[i] = ExitDone /\ door[i] = "spend" => i \in printed
  /\ i \in printed /\ door[i] = "spend" => server[i] = "committed"

\* The row has one holder, and whoever will write the token or has written it
\* is the only one.
OneSpender ==
  \A i, j \in Run : i # j =>
    /\ server[i] \in {"locked", "committing"} => server[j] \notin {"locked", "committing"}
    /\ server[i] = "committed" =>
         /\ server[j] \notin {"committing", "committed"}
         /\ ~(server[j] = "locked" /\ at[j] = "commit")

OnlySpendsCommit ==
  \A i \in Run : server[i] \in {"locked", "committing", "committed"} => door[i] = "spend"

UsedMeansSpent == used # {} => TokenIsSpent

IInv ==
  /\ TypeOK
  /\ \A i \in Run : PlaceOK(i) /\ StatusOK(i)
  /\ OneSpender
  /\ OnlySpendsCommit
  /\ UsedMeansSpent

-----------------------------------------------------------------------------
(* The steps.                                                              *)

\* A transaction that will write the token, or has.
Writes(i) ==
  server[i] \in {"committing", "committed"} \/ (server[i] = "locked" /\ at[i] = "commit")

\* No two exit statuses are one.
LEMMA Statuses ==
  /\ NoExit \notin {Killed, Traceback, ExitDone, ExitNotVerified, ExitConfiguration,
                    ExitRefusedRequest}
  /\ {Killed, Traceback, ExitNotVerified} \cap
       {ExitDone, ExitConfiguration, ExitRefusedRequest} = {}
  /\ ExitDone \notin {ExitConfiguration, ExitRefusedRequest}
BY DEF NoExit, Killed, Traceback, ExitDone, ExitNotVerified, ExitConfiguration, ExitRefusedRequest

\* A step of one run leaves every other run where it is.  It keeps the
\* invariant when its own run fits it and takes nothing another one has.
LEMMA OneRunMoves ==
  ASSUME IInv, NEW i \in Run, TypeOK', door' = door,
         \A j \in Run \ {i} : /\ at'[j] = at[j] /\ exit'[j] = exit[j] /\ line'[j] = line[j]
                              /\ server'[j] = server[j] /\ (j \in printed' <=> j \in printed),
         PlaceOK(i)', StatusOK(i)',
         server'[i] \in {"locked", "committing", "committed"} => door[i] = "spend",
         server'[i] \in {"locked", "committing"} =>
           \A j \in Run \ {i} : server[j] \notin {"locked", "committing"},
         Writes(i)' => \A j \in Run \ {i} : server[j] # "committed",
         server'[i] = "committed" => \A j \in Run \ {i} : ~Writes(j),
         used' # {} => TokenIsSpent'
  PROVE  IInv'
<1>1. ASSUME NEW j \in Run
      PROVE  PlaceOK(j)' /\ StatusOK(j)'
  <2>1. CASE j = i
    BY <2>1
  <2>2. CASE j # i
    <3>1. PlaceOK(j) /\ StatusOK(j)
      BY DEF IInv
    <3> QED
      BY <2>2, <3>1 DEF PlaceOK, StatusOK
  <2> QED
    BY <2>1, <2>2
<1>2. OneSpender'
  <2> SUFFICES ASSUME NEW j \in Run, NEW k \in Run, j # k
               PROVE  /\ server'[j] \in {"locked", "committing"} =>
                           server'[k] \notin {"locked", "committing"}
                      /\ server'[j] = "committed" => ~Writes(k)'
    BY DEF OneSpender, Writes
  <2>1. CASE j = i
    BY <2>1 DEF Writes
  <2>2. CASE k = i
    BY <2>2 DEF Writes
  <2>3. CASE j # i /\ k # i
    BY <2>3 DEF Writes, IInv, OneSpender
  <2> QED
    BY <2>1, <2>2, <2>3
<1>3. OnlySpendsCommit'
  BY DEF IInv, OnlySpendsCommit
<1>4. UsedMeansSpent'
  BY DEF UsedMeansSpent
<1> QED
  BY <1>1, <1>2, <1>3, <1>4 DEF IInv

\* A step of one run that leaves its transaction as it is, and does not bring
\* it to the commit.
LEMMA OneRunMovesOn ==
  ASSUME IInv, NEW i \in Run, TypeOK', door' = door, server' = server, used' = used,
         \A j \in Run \ {i} : /\ at'[j] = at[j] /\ exit'[j] = exit[j] /\ line'[j] = line[j]
                              /\ (j \in printed' <=> j \in printed),
         at'[i] = "commit" => at[i] = "commit",
         PlaceOK(i)', StatusOK(i)'
  PROVE  IInv'
<1>1. used' # {} => TokenIsSpent'
  BY DEF IInv, UsedMeansSpent, TokenIsSpent
<1>2. server[i] \in {"locked", "committing", "committed"} => door[i] = "spend"
  BY DEF IInv, OnlySpendsCommit
<1>3. server[i] \in {"locked", "committing"} =>
        \A j \in Run \ {i} : server[j] \notin {"locked", "committing"}
  BY DEF IInv, OneSpender
<1>4. Writes(i)' => \A j \in Run \ {i} : server[j] # "committed"
  BY DEF IInv, OneSpender, Writes
<1>5. server[i] = "committed" => \A j \in Run \ {i} : ~Writes(j)
  BY DEF IInv, OneSpender, Writes
<1> QED
  BY <1>1, <1>2, <1>3, <1>4, <1>5, OneRunMoves

\* A transaction that ends at the server without a commit.
LEMMA OneRunRollsBack ==
  ASSUME IInv, NEW i \in Run, TypeOK', door' = door, used' = used,
         \A j \in Run \ {i} : /\ at'[j] = at[j] /\ exit'[j] = exit[j] /\ line'[j] = line[j]
                              /\ server'[j] = server[j] /\ (j \in printed' <=> j \in printed),
         server[i] # "committed", server'[i] \in {"none", "open", "aborted"},
         PlaceOK(i)', StatusOK(i)'
  PROVE  IInv'
<1>1. used' # {} => TokenIsSpent'
  BY DEF IInv, UsedMeansSpent, TokenIsSpent
<1> QED
  BY <1>1, OneRunMoves DEF Writes

\* There is nothing to connect to, or it does not connect.
LEMMA NotConfiguredKeepsIInv ==
  ASSUME IInv, NEW i \in Run, NotConfigured(i)
  PROVE  IInv'
<1> USE DEF NotConfigured, Exit
<1>1. TypeOK'
  BY DEF IInv, TypeOK, Door
<1>2. PlaceOK(i)' /\ StatusOK(i)'
  BY Statuses DEF IInv, TypeOK, PlaceOK, StatusOK, Door
<1> QED
  BY <1>1, <1>2, OneRunMovesOn DEF IInv, TypeOK

\* The connection opens a transaction.
LEMMA ConnectKeepsIInv ==
  ASSUME IInv, NEW i \in Run, Connect(i)
  PROVE  IInv'
<1> USE DEF Connect, GoTo
<1>1. TypeOK'
  BY DEF IInv, TypeOK, Door
<1>2. PlaceOK(i)' /\ StatusOK(i)'
  BY Statuses DEF IInv, TypeOK, PlaceOK, StatusOK, Door
<1>3. server[i] = "none" /\ server'[i] = "open"
  BY DEF IInv, TypeOK, PlaceOK
<1> QED
  BY <1>1, <1>2, <1>3, OneRunRollsBack DEF IInv, TypeOK

\* The password is looked at.
LEMMA VerifyDoorKeepsIInv ==
  ASSUME IInv, NEW i \in Run, VerifyDoor(i)
  PROVE  IInv'
<1> USE DEF VerifyDoor, GoTo
<1>1. TypeOK'
  BY DEF IInv, TypeOK, Door
<1>2. PlaceOK(i)' /\ StatusOK(i)'
  BY Statuses DEF IInv, TypeOK, PlaceOK, StatusOK, Door
<1> QED
  BY <1>1, <1>2, OneRunMovesOn DEF IInv, TypeOK

\* The request is refused for something else.
LEMMA OtherRefusalKeepsIInv ==
  ASSUME IInv, NEW i \in Run, OtherRefusal(i)
  PROVE  IInv'
<1> USE DEF OtherRefusal, GoTo
<1>1. TypeOK'
  BY DEF IInv, TypeOK, Door
<1>2. PlaceOK(i)' /\ StatusOK(i)'
  BY Statuses DEF IInv, TypeOK, PlaceOK, StatusOK, Door
<1> QED
  BY <1>1, <1>2, OneRunMovesOn DEF IInv, TypeOK

\* The driver raises.
LEMMA DriverErrorKeepsIInv ==
  ASSUME IInv, NEW i \in Run, DriverError(i)
  PROVE  IInv'
<1> USE DEF DriverError, GoTo
<1>1. TypeOK'
  BY DEF IInv, TypeOK, Door
<1>2. PlaceOK(i)' /\ StatusOK(i)'
  BY Statuses DEF IInv, TypeOK, PlaceOK, StatusOK, Door
<1> QED
  BY <1>1, <1>2, OneRunMovesOn DEF IInv, TypeOK

\* The commit is answered, or nobody is there to answer.
LEMMA CommitReturnsKeepsIInv ==
  ASSUME IInv, NEW i \in Run, CommitReturns(i)
  PROVE  IInv'
<1> USE DEF CommitReturns, GoTo
<1>1. TypeOK'
  BY DEF IInv, TypeOK, Door
<1>2. PlaceOK(i)' /\ StatusOK(i)'
  BY Statuses DEF IInv, TypeOK, PlaceOK, StatusOK, Door
<1> QED
  BY <1>1, <1>2, OneRunMovesOn DEF IInv, TypeOK

\* The answer is printed and the run ends.
LEMMA AnswerKeepsIInv ==
  ASSUME IInv, NEW i \in Run, Answer(i)
  PROVE  IInv'
<1> USE DEF Answer, Exit
<1>1. TypeOK'
  BY DEF IInv, TypeOK, Door
<1>2. PlaceOK(i)' /\ StatusOK(i)'
  BY Statuses DEF IInv, TypeOK, PlaceOK, StatusOK, Door
<1> QED
  BY <1>1, <1>2, OneRunMovesOn DEF IInv, TypeOK

\* The connection is lost.
LEMMA LoseLineKeepsIInv ==
  ASSUME IInv, NEW i \in Run, LoseLine(i)
  PROVE  IInv'
<1> USE DEF LoseLine
<1>1. TypeOK'
  BY DEF IInv, TypeOK, Door
<1>2. PlaceOK(i)' /\ StatusOK(i)'
  BY Statuses DEF IInv, TypeOK, PlaceOK, StatusOK, Door
<1> QED
  BY <1>1, <1>2, OneRunMovesOn DEF IInv, TypeOK

\* The process is killed.
LEMMA KillKeepsIInv ==
  ASSUME IInv, NEW i \in Run, Kill(i)
  PROVE  IInv'
<1> USE DEF Kill, Exit
<1>1. TypeOK'
  BY DEF IInv, TypeOK, Door
<1>2. PlaceOK(i)' /\ StatusOK(i)'
  BY Statuses DEF IInv, TypeOK, PlaceOK, StatusOK, Door
<1> QED
  BY <1>1, <1>2, OneRunMovesOn DEF IInv, TypeOK

\* The door of a spend takes the row when nobody has it; it goes on only where
\* nobody has spent the token.
LEMMA SpendDoorKeepsIInv ==
  ASSUME IInv, NEW i \in Run, SpendDoor(i)
  PROVE  IInv'
<1> USE DEF SpendDoor, GoTo
<1>1. TypeOK'
  BY DEF IInv, TypeOK
<1>2. PlaceOK(i)' /\ StatusOK(i)'
  BY Statuses DEF IInv, TypeOK, PlaceOK, StatusOK
<1>3. \A j \in Run \ {i} : server[j] \notin {"locked", "committing"}
  BY DEF RowIsFree
<1>4. Writes(i)' => \A j \in Run \ {i} : server[j] # "committed"
  <2>1. Writes(i)' => ~TokenIsSpent
    BY DEF Writes, IInv, TypeOK
  <2> QED
    BY <2>1 DEF TokenIsSpent, IInv, OnlySpendsCommit
<1>5. server[i] = "open" /\ server'[i] = "locked"
  BY DEF IInv, TypeOK, PlaceOK
<1>6. used' # {} => TokenIsSpent'
  <2>1. TokenIsSpent => TokenIsSpent'
    BY <1>5 DEF TokenIsSpent, IInv, TypeOK
  <2> QED
    BY <2>1 DEF IInv, UsedMeansSpent
<1> QED
  BY <1>1, <1>2, <1>3, <1>4, <1>5, <1>6, OneRunMoves DEF IInv, TypeOK

\* The commit goes out from the one run that has the row.
LEMMA SendCommitKeepsIInv ==
  ASSUME IInv, NEW i \in Run, SendCommit(i)
  PROVE  IInv'
<1> USE DEF SendCommit, GoTo
<1>1. TypeOK'
  BY DEF IInv, TypeOK
<1>2. PlaceOK(i)' /\ StatusOK(i)'
  BY Statuses DEF IInv, TypeOK, PlaceOK, StatusOK
<1>3. server[i] = "locked" /\ server'[i] = "committing" /\ door[i] = "spend" /\ Writes(i)
  BY DEF IInv, TypeOK, PlaceOK, Writes
<1>4. \A j \in Run \ {i} : server[j] \notin {"locked", "committing", "committed"}
  BY <1>3 DEF IInv, OneSpender
<1>5. used' # {} => TokenIsSpent'
  BY <1>3 DEF IInv, TypeOK, UsedMeansSpent, TokenIsSpent
<1> QED
  BY <1>1, <1>2, <1>3, <1>4, <1>5, OneRunMoves DEF IInv, TypeOK

\* A verification ends its transaction before it answers.
LEMMA AnswerVerifyKeepsIInv ==
  ASSUME IInv, NEW i \in Run, AnswerVerify(i)
  PROVE  IInv'
<1> USE DEF AnswerVerify, GoTo, RolledBack
<1>1. TypeOK'
  BY DEF IInv, TypeOK
<1>2. PlaceOK(i)' /\ StatusOK(i)'
  BY Statuses DEF IInv, TypeOK, PlaceOK, StatusOK
<1>3. server[i] # "committed" /\ server'[i] \in {"none", "open", "aborted"}
  BY DEF IInv, TypeOK, PlaceOK
<1> QED
  BY <1>1, <1>2, <1>3, OneRunRollsBack DEF IInv, TypeOK

\* A handler ends the transaction and exits, or cannot reach it and leaves a
\* traceback.
LEMMA HandleKeepsIInv ==
  ASSUME IInv, NEW i \in Run,
         NEW status \in {ExitConfiguration, ExitRefusedRequest},
         \/ Handle(i, "refused", status)
         \/ Handle(i, "failed", status)
  PROVE  IInv'
<1> USE DEF Handle, Exit, RolledBack
<1>1. TypeOK'
  BY DEF IInv, TypeOK
<1>2. PlaceOK(i)' /\ StatusOK(i)'
  BY Statuses DEF IInv, TypeOK, PlaceOK, StatusOK
<1>3. CASE line[i] = "up"
  <2>1. server[i] # "committed" /\ server'[i] \in {"none", "open", "aborted"}
    BY <1>3 DEF IInv, TypeOK, PlaceOK
  <2> QED
    BY <1>1, <1>2, <2>1, OneRunRollsBack DEF IInv, TypeOK
<1>4. CASE line[i] = "lost"
  BY <1>1, <1>2, <1>4, OneRunMovesOn DEF IInv, TypeOK
<1> QED
  BY <1>3, <1>4

\* The server applies the commit of the one run that had the row.
LEMMA ServerCommitsKeepsIInv ==
  ASSUME IInv, NEW i \in Run, ServerCommits(i)
  PROVE  IInv'
<1> USE DEF ServerCommits
<1>1. TypeOK'
  BY DEF IInv, TypeOK
<1>2. PlaceOK(i)' /\ StatusOK(i)'
  BY DEF IInv, TypeOK, PlaceOK, StatusOK
<1>3. server'[i] = "committed" /\ door[i] = "spend"
  BY DEF IInv, TypeOK, OnlySpendsCommit
<1>4. \A j \in Run \ {i} : ~Writes(j) /\ server[j] # "committed"
  BY DEF IInv, OneSpender, Writes
<1>5. TokenIsSpent'
  BY <1>3 DEF TokenIsSpent
<1> QED
  BY <1>1, <1>2, <1>3, <1>4, <1>5, OneRunMoves DEF IInv, TypeOK

\* The server ends a transaction that did not commit.
LEMMA ServerAbortsKeepsIInv ==
  ASSUME IInv, NEW i \in Run, ServerAborts(i)
  PROVE  IInv'
<1> USE DEF ServerAborts, RolledBack
<1>1. TypeOK'
  BY DEF IInv, TypeOK
<1>2. PlaceOK(i)' /\ StatusOK(i)'
  BY DEF IInv, TypeOK, PlaceOK, StatusOK
<1>3. server[i] # "committed" /\ server'[i] \in {"none", "open", "aborted"}
  BY DEF IInv, TypeOK
<1> QED
  BY <1>1, <1>2, <1>3, OneRunRollsBack DEF IInv, TypeOK

-----------------------------------------------------------------------------
(* The invariant, and what follows.                                        *)

\* Before the first line of any run nothing is written.
LEMMA InitIInv == Init => IInv
<1> SUFFICES ASSUME Init PROVE IInv
  OBVIOUS
<1> USE DEF Init
<1>1. TypeOK
  BY DEF TypeOK
<1>2. \A i \in Run : PlaceOK(i) /\ StatusOK(i)
  BY Statuses DEF PlaceOK, StatusOK
<1>3. OneSpender /\ OnlySpendsCommit /\ UsedMeansSpent
  BY DEF OneSpender, OnlySpendsCommit, UsedMeansSpent
<1> QED
  BY <1>1, <1>2, <1>3 DEF IInv

\* Every line of every run, the server's steps and what cuts them off keep it.
LEMMA NextKeepsIInv == IInv /\ [Next]_vars => IInv'
<1> SUFFICES ASSUME IInv, [Next]_vars PROVE IInv'
  OBVIOUS
<1>1. CASE UNCHANGED vars
  BY <1>1 DEF vars, IInv, TypeOK, PlaceOK, StatusOK, OneSpender, OnlySpendsCommit, UsedMeansSpent,
     TokenIsSpent
<1>2. ASSUME NEW i \in Run, Client(i)
      PROVE  IInv'
  <2>1. CASE HandleRefused(i) \/ HandleError(i)
    BY <2>1, HandleKeepsIInv DEF HandleRefused, HandleError
  <2> QED
    BY <1>2, <2>1, NotConfiguredKeepsIInv, ConnectKeepsIInv, SpendDoorKeepsIInv,
       VerifyDoorKeepsIInv, OtherRefusalKeepsIInv, DriverErrorKeepsIInv, SendCommitKeepsIInv,
       CommitReturnsKeepsIInv, AnswerVerifyKeepsIInv, AnswerKeepsIInv DEF Client
<1>3. ASSUME NEW i \in Run, Server(i) \/ LoseLine(i) \/ Kill(i)
      PROVE  IInv'
  BY <1>3, ServerCommitsKeepsIInv, ServerAbortsKeepsIInv, LoseLineKeepsIInv, KillKeepsIInv
     DEF Server
<1> QED
  BY <1>1, <1>2, <1>3 DEF Next

\* The inductive invariant holds of any number of runs.
THEOREM Invariance == Spec => []IInv
<1>1. Init => IInv
  BY InitIInv
<1>2. IInv /\ [Next]_vars => IInv'
  BY NextKeepsIInv
<1> QED
  BY <1>1, <1>2, PTL DEF Spec

\* What a command that writes has printed is committed, and status 0 says that
\* it was printed, whatever happens to the line and the process.
THEOREM DoneIsWritten == Spec => []DoneMeansWritten
<1>1. IInv => DoneMeansWritten
  BY DEF IInv, StatusOK, DoneMeansWritten
<1> QED
  BY <1>1, Invariance, PTL

\* Status 2 and status 3 say that nothing was written and nothing will be.
THEOREM StoppedIsNotWritten == Spec => []StoppedMeansNothingWritten
<1>1. IInv => StoppedMeansNothingWritten
  BY DEF IInv, StatusOK, StoppedMeansNothingWritten
<1> QED
  BY <1>1, Invariance, PTL

\* One token is spent by at most one of any number of runs and reruns, and by
\* exactly one once a run exits 0 or is refused because the token is used.
THEOREM TokenIsSpentOnce == Spec => []SpentExactlyOnce
<1> DEFINE spenders == {i \in Run : door[i] = "spend" /\ server[i] = "committed"}
<1>1. IInv => SpentExactlyOnce
  <2> SUFFICES ASSUME IInv PROVE SpentExactlyOnce
    OBVIOUS
  <2>1. \A i, j \in spenders : i = j
    BY DEF IInv, OneSpender
  <2>2. spenders = {} \/ \E i \in Run : spenders = {i}
    BY <2>1
  <2>3. spenders # {} => Cardinality(spenders) = 1
    BY <2>2, FS_Singleton
  <2>4. Cardinality(spenders) <= 1
    BY <2>3, FS_EmptySet
  <2>5. ASSUME NEW i \in Run, (exit[i] = ExitDone /\ door[i] = "spend") \/ i \in used
        PROVE  spenders # {}
    BY <2>5 DEF IInv, StatusOK, UsedMeansSpent, TokenIsSpent
  <2> QED
    BY <2>3, <2>4, <2>5 DEF SpentExactlyOnce
<1> QED
  BY <1>1, Invariance, PTL

-----------------------------------------------------------------------------
(* The first and the last member of a set of positions.                    *)

\* A set of whole numbers has a least member: the intervals up to its members
\* are finite sets, and strict inclusion among finite sets ends somewhere.
LEMMA LeastMember ==
  ASSUME NEW S \in SUBSET Nat, S # {}
  PROVE  \E m \in S : \A k \in S : m <= k
<1> DEFINE R == StrictSubsetOrdering(Nat)
           T == {1..n : n \in S}
<1>1. T \subseteq FiniteSubsetsOf(Nat) /\ T # {}
  <2>1. ASSUME NEW n \in S
        PROVE  1..n \in FiniteSubsetsOf(Nat)
    BY FS_Interval DEF FiniteSubsetsOf
  <2> QED
    BY <2>1
<1>2. \E x \in T : \A y \in T : ~(<<y, x>> \in R)
  <2>1. IsWellFoundedOn(R, FiniteSubsetsOf(Nat))
    BY FS_StrictSubsetOrderingWellFounded
  <2> HIDE DEF R, T
  <2> QED
    BY <1>1, <2>1, WFMin
<1>3. PICK m \in S : \A k \in S : ~(<<1..k, 1..m>> \in R)
  BY <1>2
<1>4. ASSUME NEW k \in S, k < m
      PROVE  FALSE
  <2>1. 1..k \in SUBSET Nat /\ 1..m \in SUBSET Nat
    OBVIOUS
  <2>2. 1..k \subseteq 1..m /\ m \in 1..m /\ m \notin 1..k
    BY <1>4
  <2> QED
    BY <1>3, <2>1, <2>2 DEF StrictSubsetOrdering
<1> QED
  BY <1>3, <1>4

\* Min of a set of positions is the first of them.
LEMMA FirstOf ==
  ASSUME NEW n \in Nat, NEW S \in SUBSET (1..n), S # {}
  PROVE  Min(S) \in S /\ \A k \in S : Min(S) <= k
<1>1. \E m \in S : \A k \in S : m <= k
  BY LeastMember
<1> QED
  BY <1>1, Zenon DEF Min

\* Max of a set of positions is the last of them.
LEMMA LastOf ==
  ASSUME NEW n \in Nat, NEW S \in SUBSET (1..n), S # {}
  PROVE  Max(S) \in S /\ \A k \in S : Max(S) >= k
<1> DEFINE T == {n - k : k \in S}
<1>1. T \in SUBSET Nat /\ T # {}
  <2>1. ASSUME NEW k \in S
        PROVE  n - k \in Nat
    OBVIOUS
  <2> QED
    BY <2>1
<1>2. PICK t \in T : \A u \in T : t <= u
  <2> HIDE DEF T
  <2> QED BY <1>1, LeastMember
<1>3. PICK m \in S : t = n - m
  BY <1>2
<1>4. \A k \in S : m >= k
  <2> TAKE k \in S
  <2>1. n - k \in T
    OBVIOUS
  <2>2. t <= n - k
    BY <1>2, <2>1
  <2>3. k \in 1..n /\ m \in 1..n
    OBVIOUS
  <2> HIDE DEF T
  <2> QED
    BY <1>3, <2>2, <2>3
<1> QED
  BY <1>4, Zenon DEF Max

-----------------------------------------------------------------------------
(* Texts of any length: the rules of the module against the schema.        *)

Inked(text) == {i \in DOMAIN text : text[i] \notin Space}

\* strip() keeps a stretch of the text that begins and ends in ink.
LEMMA StripFacts ==
  ASSUME NEW text \in Seq(Class), Inked(text) # {}
  PROVE  LET t == Strip(text)
         IN  /\ t \in Seq(Class) /\ t # << >>
             /\ \E first \in Nat :
                   \A i \in DOMAIN t : first + i \in DOMAIN text /\ t[i] = text[first + i]
             /\ 1 \in Inked(t) /\ Len(t) \in Inked(t)
<1> DEFINE a == Min(Inked(text))
           b == Max(Inked(text))
           t == SubSeq(text, a, b)
<1>1. Inked(text) \in SUBSET (1..Len(text)) /\ Len(text) \in Nat
  BY DEF Inked
<1>2. /\ a \in Inked(text) /\ b \in Inked(text) /\ a <= b
  <2>1. a \in Inked(text) /\ \A k \in Inked(text) : a <= k
    BY <1>1, FirstOf, Zenon
  <2>2. b \in Inked(text) /\ \A k \in Inked(text) : b >= k
    BY <1>1, LastOf, Zenon
  <2> HIDE DEF a, b
  <2> QED
    BY <2>1, <2>2
<1>3. Strip(text) = t
  BY DEF Strip, Inked
<1> HIDE DEF a, b
<1>4. a \in 1..Len(text) /\ b \in 1..Len(text)
  BY <1>1, <1>2
<1>5. /\ t \in Seq(Class) /\ Len(t) = b - a + 1
      /\ \A i \in 1..(b - a + 1) : t[i] = text[a + i - 1]
  BY <1>2, <1>4, SubSeqProperties
<1> HIDE DEF t
<1>6. \A i \in DOMAIN t : (a - 1) + i \in DOMAIN text /\ t[i] = text[(a - 1) + i]
  BY <1>2, <1>4, <1>5
<1>7. 1 \in Inked(t) /\ Len(t) \in Inked(t)
  <2>1. /\ t[1] = text[a] /\ t[b - a + 1] = text[b]
        /\ b - a + 1 \in 1..(b - a + 1) /\ 1 \in 1..(b - a + 1)
    BY <1>2, <1>4, <1>5
  <2> QED
    BY <1>2, <1>5, <2>1 DEF Inked
<1>8. a - 1 \in Nat
  BY <1>4
<1>9. t # << >>
  BY <1>2, <1>4, <1>5
<1> QED
  BY <1>3, <1>5, <1>6, <1>7, <1>8, <1>9

\* Of a text that is all white space it keeps nothing.
LEMMA StripOfBlank ==
  ASSUME NEW text, Inked(text) = {}
  PROVE  Strip(text) = << >>
BY DEF Strip, Inked

\* What has been stripped is not stripped of anything more.
LEMMA StripTwice ==
  ASSUME NEW t \in Seq(Class), 1 \in Inked(t), Len(t) \in Inked(t)
  PROVE  Strip(t) = t
<1> DEFINE a == Min(Inked(t))
           b == Max(Inked(t))
<1>1. Inked(t) \in SUBSET (1..Len(t)) /\ Len(t) \in Nat /\ Inked(t) # {}
  BY DEF Inked
<1>2. /\ a \in Inked(t) /\ \A k \in Inked(t) : a <= k
      /\ b \in Inked(t) /\ \A k \in Inked(t) : b >= k
  BY <1>1, FirstOf, LastOf, Zenon
<1>3. Strip(t) = SubSeq(t, a, b)
  BY <1>1 DEF Strip, Inked
<1> HIDE DEF a, b
<1>4. a = 1 /\ b = Len(t)
  BY <1>1, <1>2
<1>5. 1 <= Len(t)
  BY <1>1
<1> DEFINE u == SubSeq(t, 1, Len(t))
<1>6. u \in Seq(Class) /\ Len(u) = Len(t) /\ \A i \in 1..Len(t) : u[i] = t[i]
  BY <1>1, <1>5, SubSeqProperties
<1> HIDE DEF u
<1>7. u = t
  BY <1>6, SeqEqual
<1> QED
  BY <1>3, <1>4, <1>7 DEF u

\* What require_text lets through is fit for the column, is let through again as
\* it is, and brings in no character that the text did not have.
LEMMA RequireTextFacts ==
  ASSUME NEW text \in Seq(Class), NEW kept \in RequireText(text)
  PROVE  /\ kept \in Seq(Class) /\ RequireText(kept) = {kept}
         /\ NotBlank(kept)
         /\ ~Has(text, {"u"}) => ~Has(kept, {"u"})
         /\ ~Has(kept, {"0"})
<1>1. kept = Strip(text) /\ Strip(text) # << >> /\ ~Has(kept, Control)
  BY DEF RequireText
<1>2. Inked(text) # {}
  BY <1>1, StripOfBlank
<1>3. /\ kept \in Seq(Class) /\ kept # << >> /\ 1 \in Inked(kept) /\ Len(kept) \in Inked(kept)
  BY <1>1, <1>2, StripFacts
<1>4. RequireText(kept) = {kept}
  BY <1>1, <1>3, StripTwice DEF RequireText
<1>5. NotBlank(kept)
  <2>1. kept[1] \in Class /\ kept[1] \notin Space /\ kept[1] \notin Control /\ 1 \in DOMAIN kept
    BY <1>1, <1>3 DEF Inked, Has
  <2> QED
    BY <2>1 DEF Class, Space, Control, NotBlank, Has
<1>6. PICK first \in Nat :
        \A i \in DOMAIN kept : first + i \in DOMAIN text /\ kept[i] = text[first + i]
  BY <1>1, <1>2, StripFacts
<1>7. ~Has(text, {"u"}) => ~Has(kept, {"u"})
  BY <1>6 DEF Has
<1>8. ~Has(kept, {"0"})
  BY <1>1 DEF Has, Control
<1> QED
  BY <1>3, <1>4, <1>5, <1>7, <1>8

\* What require_email lets through has its @ where the CHECK wants it.
LEMMA RequireEmailFacts ==
  ASSUME NEW text \in Seq(Class), NEW kept \in RequireEmail(text)
  PROVE  RequireEmail(kept) = {kept} /\ AtInside(kept)
<1>1. kept \in RequireText(text) /\ \E i \in FirstAt(kept) : 1 < i /\ i < Len(kept)
  BY DEF RequireEmail
<1>2. RequireText(kept) = {kept}
  BY <1>1, RequireTextFacts
<1>3. RequireEmail(kept) = {kept}
  BY <1>1, <1>2 DEF RequireEmail
<1>4. AtInside(kept)
  BY <1>1 DEF FirstAt, AtInside
<1> QED
  BY <1>3, <1>4

\* The text shown is kept as it came, and has a character btrim leaves.
LEMMA RequireShownFacts ==
  ASSUME NEW text \in Seq(Class), NEW kept \in RequireShown(text)
  PROVE  /\ kept = text /\ RequireShown(kept) = {kept}
         /\ NotBlank(kept) \/ Has(kept, {"0"})
<1>1. kept = text /\ Strip(text) # << >>
  BY DEF RequireShown
<1>2. PICK i \in DOMAIN text : text[i] \notin Space
  BY <1>1, StripOfBlank DEF Inked
<1>3. text[i] \in Class
  OBVIOUS
<1>4. NotBlank(kept) \/ Has(kept, {"0"})
  BY <1>1, <1>2, <1>3 DEF Class, Space, NotBlank, Has
<1> QED
  BY <1>1, <1>4 DEF RequireShown

\* Field by field.
LEMMA RulesAgreeWithTheSchema ==
  ASSUME NEW way \in Way, NEW text \in Seq(Class), NEW kept \in Rule(way[2], text)
  PROVE  /\ SchemaAdmits(way[2], kept) \/ (way[2] = "shown" /\ Has(kept, {"0"}))
         /\ Rule(way[2], kept) = {kept}
<1>1. CASE way[2] = "text"
  BY <1>1, RequireTextFacts DEF Rule, SchemaAdmits
<1>2. CASE way[2] = "email"
  BY <1>2, RequireEmailFacts DEF Rule, SchemaAdmits
<1>3. CASE way[2] = "shown"
  BY <1>3, RequireShownFacts DEF Rule, SchemaAdmits
<1>4. CASE way[2] = "password"
  BY <1>4 DEF Rule, SchemaAdmits, RequirePassword
<1> QED
  BY <1>1, <1>2, <1>3, <1>4 DEF Way

\* Files and standard input are read strictly: nothing that does not decode is
\* left for the place where it would be encoded.
LEMMA FilesAndStdinAreAnswered ==
  ASSUME NEW way \in Way, NEW text \in Seq(Class), way[1] \in {"stdin", "file"}
  PROVE  AnswerTo(way, text) # "escaped"
<1> DEFINE kept == UNION {Rule(way[2], t) : t \in Read(way[1], text)}
<1>1. way = <<"stdin", "text">> \/ way = <<"file", "shown">>
  BY DEF Way
<1>2. ASSUME NEW t \in kept
      PROVE  ~Has(t, {"u"})
  <2>1. PICK r \in Read(way[1], text) : t \in Rule(way[2], r)
    OBVIOUS
  <2>2. r = text /\ ~Has(text, {"u"})
    BY <1>1, <2>1 DEF Read, StrictlyText
  <2>3. CASE way = <<"stdin", "text">>
    <3>1. t \in RequireText(text)
      BY <2>1, <2>2, <2>3 DEF Rule
    <3> QED
      BY <2>2, <3>1, RequireTextFacts
  <2>4. CASE way = <<"file", "shown">>
    <3>1. t \in RequireShown(text)
      BY <2>1, <2>2, <2>4 DEF Rule
    <3> QED
      BY <2>2, <3>1, RequireShownFacts
  <2> QED
    BY <1>1, <2>3, <2>4
<1>3. way[2] # "password"
  BY <1>1
<1>4. AnswerTo(way, text) =
        IF kept = {} THEN "refused" ELSE CHOOSE a \in {Stored(way[2], t) : t \in kept} : TRUE
  BY <1>3 DEF AnswerTo
<1> HIDE DEF kept
<1>5. ASSUME kept # {}
      PROVE  (CHOOSE a \in {Stored(way[2], t) : t \in kept} : TRUE) # "escaped"
  <2> DEFINE answers == {Stored(way[2], t) : t \in kept}
  <2>1. answers # {} /\ "escaped" \notin answers
    BY <1>2, <1>5 DEF Stored
  <2> HIDE DEF answers
  <2>2. (CHOOSE a \in answers : TRUE) \in answers
    BY <2>1
  <2> QED
    BY <2>1, <2>2 DEF answers
<1> QED
  BY <1>4, <1>5

-----------------------------------------------------------------------------
(* Declarations, and instants at the ends of time.                         *)

\* The composite key alone keeps a reference at home, whatever other keys the
\* table has: they only let in fewer rows.
LEMMA GreenIsIsolated ==
  ASSUME NEW role \in Role, NEW table \in TableShape, GreenCatalogue(role, table)
  PROVE  PoliciesApply(role, table) /\ ReferencesStayHome(table)
<1>1. PoliciesApply(role, table)
  BY DEF GreenCatalogue, CannotBypass, HasRls, PoliciesApply, Role, TableShape
<1>2. PICK key \in table.keys : /\ key.conkey = <<"tenant_id", "customer_id">>
                                /\ key.confkey = <<"tenant_id", "id">>
  BY DEF GreenCatalogue, HasCompositeKey
<1>3. ASSUME NEW row \in AnyRow, Satisfies(row, key)
      PROVE  [tenant_id |-> row.tenant_id, id |-> row.customer_id] \in TheirCustomers
  <2>1. PICK there \in TheirCustomers :
          \A i \in DOMAIN key.conkey : row[key.conkey[i]] = there[key.confkey[i]]
    BY <1>3 DEF Satisfies
  <2>2. row.tenant_id = there.tenant_id /\ row.customer_id = there.id
    BY <1>2, <2>1
  <2> QED
    BY <2>2 DEF TheirCustomers, AnyRow
<1> QED
  BY <1>1, <1>2, <1>3 DEF ReferencesStayHome

\* Whatever expiry accepts reads back in every session time zone, at both ends
\* of what a datetime holds: the margin is wider than the widest zone.
THEOREM AcceptedReadsBack ==
  ASSUME NEW wall \in Int, NEW offset \in Int, NEW hours \in Nat, NEW zone \in Int,
         -WidestZone <= zone, zone <= WidestZone,
         ExpiryAccepted(Aware(wall, offset), hours)
  PROVE  ReadsBack(Utc(ExpiryOf(Aware(wall, offset), hours)), zone)
BY HoursAreWhole, MarginCovers, Z3
DEF ExpiryAccepted, ExpiryOf, Aware, Utc, WithinTheBounds, FirstReadable, LastReadable,
    ReadsBack, OnTheClock

\* And it refuses no other: an expiry between the bounds is accepted whatever
\* the offset it is written with, so neither overflow decides on its own.
THEOREM OnlyTheBoundsRefuse ==
  ASSUME NEW wall \in Int, NEW offset \in Int, NEW hours \in Nat,
         IsAware(Aware(wall, offset)),
         WithinTheBounds(ExpiryOf(Aware(wall, offset), hours))
  PROVE  ExpiryAccepted(Aware(wall, offset), hours)
BY HoursAreWhole, MarginCovers, Z3
DEF ExpiryAccepted, ExpiryOf, Aware, IsAware, Utc, WithinTheBounds, FirstReadable,
    LastReadable, OnTheClock

\* The same of a window as it is asked about.
LEMMA ExpiryJudged ==
  ASSUME NEW issued \in [wall : Int, offset : Int], IsAware(issued), NEW hours \in Nat
  PROVE  /\ ExpiryAccepted(issued, hours) <=> WithinTheBounds(ExpiryOf(issued, hours))
         /\ ExpiryAccepted(issued, hours) => ReadsBackEverywhere(Utc(ExpiryOf(issued, hours)))
BY HoursAreWhole, MarginCovers, Z3
DEF ExpiryAccepted, ExpiryOf, Aware, IsAware, Utc, WithinTheBounds, FirstReadable,
    LastReadable, OnTheClock, ReadsBackEverywhere, ReadsBack

-----------------------------------------------------------------------------
(* Lines of any length: the recursive functions of Boundary.               *)

\* What holds of the first whole number and of the next one holds up to a bound.
LEMMA NoneIsBad ==
  ASSUME NEW n \in Nat, NEW bad \in SUBSET (0..n),
         0 \notin bad, \A m \in 1..n : m - 1 \notin bad => m \notin bad
  PROVE  bad = {}
<1> SUFFICES ASSUME bad # {}
             PROVE  FALSE
  OBVIOUS
<1>1. PICK m \in bad : \A k \in bad : m <= k
  BY LeastMember
<1>2. m \in 1..n /\ m - 1 \notin bad
  BY <1>1
<1> QED
  BY <1>1, <1>2

\* The words of a line, up to the end of each of its options.
Flattened(options) ==
  LET flatten[i \in 1..Len(options)] == IF i = 1 THEN options[i] ELSE flatten[i - 1] \o options[i]
  IN  flatten

\* It exists, so its equations hold.
LEMMA FlattenedIs ==
  ASSUME NEW options, Len(options) \in Nat
  PROVE  \A i \in 1..Len(options) :
           Flattened(options)[i] = IF i = 1 THEN options[i]
                                   ELSE Flattened(options)[i - 1] \o options[i]
<1> DEFINE n == Len(options)
           Built(f, m) == f = [i \in 1..m |-> IF i = 1 THEN options[i] ELSE f[i - 1] \o options[i]]
           bad == {m \in 0..n : ~\E f : Built(f, m)}
<1>1. 0 \notin bad
  <2>1. Built([i \in 1..0 |-> << >>], 0)
    OBVIOUS
  <2> QED
    BY <2>1
<1>2. ASSUME NEW m \in 1..n, m - 1 \notin bad
      PROVE  m \notin bad
  <2>0. m - 1 \in 0..n
    BY <1>2
  <2>1. PICK g : Built(g, m - 1)
    BY <1>2, <2>0
  <2> DEFINE f == [i \in 1..m |-> IF i < m THEN g[i]
                                  ELSE IF i = 1 THEN options[i] ELSE g[i - 1] \o options[i]]
  <2>2. \A i \in 1..m : f[i] = IF i = 1 THEN options[i] ELSE f[i - 1] \o options[i]
    <3> TAKE i \in 1..m
    <3>1. CASE i < m
      <4>1. f[i] = g[i] /\ i \in 1..(m - 1)
        BY <3>1
      <4>2. i # 1 => f[i - 1] = g[i - 1]
        BY <3>1
      <4>3. g[i] = IF i = 1 THEN options[i] ELSE g[i - 1] \o options[i]
        BY <2>1, <4>1
      <4> HIDE DEF f
      <4> QED
        BY <4>1, <4>2, <4>3
    <3>2. CASE i = m
      <4>1. f[i] = IF i = 1 THEN options[i] ELSE g[i - 1] \o options[i]
        BY <3>2
      <4>2. i # 1 => f[i - 1] = g[i - 1]
        BY <3>2
      <4> HIDE DEF f
      <4> QED
        BY <4>1, <4>2
    <3> QED
      BY <3>1, <3>2
  <2>3. f = [i \in 1..m |-> f[i]]
    OBVIOUS
  <2> HIDE DEF f
  <2>4. Built(f, m)
    BY <2>2, <2>3, Zenon
  <2> QED
    BY <2>4
<1>3. bad = {}
  <2> HIDE DEF bad
  <2>1. bad \in SUBSET (0..n)
    BY DEF bad
  <2> QED
    BY <1>1, <1>2, <2>1, NoneIsBad
<1>4. \E f : Built(f, n)
  <2>1. n \in 0..n
    OBVIOUS
  <2>2. n \notin bad
    <3> HIDE DEF bad
    <3> QED
      BY <1>3
  <2> QED
    BY <2>1, <2>2
<1>5. Built(Flattened(options), n)
  BY <1>4 DEF Flattened
<1> QED
  BY <1>5

\* Where the i-th option of a line ends in the line flattened.
Ending(options, i) == IF i = 0 THEN 0 ELSE Len(Flattened(options)[i])

\* The flattened line has every option's words, where the one before ends.
LEMMA FlattenedHas ==
  ASSUME NEW S, NEW options \in Seq(Seq(S))
  PROVE  \A m \in 1..Len(options) :
           /\ Flattened(options)[m] \in Seq(S)
           /\ \A i \in 1..m : /\ Ending(options, i - 1) \in Nat
                              /\ Ending(options, i) = Ending(options, i - 1) + Len(options[i])
                              /\ Ending(options, i) <= Ending(options, m)
                              /\ \A j \in 1..Len(options[i]) :
                                   Flattened(options)[m][Ending(options, i - 1) + j] = options[i][j]
<1> DEFINE n == Len(options)
           F(i) == Flattened(options)[i]
           E(i) == Ending(options, i)
           Good(m) == /\ F(m) \in Seq(S)
                      /\ \A i \in 1..m :
                           /\ E(i - 1) \in Nat /\ E(i) = E(i - 1) + Len(options[i])
                           /\ E(i) <= E(m)
                           /\ \A j \in 1..Len(options[i]) : F(m)[E(i - 1) + j] = options[i][j]
           bad == {m \in 0..n : m # 0 /\ ~Good(m)}
<1>1. n \in Nat /\ \A i \in 1..n : options[i] \in Seq(S) /\ Len(options[i]) \in Nat
  OBVIOUS
<1>2. \A i \in 1..n : F(i) = IF i = 1 THEN options[i] ELSE F(i - 1) \o options[i]
  BY <1>1, FlattenedIs
<1>3. E(0) = 0 /\ \A i \in 1..n : E(i) = Len(F(i))
  BY DEF Ending
<1> HIDE DEF F, E
<1>4. ASSUME NEW m \in 1..n, m # 1 => Good(m - 1)
      PROVE  Good(m)
  <2>1. CASE m = 1
    <3>1. F(1) = options[1] /\ E(1) = Len(options[1]) /\ E(0) = 0
      BY <1>2, <1>3, <2>1
    <3>2. \A i \in 1..m : i = 1 /\ i - 1 = 0
      BY <2>1
    <3> QED
      BY <1>1, <2>1, <3>1, <3>2
  <2>2. CASE m # 1
    <3>1. /\ m - 1 \in 1..n /\ F(m) = F(m - 1) \o options[m] /\ F(m - 1) \in Seq(S)
          /\ options[m] \in Seq(S) /\ E(m - 1) = Len(F(m - 1)) /\ E(m) = Len(F(m))
      <4>1. m - 1 \in 1..n
        BY <1>1, <2>2
      <4>2. F(m - 1) \in Seq(S)
        BY <1>4, <2>2
      <4> HIDE DEF Good
      <4> QED
        BY <1>1, <1>2, <1>3, <2>2, <4>1, <4>2
    <3>2. /\ F(m) \in Seq(S) /\ E(m - 1) \in Nat /\ E(m) = E(m - 1) + Len(options[m])
          /\ \A j \in 1..E(m - 1) : F(m)[j] = F(m - 1)[j]
          /\ \A j \in 1..Len(options[m]) : F(m)[E(m - 1) + j] = options[m][j]
      <4> DEFINE a == F(m - 1)
                 b == options[m]
                 c == F(m)
      <4>1. a \in Seq(S) /\ b \in Seq(S) /\ c = a \o b /\ E(m - 1) = Len(a) /\ E(m) = Len(c)
        BY <3>1
      <4> HIDE DEF a, b, c, Good
      <4>2. /\ c \in Seq(S) /\ Len(c) = Len(a) + Len(b) /\ Len(a) \in Nat
            /\ \A j \in 1..Len(a) : c[j] = a[j]
            /\ \A j \in 1..Len(b) : c[Len(a) + j] = b[j]
        BY <4>1
      <4>3. /\ c \in Seq(S) /\ E(m - 1) \in Nat /\ E(m) = E(m - 1) + Len(b)
            /\ \A j \in 1..E(m - 1) : c[j] = a[j]
            /\ \A j \in 1..Len(b) : c[E(m - 1) + j] = b[j]
        BY <4>1, <4>2
      <4> QED
        BY <4>3 DEF a, b, c
    <3>3. ASSUME NEW i \in 1..(m - 1)
          PROVE  /\ E(i - 1) \in Nat /\ E(i) = E(i - 1) + Len(options[i])
                 /\ E(i) <= E(m)
                 /\ \A j \in 1..Len(options[i]) : F(m)[E(i - 1) + j] = options[i][j]
      <4>1. /\ E(i - 1) \in Nat /\ E(i) = E(i - 1) + Len(options[i]) /\ E(i) <= E(m - 1)
            /\ \A j \in 1..Len(options[i]) : F(m - 1)[E(i - 1) + j] = options[i][j]
        BY <1>4, <2>2
      <4>2. Len(options[i]) \in Nat /\ Len(options[m]) \in Nat
        BY <1>1
      <4>3. E(i) <= E(m)
        BY <3>2, <4>1, <4>2
      <4>4. \A j \in 1..Len(options[i]) : E(i - 1) + j \in 1..E(m - 1)
        <5> DEFINE long == Len(options[i])
                   start == E(i - 1)
                   end == E(i)
                   all == E(m - 1)
        <5>1. /\ long \in Nat /\ start \in Nat /\ all \in Nat /\ end = start + long
              /\ end <= all
          BY <3>2, <4>1, <4>2
        <5> HIDE DEF long, start, end, all
        <5>2. \A j \in 1..long : start + j \in 1..all
          BY <5>1
        <5> QED
          BY <5>2 DEF long, start, all
      <4> QED
        BY <3>2, <4>1, <4>3, <4>4
    <3>4. \A i \in 1..m : i \in 1..(m - 1) \/ i = m
      OBVIOUS
    <3>5. E(m) <= E(m)
      BY <1>1, <3>2
    <3> QED
      BY <3>2, <3>3, <3>4, <3>5
  <2> QED
    BY <2>1, <2>2
<1>5. ASSUME NEW m \in 1..n, m - 1 \notin bad
      PROVE  m \notin bad
  <2>1. m - 1 \in 0..n /\ (m # 1 => m - 1 # 0)
    BY <1>5
  <2>2. m # 1 => Good(m - 1)
    BY <1>5, <2>1
  <2>3. Good(m)
    BY <1>4, <2>2
  <2> QED
    BY <2>3
<1>6. 0 \notin bad /\ bad \in SUBSET (0..n)
  OBVIOUS
<1>7. bad = {}
  <2> HIDE DEF bad
  <2> QED
    BY <1>1, <1>5, <1>6, NoneIsBad
<1>8. \A m \in 1..n : m \in 0..n /\ m # 0
  OBVIOUS
<1>9. \A m \in 1..n : Good(m)
  BY <1>7, <1>8
<1> QED
  BY <1>9 DEF E, F

\* The first of the sequences has all the others at its end, and each begins with
\* its piece.
Tailed(S, n, T, piece) ==
  /\ \A i \in 1..(n + 1) :
       /\ T[i] \in Seq(S) /\ Len(T[i]) \in Nat /\ Len(T[i]) <= Len(T[1])
       /\ \A j \in 1..Len(T[i]) : T[1][Len(T[1]) - Len(T[i]) + j] = T[i][j]
  /\ \A i \in 1..n :
       /\ Len(T[i]) = Len(piece[i]) + Len(T[i + 1])
       /\ \A j \in 1..Len(piece[i]) : T[i][j] = piece[i][j]

\* So it is where each sequence is its piece and the next one.
LEMMA TailsAre ==
  ASSUME NEW S, NEW n \in Nat, NEW T, NEW piece,
         T[n + 1] = << >>, \A i \in 1..n : piece[i] \in Seq(S) /\ T[i] = piece[i] \o T[i + 1]
  PROVE  Tailed(S, n, T, piece)
<1> DEFINE U(i) == T[i]
           P(i) == piece[i]
           Good(i) == /\ Len(U(i)) <= Len(U(1))
                      /\ \A j \in 1..Len(U(i)) : U(1)[Len(U(1)) - Len(U(i)) + j] = U(i)[j]
           untyped == {m \in 0..n : U(n + 1 - m) \notin Seq(S)}
           bad == {m \in 0..n : ~Good(m + 1)}
<1>1. U(n + 1) = << >> /\ \A i \in 1..n : P(i) \in Seq(S) /\ U(i) = P(i) \o U(i + 1)
  OBVIOUS
<1> HIDE DEF U, P
<1>2. 0 \notin untyped
  <2>1. n + 1 - 0 = n + 1 /\ << >> \in Seq(S)
    OBVIOUS
  <2> QED
    BY <1>1, <2>1
<1>3. ASSUME NEW m \in 1..n, m - 1 \notin untyped
      PROVE  m \notin untyped
  <2>1. /\ n + 1 - m \in 1..n /\ (n + 1 - m) + 1 = n + 1 - (m - 1) /\ m - 1 \in 0..n
    OBVIOUS
  <2>2. U((n + 1 - m) + 1) \in Seq(S)
    BY <1>3, <2>1
  <2>3. U(n + 1 - m) \in Seq(S)
    <3> DEFINE i == n + 1 - m
    <3>1. i \in 1..n /\ U(i + 1) \in Seq(S)
      BY <2>1, <2>2
    <3> HIDE DEF i
    <3>2. P(i) \in Seq(S) /\ U(i) = P(i) \o U(i + 1)
      BY <1>1, <3>1
    <3>3. U(i) \in Seq(S)
      BY <3>1, <3>2
    <3> QED
      BY <3>3 DEF i
  <2> QED
    BY <2>3
<1>4. untyped = {}
  <2>1. untyped \in SUBSET (0..n)
    OBVIOUS
  <2> HIDE DEF untyped
  <2> QED
    BY <1>2, <1>3, <2>1, NoneIsBad
<1>5. ASSUME NEW i \in 1..(n + 1)
      PROVE  U(i) \in Seq(S)
  <2>1. n + 1 - i \in 0..n /\ n + 1 - (n + 1 - i) = i
    OBVIOUS
  <2>2. n + 1 - i \notin untyped
    <3> HIDE DEF untyped
    <3> QED
      BY <1>4
  <2> QED
    BY <2>1, <2>2
<1>6. ASSUME NEW i \in 1..n
      PROVE  /\ Len(U(i)) = Len(P(i)) + Len(U(i + 1))
             /\ Len(P(i)) \in Nat /\ Len(U(i + 1)) \in Nat
             /\ \A j \in 1..Len(P(i)) : U(i)[j] = P(i)[j]
             /\ \A j \in 1..Len(U(i + 1)) : U(i)[Len(P(i)) + j] = U(i + 1)[j]
  <2> DEFINE a == P(i)
             b == U(i + 1)
             c == U(i)
  <2>1. a \in Seq(S) /\ b \in Seq(S) /\ c = a \o b
    BY <1>1, <1>5
  <2> HIDE DEF a, b, c
  <2>2. /\ Len(c) = Len(a) + Len(b) /\ Len(a) \in Nat /\ Len(b) \in Nat
        /\ \A j \in 1..Len(a) : c[j] = a[j]
        /\ \A j \in 1..Len(b) : c[Len(a) + j] = b[j]
    BY <2>1
  <2> QED
    BY <2>2 DEF a, b, c
<1>7. Good(1)
  <2>1. Len(U(1)) \in Nat
    BY <1>5
  <2> QED
    BY <2>1
<1>8. ASSUME NEW i \in 1..n, Good(i)
      PROVE  Good(i + 1)
  <2> DEFINE all == U(1)
             a == P(i)
             b == U(i + 1)
             c == U(i)
  <2>1. /\ Len(all) \in Nat /\ Len(c) <= Len(all)
        /\ \A j \in 1..Len(c) : all[Len(all) - Len(c) + j] = c[j]
    BY <1>5, <1>8
  <2>2. /\ Len(c) = Len(a) + Len(b) /\ Len(a) \in Nat /\ Len(b) \in Nat
        /\ \A j \in 1..Len(b) : c[Len(a) + j] = b[j]
    BY <1>6
  <2> HIDE DEF all, a, b, c, Good
  <2>3. ASSUME NEW j \in 1..Len(b)
        PROVE  all[Len(all) - Len(b) + j] = b[j]
    <3>1. Len(a) + j \in 1..Len(c) /\ Len(all) - Len(c) + (Len(a) + j) = Len(all) - Len(b) + j
      BY <2>1, <2>2
    <3> QED
      BY <2>1, <2>2, <3>1
  <2>4. Len(b) <= Len(all)
    BY <2>1, <2>2
  <2> QED
    BY <2>3, <2>4 DEF all, b, Good
<1>9. bad = {}
  <2>1. 0 \notin bad
    BY <1>7
  <2>2. ASSUME NEW m \in 1..n, m - 1 \notin bad
        PROVE  m \notin bad
    <3>1. m - 1 \in 0..n /\ (m - 1) + 1 = m
      OBVIOUS
    <3>2. Good(m)
      BY <2>2, <3>1
    <3> QED
      BY <1>8, <3>2
  <2>3. bad \in SUBSET (0..n)
    OBVIOUS
  <2> HIDE DEF bad
  <2> QED
    BY <2>1, <2>2, <2>3, NoneIsBad
<1>10. ASSUME NEW i \in 1..(n + 1)
       PROVE  Good(i)
  <2>1. i - 1 \in 0..n /\ (i - 1) + 1 = i
    OBVIOUS
  <2>2. i - 1 \notin bad
    <3> HIDE DEF bad
    <3> QED
      BY <1>9
  <2> QED
    BY <2>1, <2>2
<1>11. \A i \in 1..(n + 1) :
         /\ T[i] \in Seq(S) /\ Len(T[i]) \in Nat /\ Len(T[i]) <= Len(T[1])
         /\ \A j \in 1..Len(T[i]) : T[1][Len(T[1]) - Len(T[i]) + j] = T[i][j]
  <2> TAKE i \in 1..(n + 1)
  <2>1. U(i) \in Seq(S) /\ Len(U(i)) \in Nat
    BY <1>5
  <2>2. Good(i)
    BY <1>10
  <2> QED
    BY <2>1, <2>2 DEF U
<1>12. \A i \in 1..n :
         /\ Len(T[i]) = Len(piece[i]) + Len(T[i + 1])
         /\ \A j \in 1..Len(piece[i]) : T[i][j] = piece[i][j]
  <2> TAKE i \in 1..n
  <2> QED
    BY <1>6 DEF U, P
<1> QED
  BY <1>11, <1>12 DEF Tailed

\* The tokens made of a command line from each of its words on.
Joining(argv) ==
  LET joined[i \in 1..(Len(argv) + 2)] ==
        IF i > Len(argv) THEN << >>
        ELSE IF i < Len(argv) /\ Joins(argv[i], argv[i + 1])
        THEN << <<argv[i], argv[i + 1]>> >> \o joined[i + 2]
        ELSE << <<argv[i]>> >> \o joined[i + 1]
  IN  joined

\* They exist, from the last word back.
LEMMA JoiningIs ==
  ASSUME NEW argv, Len(argv) \in Nat
  PROVE  \A i \in 1..(Len(argv) + 2) :
           Joining(argv)[i] =
             IF i > Len(argv) THEN << >>
             ELSE IF i < Len(argv) /\ Joins(argv[i], argv[i + 1])
             THEN << <<argv[i], argv[i + 1]>> >> \o Joining(argv)[i + 2]
             ELSE << <<argv[i]>> >> \o Joining(argv)[i + 1]
<1> DEFINE n == Len(argv)
           Body(f, i) == IF i > n THEN << >>
                         ELSE IF i < n /\ Joins(argv[i], argv[i + 1])
                         THEN << <<argv[i], argv[i + 1]>> >> \o f[i + 2]
                         ELSE << <<argv[i]>> >> \o f[i + 1]
           Built(f, k) == f = [i \in k..(n + 2) |-> Body(f, i)]
           bad == {m \in 0..(n + 1) : ~\E f : Built(f, n + 2 - m)}
<1>1. ASSUME NEW f, NEW g, NEW i \in 1..(n + 2),
             i + 1 <= n + 2 => f[i + 1] = g[i + 1], i + 2 <= n + 2 => f[i + 2] = g[i + 2]
      PROVE  Body(f, i) = Body(g, i)
  <2>1. CASE i > n
    BY <2>1
  <2>2. CASE i <= n
    BY <1>1, <2>2
  <2> QED
    BY <2>1, <2>2
<1>2. 0 \notin bad
  <2> DEFINE f == [i \in (n + 2)..(n + 2) |-> << >>]
  <2>1. \A i \in (n + 2)..(n + 2) : Body(f, i) = << >>
    OBVIOUS
  <2>2. Built(f, n + 2) /\ n + 2 - 0 = n + 2
    BY <2>1
  <2> QED
    BY <2>2
<1>3. ASSUME NEW m \in 1..(n + 1), m - 1 \notin bad
      PROVE  m \notin bad
  <2> DEFINE k == n + 2 - m
  <2>1. k \in 1..(n + 1) /\ m - 1 \in 0..(n + 1) /\ n + 2 - (m - 1) = k + 1
    OBVIOUS
  <2>2. PICK g : Built(g, k + 1)
    BY <1>3, <2>1
  <2> HIDE DEF k
  <2> DEFINE f == [i \in k..(n + 2) |-> IF i > k THEN g[i] ELSE Body(g, k)]
  <2>3. \A i \in (k + 1)..(n + 2) : f[i] = g[i]
    BY <2>1
  <2>4. f[k] = Body(g, k)
    BY <2>1
  <2>5. f = [i \in k..(n + 2) |-> f[i]]
    OBVIOUS
  <2> HIDE DEF f
  <2>6. ASSUME NEW i \in k..(n + 2)
        PROVE  f[i] = Body(f, i)
    <3> HIDE DEF Body
    <3>1. i \in 1..(n + 2)
      BY <2>1
    <3>2. i + 1 <= n + 2 => f[i + 1] = g[i + 1]
      BY <2>1, <2>3
    <3>3. i + 2 <= n + 2 => f[i + 2] = g[i + 2]
      BY <2>1, <2>3
    <3>4. Body(f, i) = Body(g, i)
      BY <1>1, <3>1, <3>2, <3>3, Zenon
    <3>5. CASE i = k
      BY <2>4, <3>4, <3>5
    <3>6. CASE i # k
      <4>1. i \in (k + 1)..(n + 2)
        BY <2>1, <3>6
      <4>2. g[i] = Body(g, i)
        BY <2>2, <4>1
      <4> QED
        BY <2>3, <3>4, <4>1, <4>2
    <3> QED
      BY <3>5, <3>6
  <2>7. Built(f, k)
    <3> HIDE DEF Body
    <3> QED
      BY <2>5, <2>6, Zenon
  <2> QED
    BY <2>7 DEF k
<1>4. n + 1 \notin bad
  <2>1. bad \in SUBSET (0..(n + 1)) /\ n + 1 \in Nat
    OBVIOUS
  <2> HIDE DEF bad
  <2> QED
    BY <1>2, <1>3, <2>1, NoneIsBad
<1>5. \E f : Built(f, 1)
  <2>1. n + 1 \in 0..(n + 1) /\ n + 2 - (n + 1) = 1
    OBVIOUS
  <2> QED
    BY <1>4, <2>1
<1>6. Built(Joining(argv), 1)
  BY <1>5 DEF Joining
<1> QED
  BY <1>6

\* What argparse makes of the tokens, from each of them on.
Parsing(tokens) ==
  LET parsed[i \in 1..(Len(tokens) + 1)] ==
        IF i > Len(tokens) THEN << >>
        ELSE (IF tokens[i][1] \in Valued THEN << <<tokens[i][1], Value(tokens, i)>> >> ELSE << >>)
               \o parsed[i + 1]
  IN  parsed

\* It exists, from the last token back.
LEMMA ParsingIs ==
  ASSUME NEW tokens, Len(tokens) \in Nat
  PROVE  \A i \in 1..(Len(tokens) + 1) :
           Parsing(tokens)[i] =
             IF i > Len(tokens) THEN << >>
             ELSE (IF tokens[i][1] \in Valued THEN << <<tokens[i][1], Value(tokens, i)>> >>
                                               ELSE << >>)
                    \o Parsing(tokens)[i + 1]
<1> DEFINE n == Len(tokens)
           Piece(i) == IF tokens[i][1] \in Valued THEN << <<tokens[i][1], Value(tokens, i)>> >>
                                                  ELSE << >>
           Body(f, i) == IF i > n THEN << >> ELSE Piece(i) \o f[i + 1]
           Built(f, k) == f = [i \in k..(n + 1) |-> Body(f, i)]
           bad == {m \in 0..n : ~\E f : Built(f, n + 1 - m)}
<1> HIDE DEF Piece
<1>1. 0 \notin bad
  <2> DEFINE f == [i \in (n + 1)..(n + 1) |-> << >>]
  <2>1. \A i \in (n + 1)..(n + 1) : Body(f, i) = << >>
    OBVIOUS
  <2>2. n + 1 - 0 = n + 1
    OBVIOUS
  <2>3. f = [i \in (n + 1)..(n + 1) |-> f[i]] /\ \A i \in (n + 1)..(n + 1) : f[i] = << >>
    OBVIOUS
  <2> HIDE DEF f
  <2>4. \A i \in (n + 1)..(n + 1) : f[i] = Body(f, i)
    BY <2>1, <2>3
  <2>5. Built(f, n + 1)
    <3> HIDE DEF Body
    <3> QED
      BY <2>3, <2>4, Zenon
  <2> QED
    BY <2>2, <2>5
<1>2. ASSUME NEW m \in 1..n, m - 1 \notin bad
      PROVE  m \notin bad
  <2> DEFINE k == n + 1 - m
  <2>1. k \in 1..n /\ m - 1 \in 0..n /\ n + 1 - (m - 1) = k + 1
    OBVIOUS
  <2>2. PICK g : Built(g, k + 1)
    BY <1>2, <2>1
  <2> HIDE DEF k
  <2> DEFINE f == [i \in k..(n + 1) |-> IF i > k THEN g[i] ELSE Piece(k) \o g[k + 1]]
  <2>3. \A i \in (k + 1)..(n + 1) : f[i] = g[i]
    BY <2>1
  <2>4. f[k] = Piece(k) \o g[k + 1]
    BY <2>1
  <2>5. f = [i \in k..(n + 1) |-> f[i]]
    OBVIOUS
  <2> HIDE DEF f
  <2>6. ASSUME NEW i \in k..(n + 1)
        PROVE  f[i] = Body(f, i)
    <3>1. i <= n => f[i + 1] = g[i + 1]
      BY <2>1, <2>3
    <3>2. CASE i = k
      <4>1. k + 1 <= n + 1 /\ k <= n /\ f[k + 1] = g[k + 1]
        BY <2>1, <3>1, <3>2
      <4>2. Body(f, k) = Piece(k) \o f[k + 1]
        BY <2>1, <4>1
      <4> HIDE DEF Body
      <4> QED
        BY <2>4, <3>2, <4>1, <4>2
    <3>3. CASE i # k
      <4>1. i \in (k + 1)..(n + 1)
        BY <2>1, <3>3
      <4>2. g[i] = Body(g, i)
        BY <2>2, <4>1
      <4>3. Body(f, i) = Body(g, i)
        <5>1. CASE i > n
          BY <5>1
        <5>2. CASE i <= n
          BY <3>1, <5>2
        <5> QED
          BY <2>1, <5>1, <5>2
      <4> HIDE DEF Body
      <4> QED
        BY <2>3, <4>1, <4>2, <4>3
    <3> QED
      BY <3>2, <3>3
  <2>7. Built(f, k)
    <3> HIDE DEF Body
    <3> QED
      BY <2>5, <2>6, Zenon
  <2> QED
    BY <2>7 DEF k
<1>3. n \notin bad
  <2>1. bad \in SUBSET (0..n) /\ n \in Nat
    OBVIOUS
  <2> HIDE DEF bad
  <2> QED
    BY <1>1, <1>2, <2>1, NoneIsBad
<1>4. \E f : Built(f, 1)
  <2>1. n \in 0..n /\ n + 1 - n = 1
    OBVIOUS
  <2> QED
    BY <1>3, <2>1
<1>5. Built(Parsing(tokens), 1)
  BY <1>4 DEF Parsing, Piece
<1> QED
  BY <1>5 DEF Piece

\* A line as it is typed.
IsLine(options) == options \in Seq(Seq(STRING)) /\ \A i \in DOMAIN options : IsItem(options[i])

\* What joining makes of an option and its value: one token where the value is dashed.
TokensOf(item) ==
  IF Len(item) = 2 /\ ~IsDashed(item[2]) THEN << <<item[1]>>, <<item[2]>> >> ELSE <<item>>

\* An option is typed with a value or without.
LEMMA ItemIs ==
  ASSUME NEW item \in Seq(STRING), IsItem(item)
  PROVE  /\ item[1] \in Valued
         /\ \/ item = <<item[1]>> /\ Len(item) = 1
            \/ item = <<item[1], item[2]>> /\ Len(item) = 2 /\ item[2] \in STRING \ Option
<1>1. CASE Len(item) = 1
  BY <1>1 DEF IsItem
<1>2. CASE Len(item) = 2
  <2>1. item = <<item[1], item[2]>>
    BY <1>2
  <2>2. item[2] \in STRING
    BY <1>2
  <2> QED
    BY <1>2, <2>1, <2>2 DEF IsItem
<1> QED
  BY <1>1, <1>2 DEF IsItem

\* Its tokens are one or two.
LEMMA TokensTyped ==
  ASSUME NEW item \in Seq(STRING), IsItem(item)
  PROVE  TokensOf(item) \in Seq(Seq(STRING)) /\ Len(TokensOf(item)) \in {1, 2}
<1>1. CASE Len(item) = 2 /\ ~IsDashed(item[2])
  <2>1. 1 \in 1..Len(item) /\ 2 \in 1..Len(item)
    BY <1>1
  <2>2. <<item[1]>> \in Seq(STRING) /\ <<item[2]>> \in Seq(STRING)
    BY <2>1
  <2>3. TokensOf(item) = << <<item[1]>>, <<item[2]>> >>
    BY <1>1 DEF TokensOf
  <2> QED
    BY <2>2, <2>3
<1>2. CASE ~(Len(item) = 2 /\ ~IsDashed(item[2]))
  <2>1. TokensOf(item) = <<item>>
    BY <1>2 DEF TokensOf
  <2> QED
    BY <2>1
<1> QED
  BY <1>1, <1>2

\* Tokens are sequences of words.
LEMMA JoiningTyped ==
  ASSUME NEW argv \in Seq(STRING)
  PROVE  \A i \in 1..(Len(argv) + 2) : Joining(argv)[i] \in Seq(Seq(STRING))
<1> DEFINE n == Len(argv)
           J(i) == Joining(argv)[i]
           Typed(k) == \A i \in k..(n + 2) : J(i) \in Seq(Seq(STRING))
           bad == {m \in 0..(n + 1) : ~Typed(n + 2 - m)}
<1>1. n \in Nat
  OBVIOUS
<1>2. \A i \in 1..(n + 2) :
        J(i) = IF i > n THEN << >>
               ELSE IF i < n /\ Joins(argv[i], argv[i + 1])
               THEN << <<argv[i], argv[i + 1]>> >> \o J(i + 2)
               ELSE << <<argv[i]>> >> \o J(i + 1)
  BY <1>1, JoiningIs
<1> HIDE DEF J
<1>3. ASSUME NEW k \in 1..(n + 1), Typed(k + 1)
      PROVE  Typed(k)
  <2> DEFINE joins == k < n /\ Joins(argv[k], argv[k + 1])
  <2>1. J(k) \in Seq(Seq(STRING))
    <3>0. /\ k > n => J(k) = << >>
          /\ k <= n /\ joins => J(k) = << <<argv[k], argv[k + 1]>> >> \o J(k + 2)
          /\ k <= n /\ ~joins => J(k) = << <<argv[k]>> >> \o J(k + 1)
      <4>1. k \in 1..(n + 2)
        BY <1>1
      <4>2. J(k) = IF k > n THEN << >>
                   ELSE IF joins THEN << <<argv[k], argv[k + 1]>> >> \o J(k + 2)
                   ELSE << <<argv[k]>> >> \o J(k + 1)
        BY <1>2, <4>1
      <4> HIDE DEF joins
      <4> QED
        BY <1>1, <4>2
    <3>1. CASE k > n
      BY <3>0, <3>1
    <3>2. CASE k <= n /\ joins
      <4>1. J(k) = << <<argv[k], argv[k + 1]>> >> \o J(k + 2)
        BY <3>0, <3>2
      <4>2. <<argv[k], argv[k + 1]>> \in Seq(STRING)
        BY <1>1, <3>2
      <4>3. J(k + 2) \in Seq(Seq(STRING))
        BY <1>1, <1>3, <3>2
      <4> QED
        BY <4>1, <4>2, <4>3
    <3>3. CASE k <= n /\ ~joins
      <4>1. J(k) = << <<argv[k]>> >> \o J(k + 1)
        BY <3>0, <3>3
      <4>2. <<argv[k]>> \in Seq(STRING)
        BY <1>1, <3>3
      <4>3. J(k + 1) \in Seq(Seq(STRING))
        BY <1>1, <1>3, <3>3
      <4> QED
        BY <4>1, <4>2, <4>3
    <3> QED
      BY <1>1, <3>1, <3>2, <3>3
  <2> QED
    BY <1>1, <1>3, <2>1
<1>4. bad = {}
  <2>1. 0 \notin bad
    <3>1. n + 2 \in 1..(n + 2) /\ n + 2 > n /\ n + 2 - 0 = n + 2
      BY <1>1
    <3>2. J(n + 2) = << >>
      BY <1>2, <3>1
    <3>3. Typed(n + 2)
      <4>1. \A i \in (n + 2)..(n + 2) : i = n + 2
        BY <1>1
      <4>2. << >> \in Seq(Seq(STRING))
        OBVIOUS
      <4> QED
        BY <3>2, <4>1, <4>2
    <3> HIDE DEF Typed
    <3> QED
      BY <3>1, <3>3
  <2>2. ASSUME NEW m \in 1..(n + 1), m - 1 \notin bad
        PROVE  m \notin bad
    <3>1. /\ m - 1 \in 0..(n + 1) /\ n + 2 - (m - 1) = (n + 2 - m) + 1
          /\ n + 2 - m \in 1..(n + 1)
      BY <1>1
    <3> HIDE DEF Typed
    <3>2. Typed((n + 2 - m) + 1)
      BY <2>2, <3>1
    <3> QED
      BY <1>3, <3>1, <3>2
  <2>3. bad \in SUBSET (0..(n + 1)) /\ n + 1 \in Nat
    BY <1>1
  <2> HIDE DEF bad
  <2> QED
    BY <2>1, <2>2, <2>3, NoneIsBad
<1>5. Typed(1)
  <2>1. n + 1 \in 0..(n + 1) /\ n + 2 - (n + 1) = 1
    BY <1>1
  <2> HIDE DEF Typed
  <2>2. n + 1 \notin bad
    <3> HIDE DEF bad
    <3> QED
      BY <1>4
  <2> QED
    BY <2>1, <2>2
<1> QED
  BY <1>5 DEF J

\* The tokens of a line are those of its options, one after another.
LEMMA TokensAre ==
  ASSUME NEW options, IsLine(options), Len(options) # 0
  PROVE  LET argv == FlattenSeq(options)
             n    == Len(options)
             T    == [i \in 1..(n + 1) |-> Joining(argv)[Ending(options, i - 1) + 1]]
         IN  /\ T[1] = JoinDashed(argv) /\ T[n + 1] = << >>
             /\ \A i \in 1..n : T[i] = TokensOf(options[i]) \o T[i + 1]
<1> DEFINE argv == FlattenSeq(options)
           n == Len(options)
           E(i) == Ending(options, i)
           J(i) == Joining(argv)[i]
           W(i) == options[i]
           T == [i \in 1..(n + 1) |-> J(E(i - 1) + 1)]
<1>1. /\ n \in Nat \ {0}
      /\ \A i \in 1..n : W(i) \in Seq(STRING) /\ Len(W(i)) \in Nat /\ IsItem(W(i))
  BY DEF IsLine
<1>2. argv = Flattened(options)[n]
  BY DEF FlattenSeq, Flattened, IsLine
<1>3. /\ argv \in Seq(STRING) /\ Len(argv) = E(n)
      /\ \A i \in 1..n : /\ E(i - 1) \in Nat /\ E(i) = E(i - 1) + Len(W(i)) /\ E(i) <= E(n)
                         /\ \A j \in 1..Len(W(i)) : argv[E(i - 1) + j] = W(i)[j]
  <2>1. n \in 1..n /\ options \in Seq(Seq(STRING))
    BY <1>1 DEF IsLine
  <2>2. E(n) = Len(argv)
    BY <1>1, <1>2 DEF Ending
  <2> HIDE DEF E
  <2>3. /\ Flattened(options)[n] \in Seq(STRING)
        /\ \A i \in 1..n : /\ E(i - 1) \in Nat /\ E(i) = E(i - 1) + Len(W(i)) /\ E(i) <= E(n)
                           /\ \A j \in 1..Len(W(i)) : Flattened(options)[n][E(i - 1) + j] = W(i)[j]
    BY <2>1, FlattenedHas DEF E
  <2> HIDE DEF argv
  <2> QED
    BY <1>2, <2>2, <2>3
<1>4. E(0) = 0
  BY DEF Ending
<1>5. \A i \in 1..(Len(argv) + 2) :
        /\ J(i) \in Seq(Seq(STRING))
        /\ J(i) = IF i > Len(argv) THEN << >>
                  ELSE IF i < Len(argv) /\ Joins(argv[i], argv[i + 1])
                  THEN << <<argv[i], argv[i + 1]>> >> \o J(i + 2)
                  ELSE << <<argv[i]>> >> \o J(i + 1)
  <2>1. argv \in Seq(STRING) /\ Len(argv) \in Nat
    BY <1>3
  <2> HIDE DEF argv
  <2> QED
    BY <2>1, JoiningIs, JoiningTyped
<1>6. T[1] = JoinDashed(argv)
  <2>1. T[1] = J(1)
    BY <1>1, <1>4
  <2>2. JoinDashed(argv) = J(1)
    BY DEF JoinDashed, Joining
  <2> QED
    BY <2>1, <2>2
<1> HIDE DEF argv, E, J, W
<1>7. T[n + 1] = << >>
  <2>1. T[n + 1] = J(Len(argv) + 1)
    BY <1>1, <1>3
  <2>2. Len(argv) \in Nat
    BY <1>3
  <2>3. Len(argv) + 1 \in 1..(Len(argv) + 2) /\ Len(argv) + 1 > Len(argv)
    BY <2>2
  <2> QED
    BY <1>5, <2>1, <2>3
<1>8. ASSUME NEW i \in 1..n
      PROVE  T[i] = TokensOf(W(i)) \o T[i + 1]
  <2> DEFINE a == E(i - 1) + 1
             end == Len(argv)
  <2>1. /\ T[i] = J(a) /\ T[i + 1] = J(E(i) + 1)
        /\ a \in 1..end /\ E(i) = E(i - 1) + Len(W(i)) /\ end \in Nat /\ E(i) <= end
    <3>1. /\ i \in 1..(n + 1) /\ i + 1 \in 1..(n + 1) /\ (i + 1) - 1 = i
      BY <1>1
    <3>2. /\ E(i - 1) \in Nat /\ E(i) = E(i - 1) + Len(W(i)) /\ E(i) <= end /\ end \in Nat
          /\ Len(W(i)) \in Nat \ {0}
      <4>1. /\ E(i - 1) \in Nat /\ E(i) = E(i - 1) + Len(W(i)) /\ E(i) <= E(n)
            /\ Len(argv) = E(n) /\ Len(argv) \in Nat
        BY <1>3
      <4>2. Len(W(i)) \in {1, 2}
        BY <1>1 DEF IsItem
      <4>3. Len(W(i)) \in Nat \ {0}
        BY <4>2
      <4>4. E(i) <= end /\ end \in Nat
        BY <4>1
      <4> QED
        BY <4>1, <4>3, <4>4
    <3>3. T[i] = J(a) /\ T[i + 1] = J(E(i) + 1)
      BY <3>1
    <3>4. a \in 1..end
      BY <3>2
    <3> QED
      BY <3>2, <3>3, <3>4
  <2>2. /\ W(i)[1] \in Valued
        /\ \/ W(i) = <<W(i)[1]>> /\ Len(W(i)) = 1
           \/ W(i) = <<W(i)[1], W(i)[2]>> /\ Len(W(i)) = 2 /\ W(i)[2] \in STRING \ Option
    BY <1>1, ItemIs
  <2>3. argv[a] = W(i)[1]
    BY <1>3, <2>2
  <2>4. J(a) = IF a < end /\ Joins(argv[a], argv[a + 1])
               THEN << <<argv[a], argv[a + 1]>> >> \o J(a + 2)
               ELSE << <<argv[a]>> >> \o J(a + 1)
    <3>1. a \in 1..(end + 2) /\ ~(a > end)
      BY <2>1
    <3> HIDE DEF a
    <3> QED
      BY <1>5, <3>1
  <2>5. CASE Len(W(i)) = 1
    <3>1. ~(a < end /\ Joins(argv[a], argv[a + 1]))
      <4> SUFFICES ASSUME a < end
                   PROVE  ~Joins(argv[a], argv[a + 1])
        OBVIOUS
      <4>1. E(i) = a /\ i # n
        BY <1>1, <1>3, <2>1, <2>5
      <4>2. i + 1 \in 1..n /\ (i + 1) - 1 = i
        BY <4>1
      <4>3. W(i + 1)[1] \in Valued /\ 1 \in 1..Len(W(i + 1))
        BY <1>1, <4>2 DEF IsItem
      <4>4. argv[E((i + 1) - 1) + 1] = W(i + 1)[1]
        BY <1>3, <4>2, <4>3
      <4>5. argv[a + 1] = W(i + 1)[1]
        BY <4>1, <4>2, <4>4
      <4> QED
        BY <4>3, <4>5 DEF Joins, Option
    <3>2. J(a) = << <<argv[a]>> >> \o J(E(i) + 1)
      BY <2>1, <2>4, <2>5, <3>1
    <3>3. TokensOf(W(i)) = << <<W(i)[1]>> >>
      BY <2>2, <2>5 DEF TokensOf
    <3> QED
      BY <2>1, <2>3, <3>2, <3>3
  <2>6. CASE Len(W(i)) = 2
    <3>1. /\ argv[a + 1] = W(i)[2] /\ a < end /\ E(i) + 1 = a + 2 /\ W(i)[2] \notin Option
          /\ W(i) = <<W(i)[1], W(i)[2]>>
      <4>1. argv[E(i - 1) + 2] = W(i)[2]
        <5>1. 2 \in 1..Len(W(i))
          BY <2>6
        <5> QED
          BY <1>3, <5>1
      <4>2. E(i - 1) \in Nat
        BY <1>3
      <4>3. a + 1 = E(i - 1) + 2 /\ a < end /\ E(i) + 1 = a + 2
        BY <2>1, <2>6, <4>2
      <4> HIDE DEF a
      <4> QED
        BY <2>2, <2>6, <4>1, <4>3
    <3>2. CASE IsDashed(W(i)[2])
      <4>1. Joins(argv[a], argv[a + 1])
        BY <2>2, <2>3, <3>1, <3>2 DEF Joins
      <4>2. TokensOf(W(i)) = << <<W(i)[1], W(i)[2]>> >>
        BY <2>6, <3>1, <3>2 DEF TokensOf
      <4> QED
        BY <2>1, <2>3, <2>4, <3>1, <4>1, <4>2
    <3>3. CASE ~IsDashed(W(i)[2])
      <4>1. ~Joins(argv[a], argv[a + 1])
        BY <3>1, <3>3 DEF Joins
      <4>2. J(a) = << <<W(i)[1]>> >> \o J(a + 1)
        BY <2>3, <2>4, <4>1
      <4>3. ~Joins(argv[a + 1], argv[(a + 1) + 1])
        BY <3>1 DEF Joins, Option
      <4>4. /\ a + 1 \in 1..(end + 2) /\ ~(a + 1 > end) /\ (a + 1) + 1 = a + 2
        BY <2>1, <3>1
      <4>5. J(a + 1) = << <<W(i)[2]>> >> \o J(a + 2)
        BY <1>5, <3>1, <4>3, <4>4
      <4>6. TokensOf(W(i)) = << <<W(i)[1]>>, <<W(i)[2]>> >>
        BY <2>6, <3>3 DEF TokensOf
      <4>7. J(a + 2) \in Seq(Seq(STRING)) /\ W(i)[1] \in STRING /\ W(i)[2] \in STRING
        <5>1. a + 2 \in 1..(end + 2)
          BY <2>1, <3>1
        <5>2. W(i) \in Seq(STRING) /\ 1 \in 1..Len(W(i)) /\ 2 \in 1..Len(W(i))
          BY <1>1, <2>6
        <5>3. W(i)[1] \in STRING /\ W(i)[2] \in STRING
          BY <5>2
        <5> HIDE DEF a
        <5> QED
          BY <1>5, <5>1, <5>3
      <4>8. << <<W(i)[1]>> >> \o (<< <<W(i)[2]>> >> \o J(a + 2)) =
              << <<W(i)[1]>>, <<W(i)[2]>> >> \o J(a + 2)
        BY <4>7
      <4> QED
        BY <2>1, <3>1, <4>2, <4>5, <4>6, <4>8
    <3> QED
      BY <3>2, <3>3
  <2> QED
    BY <2>2, <2>5, <2>6
<1> QED
  BY <1>6, <1>7, <1>8 DEF argv, E, J, W

\* What is parsed is a sequence of options, each with its value.
LEMMA ParsingTyped ==
  ASSUME NEW tokens, Len(tokens) \in Nat
  PROVE  \A i \in 1..(Len(tokens) + 1) :
           Parsing(tokens)[i] \in Seq({<<tokens[j][1], Value(tokens, j)>> : j \in 1..Len(tokens)})
<1> DEFINE n == Len(tokens)
           S == {<<tokens[j][1], Value(tokens, j)>> : j \in 1..n}
           P(i) == Parsing(tokens)[i]
           Pair(i) == <<tokens[i][1], Value(tokens, i)>>
           bad == {m \in 0..n : P(n + 1 - m) \notin Seq(S)}
<1>1. n \in Nat
  OBVIOUS
<1>2. \A i \in 1..(n + 1) :
        P(i) = IF i > n THEN << >>
               ELSE (IF tokens[i][1] \in Valued THEN <<Pair(i)>> ELSE << >>) \o P(i + 1)
  BY <1>1, ParsingIs
<1>3. \A i \in 1..n : Pair(i) \in S
  OBVIOUS
<1> HIDE DEF P, S, Pair
<1>4. 0 \notin bad
  <2>1. n + 1 \in 1..(n + 1) /\ n + 1 > n /\ n + 1 - 0 = n + 1
    BY <1>1
  <2>2. P(n + 1) = << >>
    BY <1>2, <2>1
  <2>3. << >> \in Seq(S)
    OBVIOUS
  <2> QED
    BY <2>1, <2>2, <2>3
<1>5. ASSUME NEW m \in 1..n, m - 1 \notin bad
      PROVE  m \notin bad
  <2> DEFINE i == n + 1 - m
  <2>1. /\ i \in 1..n /\ m - 1 \in 0..n /\ n + 1 - (m - 1) = i + 1
        /\ i \in 1..(n + 1) /\ ~(i > n)
    BY <1>1
  <2>2. P(i + 1) \in Seq(S)
    BY <1>5, <2>1
  <2> HIDE DEF i
  <2>3. P(i) = (IF tokens[i][1] \in Valued THEN <<Pair(i)>> ELSE << >>) \o P(i + 1)
    BY <1>2, <2>1
  <2>4. Pair(i) \in S
    BY <1>3, <2>1
  <2>5. P(i) \in Seq(S)
    BY <2>2, <2>3, <2>4
  <2> QED
    BY <2>5 DEF i
<1>6. bad = {}
  <2>1. bad \in SUBSET (0..n)
    OBVIOUS
  <2> HIDE DEF bad
  <2> QED
    BY <1>1, <1>4, <1>5, <2>1, NoneIsBad
<1>7. ASSUME NEW i \in 1..(n + 1)
      PROVE  P(i) \in Seq(S)
  <2>1. n + 1 - i \in 0..n /\ n + 1 - (n + 1 - i) = i
    BY <1>1
  <2>2. n + 1 - i \notin bad
    <3> HIDE DEF bad
    <3> QED
      BY <1>6
  <2> QED
    BY <2>1, <2>2
<1> QED
  BY <1>7 DEF P, S

\* What an option is read as, from how it was typed.
Reading(item) ==
  <<item[1], IF Len(item) = 1 THEN "usage" ELSE IF item[2] = "--" THEN "[]" ELSE item[2]>>

\* Its tokens, parsed, are that reading, whatever option comes behind it.
LEMMA ReadingIs ==
  ASSUME NEW item \in Seq(STRING), IsItem(item), NEW tokens, NEW before \in Nat,
         Len(tokens) \in Nat, before + Len(TokensOf(item)) <= Len(tokens),
         \A j \in 1..Len(TokensOf(item)) : tokens[before + j] = TokensOf(item)[j],
         LET next == before + Len(TokensOf(item)) + 1
         IN  next <= Len(tokens) =>
               tokens[next][1] \in Valued
  PROVE  /\ Len(TokensOf(item)) \in {1, 2}
         /\ Parsing(tokens)[before + 1] =
              <<Reading(item)>> \o Parsing(tokens)[before + Len(TokensOf(item)) + 1]
<1> DEFINE k == before + 1
           n == Len(tokens)
           mine == TokensOf(item)
           P(i) == Parsing(tokens)[i]
<1>1. /\ item[1] \in Valued
      /\ \/ item = <<item[1]>> /\ Len(item) = 1
         \/ item = <<item[1], item[2]>> /\ Len(item) = 2 /\ item[2] \in STRING \ Option
  BY ItemIs
<1>2. \A i \in 1..(n + 1) :
        /\ P(i) = IF i > n THEN << >>
                  ELSE (IF tokens[i][1] \in Valued THEN << <<tokens[i][1], Value(tokens, i)>> >>
                                                   ELSE << >>) \o P(i + 1)
        /\ P(i) \in Seq({<<tokens[j][1], Value(tokens, j)>> : j \in 1..n})
  <2>1. \A i \in 1..(n + 1) :
          P(i) = IF i > n THEN << >>
                 ELSE (IF tokens[i][1] \in Valued THEN << <<tokens[i][1], Value(tokens, i)>> >>
                                                  ELSE << >>) \o P(i + 1)
    BY ParsingIs
  <2>2. \A i \in 1..(n + 1) :
          P(i) \in Seq({<<tokens[j][1], Value(tokens, j)>> : j \in 1..n})
    BY ParsingTyped
  <2> HIDE DEF P
  <2> QED
    BY <2>1, <2>2
<1> HIDE DEF P
<1>3. CASE Len(item) = 2 /\ ~IsDashed(item[2])
  <2>1. mine = << <<item[1]>>, <<item[2]>> >> /\ Len(mine) = 2
    BY <1>3 DEF TokensOf
  <2>2. tokens[k] = <<item[1]>> /\ tokens[k + 1] = <<item[2]>> /\ k + 1 <= n
    BY <2>1
  <2>3. Value(tokens, k) = item[2] /\ item[2] # "--"
    BY <1>3, <2>2 DEF Value, IsDashed
  <2>4. /\ k \in 1..(n + 1) /\ ~(k > n)
        /\ k + 1 \in 1..(n + 1) /\ ~(k + 1 > n) /\ k + 2 \in 1..(n + 1)
    <3>1. n \in Nat /\ k \in Nat \ {0} /\ k + 1 <= n
      BY <2>2
    <3> HIDE DEF n, k
    <3> QED
      BY <3>1
  <2>5. item[2] \notin Valued
    BY <1>1, <1>3 DEF Option
  <2> HIDE DEF k
  <2>6. P(k) = << <<item[1], item[2]>> >> \o P(k + 1)
    <3>1. P(k) = (IF tokens[k][1] \in Valued THEN << <<tokens[k][1], Value(tokens, k)>> >>
                                              ELSE << >>) \o P(k + 1)
      BY <1>2, <2>4
    <3>2. tokens[k][1] = item[1]
      BY <2>2
    <3> QED
      BY <1>1, <2>3, <3>1, <3>2
  <2>7. P(k + 1) = << >> \o P((k + 1) + 1)
    <3>1. P(k + 1) = (IF tokens[k + 1][1] \in Valued
                      THEN << <<tokens[k + 1][1], Value(tokens, k + 1)>> >>
                      ELSE << >>) \o P((k + 1) + 1)
      BY <1>2, <2>4
    <3>2. tokens[k + 1][1] = item[2]
      BY <2>2
    <3> QED
      BY <2>5, <3>1, <3>2
  <2>8. (k + 1) + 1 = k + 2 /\ before + Len(mine) + 1 = k + 2
    BY <2>1 DEF k
  <2>9. P(k + 1) = P(k + 2)
    BY <1>2, <2>4, <2>7, <2>8
  <2>10. Reading(item) = <<item[1], item[2]>>
    BY <1>3, <2>3 DEF Reading
  <2> QED
    BY <2>1, <2>6, <2>8, <2>9, <2>10 DEF P, k
<1>4. CASE ~(Len(item) = 2 /\ ~IsDashed(item[2]))
  <2>1. mine = <<item>> /\ Len(mine) = 1 /\ mine[1] = item
    BY <1>4 DEF TokensOf
  <2>2. tokens[k] = item /\ k <= n
    BY <2>1
  <2>3. k \in 1..(n + 1) /\ ~(k > n) /\ before + Len(mine) + 1 = k + 1
    BY <2>1, <2>2
  <2>4. k + 1 <= n => tokens[k + 1][1] \in Valued
    BY <2>1, <2>3
  <2> HIDE DEF k, mine
  <2>5. <<item[1], Value(tokens, k)>> = Reading(item)
    <3>1. CASE Len(item) = 1
      <4>1. Value(tokens, k) = "usage"
        <5>1. k < n => k + 1 <= n
          BY <2>3
        <5>2. k < n => IsDashed(tokens[k + 1][1])
          BY <2>4, <5>1 DEF IsDashed, Option
        <5> QED
          BY <2>2, <3>1, <5>2 DEF Value
      <4> QED
        BY <3>1, <4>1 DEF Reading
    <3>2. CASE Len(item) = 2
      BY <2>2, <3>2 DEF Value, Reading
    <3> QED
      BY <1>1, <3>1, <3>2
  <2>6. P(k) = <<Reading(item)>> \o P(k + 1)
    BY <1>1, <1>2, <2>2, <2>3, <2>5
  <2> QED
    BY <2>1, <2>3, <2>6 DEF P, k, mine
<1> QED
  BY <1>3, <1>4

\* Every option of a line is read so, in its place.
LEMMA LineArrives ==
  ASSUME NEW options, IsLine(options), Len(options) # 0
  PROVE  \A i \in 1..Len(options) : Parsed(FlattenSeq(options))[i] = Reading(options[i])
<1> DEFINE argv == FlattenSeq(options)
           n == Len(options)
           W(i) == options[i]
           T == [i \in 1..(n + 1) |-> Joining(argv)[Ending(options, i - 1) + 1]]
           tokens == JoinDashed(argv)
           off(i) == Len(tokens) - Len(T[i])
           P(i) == Parsing(tokens)[i]
           R == [i \in 1..(n + 1) |-> P(off(i) + 1)]
           mine == [i \in 1..n |-> TokensOf(W(i))]
           answer == [i \in 1..n |-> <<Reading(W(i))>>]
           A == {Reading(W(i)) : i \in 1..n}
<1>1. /\ n \in Nat \ {0}
      /\ \A i \in 1..n : W(i) \in Seq(STRING) /\ IsItem(W(i))
  BY DEF IsLine
<1>2. /\ T[1] = tokens /\ T[n + 1] = << >>
      /\ \A i \in 1..n : T[i] = TokensOf(W(i)) \o T[i + 1]
  BY TokensAre
<1>3. \A i \in 1..n : TokensOf(W(i)) \in Seq(Seq(STRING)) /\ Len(TokensOf(W(i))) \in {1, 2}
  <2> HIDE DEF W
  <2> QED
    BY <1>1, TokensTyped
<1> HIDE DEF argv, n, T, W, tokens
<1>4. Tailed(Seq(STRING), n, T, mine)
  <2>1. \A i \in 1..n : mine[i] = TokensOf(W(i))
    OBVIOUS
  <2> HIDE DEF mine
  <2>2. \A i \in 1..n : mine[i] \in Seq(Seq(STRING)) /\ T[i] = mine[i] \o T[i + 1]
    BY <1>2, <1>3, <2>1
  <2> QED
    BY <1>1, <1>2, <2>2, TailsAre
<1>5. /\ Len(tokens) \in Nat /\ off(1) = 0 /\ off(n + 1) = Len(tokens)
      /\ \A i \in 1..(n + 1) : Len(T[i]) \in Nat /\ off(i) \in Nat /\ off(i) <= Len(tokens)
      /\ \A i \in 1..n : /\ Len(TokensOf(W(i))) \in Nat
                         /\ off(i + 1) = off(i) + Len(TokensOf(W(i)))
  <2>1. \A i \in 1..(n + 1) : Len(T[i]) \in Nat /\ Len(T[i]) <= Len(tokens)
    BY <1>2, <1>4 DEF Tailed
  <2>2. Len(tokens) \in Nat /\ Len(T[1]) = Len(tokens) /\ Len(T[n + 1]) = 0
    BY <1>1, <1>2, <2>1
  <2>3. \A i \in 1..n : Len(T[i]) = Len(TokensOf(W(i))) + Len(T[i + 1])
    BY <1>4 DEF Tailed
  <2>4. \A i \in 1..n : i \in 1..(n + 1) /\ i + 1 \in 1..(n + 1) /\ Len(TokensOf(W(i))) \in Nat
    BY <1>1, <1>3
  <2>5. ASSUME NEW i \in 1..(n + 1)
        PROVE  Len(T[i]) \in Nat /\ off(i) \in Nat /\ off(i) <= Len(tokens)
    BY <2>1, <2>2
  <2>6. ASSUME NEW i \in 1..n
        PROVE  off(i + 1) = off(i) + Len(TokensOf(W(i)))
    <3>1. /\ Len(T[i]) \in Nat /\ Len(T[i + 1]) \in Nat /\ Len(TokensOf(W(i))) \in Nat
          /\ Len(T[i]) = Len(TokensOf(W(i))) + Len(T[i + 1])
      BY <2>1, <2>3, <2>4
    <3> QED
      BY <2>2, <3>1
  <2>7. off(1) = 0 /\ off(n + 1) = Len(tokens)
    BY <2>2
  <2> HIDE DEF off
  <2> QED
    BY <2>2, <2>4, <2>5, <2>6, <2>7
<1>6. ASSUME NEW i \in 1..n
      PROVE  \A j \in 1..Len(TokensOf(W(i))) : tokens[off(i) + j] = TokensOf(W(i))[j]
  <2>1. /\ i \in 1..(n + 1) /\ mine[i] = TokensOf(W(i)) /\ Len(T[i]) \in Nat
        /\ Len(T[i]) = Len(TokensOf(W(i))) + Len(T[i + 1]) /\ Len(T[i + 1]) \in Nat
        /\ Len(TokensOf(W(i))) \in Nat
    BY <1>1, <1>3, <1>4, <1>5 DEF Tailed
  <2>2. \A j \in 1..Len(TokensOf(W(i))) : j \in 1..Len(T[i]) /\ T[i][j] = TokensOf(W(i))[j]
    BY <1>4, <2>1 DEF Tailed
  <2>3. \A j \in 1..Len(T[i]) : tokens[off(i) + j] = T[i][j]
    BY <1>2, <1>4, <2>1 DEF Tailed
  <2> QED
    BY <2>2, <2>3
<1>7. ASSUME NEW i \in 1..n
      PROVE  R[i] = answer[i] \o R[i + 1]
  <2>1. /\ i \in 1..(n + 1) /\ i + 1 \in 1..(n + 1)
        /\ off(i) \in Nat /\ off(i + 1) = off(i) + Len(TokensOf(W(i)))
        /\ off(i + 1) \in Nat /\ Len(TokensOf(W(i))) \in Nat
    <3>1. i \in 1..(n + 1) /\ i + 1 \in 1..(n + 1)
      BY <1>1
    <3> HIDE DEF off
    <3> QED
      BY <1>5, <3>1
  <2>2. off(i + 1) <= Len(tokens)
    <3> HIDE DEF off
    <3> QED
      BY <1>5, <2>1
  <2>3. off(i + 1) + 1 <= Len(tokens) => tokens[off(i + 1) + 1][1] \in Valued
    <3> SUFFICES ASSUME off(i + 1) + 1 <= Len(tokens)
                 PROVE  tokens[off(i + 1) + 1][1] \in Valued
      OBVIOUS
    <3>1. i # n
      BY <1>5
    <3>2. i + 1 \in 1..n
      BY <1>1, <3>1
    <3>3. tokens[off(i + 1) + 1] = TokensOf(W(i + 1))[1]
      <4>1. 1 \in 1..Len(TokensOf(W(i + 1)))
        <5>1. Len(TokensOf(W(i + 1))) \in {1, 2}
          BY <1>3, <3>2
        <5>2. \A length \in {1, 2} : 1 \in 1..length
          OBVIOUS
        <5> QED
          BY <5>1, <5>2, Zenon
      <4> HIDE DEF off
      <4> QED
        BY <1>6, <3>2, <4>1
    <3>4. TokensOf(W(i + 1))[1][1] = W(i + 1)[1]
      BY DEF TokensOf
    <3>5. W(i + 1)[1] \in Valued
      BY <1>1, <3>2 DEF IsItem
    <3> QED
      BY <3>3, <3>4, <3>5
  <2>4. W(i) \in Seq(STRING) /\ IsItem(W(i))
    BY <1>1
  <2>5. \A j \in 1..Len(TokensOf(W(i))) : tokens[off(i) + j] = TokensOf(W(i))[j]
    BY <1>6
  <2>6. R[i] = P(off(i) + 1) /\ R[i + 1] = P(off(i + 1) + 1) /\ answer[i] = <<Reading(W(i))>>
    BY <2>1
  <2> HIDE DEF R, off, answer
  <2>7. P(off(i) + 1) = <<Reading(W(i))>> \o P(off(i) + Len(TokensOf(W(i))) + 1)
    BY <1>5, <2>1, <2>2, <2>3, <2>4, <2>5, ReadingIs
  <2> QED
    BY <2>1, <2>6, <2>7
<1>8. R[n + 1] = << >> /\ R[1] = Parsed(argv)
  <2>1. R[n + 1] = P(Len(tokens) + 1) /\ R[1] = P(1)
    <3>1. /\ 1 \in 1..(n + 1) /\ n + 1 \in 1..(n + 1)
          /\ off(1) + 1 = 1 /\ off(n + 1) + 1 = Len(tokens) + 1
      <4>1. off(1) = 0 /\ off(n + 1) = Len(tokens)
        BY <1>5
      <4> HIDE DEF off
      <4> QED
        BY <1>1, <4>1
    <3> HIDE DEF off, P
    <3> QED
      BY <3>1
  <2>2. P(Len(tokens) + 1) = << >>
    <3>1. Len(tokens) + 1 \in 1..(Len(tokens) + 1) /\ Len(tokens) + 1 > Len(tokens)
      BY <1>5
    <3> QED
      BY <1>5, <3>1, ParsingIs
  <2>3. P(1) = Parsed(argv)
    BY DEF Parsed, Parsing, tokens
  <2> QED
    BY <2>1, <2>2, <2>3
<1>9. Tailed(A, n, R, answer)
  <2>1. \A i \in 1..n : answer[i] \in Seq(A)
    OBVIOUS
  <2> HIDE DEF answer, R, A
  <2>2. \A i \in 1..n : answer[i] \in Seq(A) /\ R[i] = answer[i] \o R[i + 1]
    BY <1>7, <2>1
  <2> QED
    BY <1>1, <1>8, <2>2, TailsAre
<1>10. \A i \in 1..n : Len(answer[i]) = 1 /\ answer[i][1] = Reading(W(i))
  OBVIOUS
<1> HIDE DEF R, answer
<1>11. ASSUME NEW i \in 1..(n + 1)
       PROVE  Len(R[1]) - Len(R[i]) = i - 1
  <2> DEFINE bad == {m \in 0..n : Len(R[1]) - Len(R[m + 1]) # m}
  <2>1. \A m \in 0..n : m + 1 \in 1..(n + 1) /\ Len(R[m + 1]) \in Nat
    BY <1>1, <1>9 DEF Tailed
  <2>2. 0 \notin bad
    BY <1>1, <2>1
  <2>3. ASSUME NEW m \in 1..n, m - 1 \notin bad
        PROVE  m \notin bad
    <3>1. m - 1 \in 0..n /\ (m - 1) + 1 = m /\ m \in 0..n
      BY <1>1
    <3>2. Len(R[1]) - Len(R[m]) = m - 1
      BY <2>3, <3>1
    <3>3. Len(R[m]) = 1 + Len(R[m + 1])
      BY <1>9, <1>10 DEF Tailed
    <3>4. Len(R[m + 1]) \in Nat /\ Len(R[m]) \in Nat /\ Len(R[1]) \in Nat
      BY <1>1, <2>1, <3>1
    <3> QED
      BY <3>2, <3>3, <3>4
  <2>4. bad \in SUBSET (0..n) /\ n \in Nat
    BY <1>1
  <2>5. bad = {}
    <3> HIDE DEF bad
    <3> QED
      BY <2>2, <2>3, <2>4, NoneIsBad
  <2>6. i - 1 \in 0..n /\ (i - 1) + 1 = i
    BY <1>1
  <2>7. i - 1 \notin bad
    <3> HIDE DEF bad
    <3> QED
      BY <2>5
  <2> QED
    BY <2>6, <2>7
<1>12. ASSUME NEW i \in 1..n
       PROVE  Parsed(argv)[i] = Reading(W(i))
  <2>1. i \in 1..(n + 1) /\ i + 1 \in 1..(n + 1) /\ (i - 1) + 1 = i
    BY <1>1
  <2>2. Len(R[1]) - Len(R[i]) = i - 1
    BY <1>11, <2>1
  <2>3. 1 \in 1..Len(R[i]) /\ R[i][1] = Reading(W(i))
    <3>1. Len(R[i]) = 1 + Len(R[i + 1]) /\ Len(R[i + 1]) \in Nat
      BY <1>9, <1>10, <2>1 DEF Tailed
    <3>2. 1 \in 1..Len(answer[i]) /\ answer[i][1] = Reading(W(i))
      BY <1>10
    <3>3. R[i][1] = answer[i][1]
      BY <1>9, <3>2 DEF Tailed
    <3> QED
      BY <3>1, <3>2, <3>3
  <2>4. R[1][(i - 1) + 1] = R[i][1]
    BY <1>9, <2>1, <2>2, <2>3 DEF Tailed
  <2> QED
    BY <1>8, <2>1, <2>3, <2>4
<1> QED
  BY <1>12 DEF argv, n, W

-----------------------------------------------------------------------------
(* What follows for the questions put to the rules.                        *)

\* What is asked is one of the inputs.
AskedIsReal ==
  /\ Asked("window") => asked.input \in Window
  /\ Asked("given") => asked.input \in Given
  /\ Asked("line") => IsLine(asked.input)
  /\ Asked("declared") => asked.input \in Declared

\* Every question is about one of the inputs.
LEMMA AskedInvariance == RulesSpec => []AskedIsReal
<1>1. RulesInit => AskedIsReal
  BY DEF RulesInit, AskedIsReal, Asked, NothingAsked
<1>2. AskedIsReal /\ [RulesNext]_asked => AskedIsReal'
  <2> SUFFICES ASSUME AskedIsReal, [RulesNext]_asked
               PROVE  AskedIsReal'
    OBVIOUS
  <2>1. CASE AskLine
    <3>1. \A l \in CommandLine : IsLine(l)
      BY InputsAreReal DEF IsLine
    <3> QED
      BY <2>1, <3>1 DEF AskedIsReal, AskLine, Asked
  <2>2. CASE AskWindow \/ AskGiven \/ AskDeclared \/ AskDocument
    BY <2>2 DEF AskedIsReal, AskWindow, AskGiven, AskDeclared, AskDocument, Asked
  <2>3. CASE UNCHANGED asked
    BY <2>3 DEF AskedIsReal, Asked
  <2> QED
    BY <2>1, <2>2, <2>3 DEF RulesNext
<1> QED
  BY <1>1, <1>2, PTL DEF RulesSpec

\* tokens.expiry refuses exactly what could not be read back a margin from either
\* end of time; what it accepts reads back in every session time zone.
THEOREM ExpiriesReadBack == RulesSpec => []WindowsReadBack
<1>1. AskedIsReal => WindowsReadBack
  BY InputsAreReal, ExpiryJudged DEF AskedIsReal, WindowsReadBack
<1> QED
  BY <1>1, AskedInvariance, PTL

\* identity.py and consent.py against the CHECKs of the migration: what the module
\* lets through the columns admit, whatever the text and however long.
THEOREM AcceptedIsStored == RulesSpec => []AcceptedMeansStored
<1>1. AskedIsReal => AcceptedMeansStored
  BY InputsAreReal, RulesAgreeWithTheSchema, FilesAndStdinAreAnswered
  DEF AskedIsReal, AcceptedMeansStored
<1> QED
  BY <1>1, AskedInvariance, PTL

\* The questions of postgres.py, answered green, leave no statement past the
\* policies and no reference across tenants.
THEOREM GreenIsIsolation == RulesSpec => []GreenMeansIsolated
<1>1. AskedIsReal => GreenMeansIsolated
  BY InputsAreReal, GreenIsIsolated DEF AskedIsReal, GreenMeansIsolated
<1> QED
  BY <1>1, AskedInvariance, PTL

\* A value reaches its option as it was typed, whatever it begins with and however
\* long the line: no option of it swallows another, and one without a value is
\* the usage error.
THEOREM DashesArrive == RulesSpec => []DashedValuesArrive
<1>1. ASSUME AskedIsReal, Asked("line"), NEW i \in DOMAIN asked.input
      PROVE  LET typed == asked.input[i]
             IN  /\ Arrived[i][1] = typed[1]
                 /\ Len(typed) = 1 => Arrived[i][2] = "usage"
                 /\ Len(typed) = 2 /\ typed[2] # "--" => Arrived[i][2] = typed[2]
  <2>1. IsLine(asked.input)
    BY <1>1 DEF AskedIsReal
  <2>2. i \in 1..Len(asked.input) /\ Len(asked.input) # 0
    BY <1>1, <2>1 DEF IsLine
  <2>3. Arrived[i] = Reading(asked.input[i])
    BY <2>1, <2>2, LineArrives DEF Arrived
  <2> QED
    BY <2>3 DEF Reading
<1>2. AskedIsReal => DashedValuesArrive
  BY <1>1, Zenon DEF DashedValuesArrive
<1> QED
  BY <1>2, AskedInvariance, PTL
=============================================================================
