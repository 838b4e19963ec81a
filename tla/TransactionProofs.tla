-------------------------- MODULE TransactionProofs --------------------------
(***************************************************************************)
(* Theorems about Transaction, for any number of sessions, calls and doors *)
(* in a transaction: where a door alone in its transaction may hold a lock *)
(* or an entry of a unique index, and that doors so run never wait in a    *)
(* circle; and that transactions of any number of doors commit as if they  *)
(* ran one after another, so the committed tables keep every promise of    *)
(* Account.  SerialOK is the inductive invariant of the second half.       *)
(***************************************************************************)
EXTENDS Transaction, FiniteSetTheorems, TLAPS

-----------------------------------------------------------------------------
(* Locks and entries.                                                      *)

\* What the record of a transaction has.
Fields == {"log", "calls", "req", "next", "staged", "entries", "failed"}

\* A session's first door has entered nothing yet; it holds its customer's row
\* once past its lock, and shares it once it is about to write.
FirstDoorOK(s) ==
  tx[s].calls <= 1 /\ InDoor(s) =>
    /\ tx[s].entries = {}
    /\ \A c \in Customer :
         /\ rowLock[c] = s => /\ Stage(s) \in {"check", "write"}
                              /\ Stages(tx[s].req.door)[1] = "lock"
         /\ s \in keyShare[c] => Stage(s) = "write"

\* Locks and entries belong to transactions that run, and a door is at one of its
\* own stages.
LocksOK ==
  /\ DOMAIN tx = Session /\ rowLock \in [Customer -> Session \cup {NoSession}]
  /\ keyShare \in [Customer -> SUBSET Session]
  /\ \A s \in Session :
       /\ DOMAIN tx[s] = Fields /\ tx[s].calls \in Nat /\ tx[s].next \in Nat
       /\ tx[s].req \in Requests \cup {NoRequest}
       /\ ~Running(s) => /\ ~InDoor(s) /\ tx[s].entries = {}
                         /\ \A c \in Customer : rowLock[c] # s /\ s \notin keyShare[c]
       /\ FirstDoorOK(s)
       /\ InDoor(s) => tx[s].next \in 1..Len(Stages(tx[s].req.door))

\* One session moves, within its locks, and the others stay where they are.
LEMMA OthersStay ==
  ASSUME LocksOK, NEW s \in Session, DOMAIN tx' = Session,
         \A q \in Session \ {s} : tx'[q] = tx[q],
         rowLock' \in [Customer -> Session \cup {NoSession}],
         keyShare' \in [Customer -> SUBSET Session],
         \A q \in Session \ {s} : \A c \in Customer :
           /\ rowLock'[c] = q => rowLock[c] = q
           /\ q \in keyShare'[c] => q \in keyShare[c],
         DOMAIN tx'[s] = Fields, tx'[s].calls \in Nat, tx'[s].next \in Nat,
         tx'[s].req \in Requests \cup {NoRequest},
         ~Running(s)' => /\ ~InDoor(s)' /\ tx'[s].entries = {}
                         /\ \A c \in Customer : rowLock'[c] # s /\ s \notin keyShare'[c],
         FirstDoorOK(s)',
         InDoor(s)' => tx'[s].next \in 1..Len(Stages(tx'[s].req.door))
  PROVE  LocksOK'
<1>1. ASSUME NEW q \in Session \ {s}
      PROVE  /\ Running(q)' = Running(q) /\ InDoor(q)' = InDoor(q) /\ Stage(q)' = Stage(q)
             /\ FirstDoorOK(q)'
  <2>1. Running(q)' = Running(q) /\ InDoor(q)' = InDoor(q) /\ Stage(q)' = Stage(q)
    BY DEF Running, InDoor, Stage
  <2> QED
    BY <2>1 DEF LocksOK, FirstDoorOK
<1> QED
  BY <1>1 DEF LocksOK

\* Every door locks or checks first and writes last.
LEMMA StagesAre ==
  ASSUME NEW door
  PROVE  /\ Len(Stages(door)) \in {2, 3}
         /\ Stages(door)[1] \in {"lock", "check"}
         /\ Stages(door)[2] \in {"check", "share", "write"}
         /\ Len(Stages(door)) = 3 => Stages(door)[3] = "write"
         /\ Len(Stages(door)) = 2 => Stages(door)[2] = "write"
         /\ Stages(door)[1] = "lock" => Stages(door)[2] = "check"
BY DEF Stages

-----------------------------------------------------------------------------
(* Step by step.                                                           *)

\* The first door of a transaction begins with nothing held; of a later one
\* nothing is said.
LEMMA BeginKeepsLocks ==
  ASSUME LocksOK, NEW s \in Session, NEW req \in Call, Begin(s, req)
  PROVE  LocksOK'
<1>1. /\ DOMAIN tx' = Session /\ \A q \in Session \ {s} : tx'[q] = tx[q]
      /\ DOMAIN tx'[s] = Fields /\ tx'[s].calls = tx[s].calls + 1 /\ tx'[s].next = 1
      /\ tx'[s].req = req /\ tx'[s].entries = tx[s].entries
  BY DEF Begin, LocksOK, Fields
<1>2. rowLock' = rowLock /\ keyShare' = keyShare
  BY DEF Begin
<1>3. tx[s].calls \in Nat
  BY DEF LocksOK
<1>4. Running(s)'
  BY <1>1, <1>3 DEF Running
<1>5. tx'[s].calls <= 1 => ~Running(s)
  BY <1>1, <1>3 DEF Running
<1>6. FirstDoorOK(s)'
  BY <1>1, <1>2, <1>5 DEF FirstDoorOK, LocksOK
<1>7. tx'[s].next \in 1..Len(Stages(tx'[s].req.door))
  BY <1>1, StagesAre
<1> QED
  BY <1>1, <1>2, <1>3, <1>4, <1>6, <1>7, OthersStay, CallsAreRequests DEF LocksOK

\* The end of a transaction lets go of all it held.
LEMMA EndKeepsLocks ==
  ASSUME LocksOK, NEW s \in Session, End(s)
  PROVE  LocksOK'
<1>1. DOMAIN tx' = Session /\ tx'[s] = Closed /\ \A q \in Session \ {s} : tx'[q] = tx[q]
  BY DEF End, LocksOK
<1>2. /\ rowLock' \in [Customer -> Session \cup {NoSession}]
      /\ keyShare' \in [Customer -> SUBSET Session]
      /\ \A c \in Customer : rowLock'[c] # s /\ s \notin keyShare'[c]
      /\ \A q \in Session \ {s} : \A c \in Customer :
           /\ rowLock'[c] = q => rowLock[c] = q
           /\ q \in keyShare'[c] => q \in keyShare[c]
  BY NoSessionIsNone DEF End, LocksOK
<1>3. DOMAIN tx'[s] = Fields /\ tx'[s].calls = 0 /\ tx'[s].next = 0 /\ tx'[s].entries = {}
      /\ tx'[s].req = NoRequest
  BY <1>1 DEF Closed, Fields, LocksOK
<1>4. ~InDoor(s)' /\ FirstDoorOK(s)'
  BY <1>3 DEF InDoor, FirstDoorOK
<1> QED
  BY <1>1, <1>2, <1>3, <1>4, OthersStay

\* A door ends, with whatever it entered, and the locks stay.
LEMMA DoorEnds ==
  ASSUME LocksOK, NEW s \in Session, InDoor(s), DOMAIN tx' = Session,
         \A q \in Session \ {s} : tx'[q] = tx[q],
         DOMAIN tx'[s] = Fields, tx'[s].req = NoRequest, tx'[s].calls = tx[s].calls,
         tx'[s].next = tx[s].next, UNCHANGED <<rowLock, keyShare>>
  PROVE  LocksOK'
<1>1. ~InDoor(s)' /\ FirstDoorOK(s)' /\ Running(s) /\ Running(s)'
  BY DEF InDoor, FirstDoorOK, Running, LocksOK
<1> QED
  BY <1>1, OthersStay DEF LocksOK

\* A door moves on, with at most one lock more.
LEMMA DoorAdvances ==
  ASSUME LocksOK, NEW s \in Session, InDoor(s), Advance(s),
         Stage(s) # "write",
         \/ UNCHANGED <<rowLock, keyShare>>
         \/ /\ Stage(s) = "lock" /\ UNCHANGED keyShare
            /\ \E c \in Customer : /\ rowLock' = [rowLock EXCEPT ![c] = s]
                                 /\ rowLock[c] \in {NoSession, s}
         \/ /\ Stage(s) = "share" /\ UNCHANGED rowLock
            /\ \E c \in Customer : keyShare' = [keyShare EXCEPT ![c] = @ \cup {s}]
  PROVE  LocksOK'
<1>1. /\ DOMAIN tx' = Session /\ \A q \in Session \ {s} : tx'[q] = tx[q]
      /\ DOMAIN tx'[s] = Fields /\ tx'[s].calls = tx[s].calls /\ tx'[s].next = tx[s].next + 1
      /\ tx'[s].req = tx[s].req /\ tx'[s].entries = tx[s].entries
  BY DEF Advance, LocksOK, Fields
<1>2. tx[s].next \in 1..Len(Stages(tx[s].req.door)) /\ Stage(s) = Stages(tx[s].req.door)[tx[s].next]
  BY DEF LocksOK, Stage
<1>3. tx'[s].next \in 1..Len(Stages(tx'[s].req.door))
  BY <1>1, <1>2, StagesAre
<1>4. InDoor(s)' /\ Running(s) /\ Running(s)' /\ Stage(s)' = Stages(tx[s].req.door)[tx[s].next + 1]
  BY <1>1 DEF InDoor, Running, Stage, LocksOK
<1>5. /\ Stage(s) = "lock" => Stage(s)' = "check"
      /\ Stage(s) = "share" => Stage(s)' = "write"
      /\ Stage(s) = "check" => Stage(s)' \in {"share", "write"}
  BY <1>2, <1>4, StagesAre DEF Stages
<1>6. /\ rowLock' \in [Customer -> Session \cup {NoSession}]
      /\ keyShare' \in [Customer -> SUBSET Session]
      /\ \A q \in Session \ {s} : \A c \in Customer :
           /\ rowLock'[c] = q => rowLock[c] = q
           /\ q \in keyShare'[c] => q \in keyShare[c]
  BY DEF LocksOK
<1>7. Stages(tx[s].req.door)[1] = "lock" /\ Stage(s) = "check" => Stage(s)' = "write"
  BY <1>2, <1>4, StagesAre DEF Stages
<1>8. /\ Stage(s) = "lock" => Stages(tx[s].req.door)[1] = "lock"
      /\ Stage(s) = "share" => Stages(tx[s].req.door)[1] # "lock"
  BY <1>2, StagesAre DEF Stages
<1>9. ASSUME tx[s].calls <= 1
      PROVE  /\ tx'[s].entries = {}
             /\ \A c \in Customer :
                  /\ rowLock'[c] = s => /\ Stage(s)' \in {"check", "write"}
                                       /\ Stages(tx'[s].req.door)[1] = "lock"
                  /\ s \in keyShare'[c] => Stage(s)' = "write"
  <2>1. /\ tx[s].entries = {}
        /\ \A c \in Customer :
             /\ rowLock[c] = s => /\ Stage(s) \in {"check", "write"}
                                 /\ Stages(tx[s].req.door)[1] = "lock"
             /\ s \in keyShare[c] => Stage(s) = "write"
    BY <1>9 DEF LocksOK, FirstDoorOK
  <2>2. ASSUME NEW c \in Customer, rowLock'[c] = s
        PROVE  Stage(s)' \in {"check", "write"} /\ Stages(tx'[s].req.door)[1] = "lock"
    <3>1. rowLock[c] = s \/ Stage(s) = "lock"
      BY <2>2 DEF LocksOK
    <3> QED
      BY <1>1, <1>5, <1>7, <1>8, <2>1, <3>1
  <2>3. ASSUME NEW c \in Customer, s \in keyShare'[c]
        PROVE  Stage(s)' = "write"
    <3>1. s \in keyShare[c] \/ Stage(s) = "share"
      BY <2>3 DEF LocksOK
    <3> QED
      BY <1>5, <2>1, <3>1
  <2> QED
    BY <1>1, <2>1, <2>2, <2>3
<1>10. FirstDoorOK(s)'
  BY <1>1, <1>9 DEF FirstDoorOK
<1>11. /\ tx'[s].calls \in Nat /\ tx'[s].next \in Nat
       /\ tx'[s].req \in Requests \cup {NoRequest}
  BY <1>1 DEF LocksOK
<1> QED
  BY <1>1, <1>3, <1>4, <1>6, <1>10, <1>11, OthersStay

\* A caught refusal is such an end.
LEMMA RefusedEnds ==
  ASSUME LocksOK, NEW s \in Session, InDoor(s), Refused(s), UNCHANGED <<rowLock, keyShare>>
  PROVE  LocksOK'
<1>1. /\ DOMAIN tx' = Session /\ \A q \in Session \ {s} : tx'[q] = tx[q]
      /\ DOMAIN tx'[s] = Fields /\ tx'[s].calls = tx[s].calls /\ tx'[s].next = tx[s].next
      /\ tx'[s].req = NoRequest
  BY DEF Refused, LocksOK, Fields
<1> QED
  BY <1>1, DoorEnds

\* Only a door has a stage.
LEMMA InADoor ==
  ASSUME NEW s, Stage(s) # "none"
  PROVE  InDoor(s)
BY DEF Stage

\* load_customer, FOR UPDATE.
LEMMA LockCustomerKeepsLocks ==
  ASSUME LocksOK, NEW s \in Session, LockCustomer(s)
  PROVE  LocksOK'
<1> DEFINE owner == Owner(View(s), tx[s].req)
<1>1. Stage(s) = "lock" /\ InDoor(s) /\ UNCHANGED keyShare
  BY InADoor DEF LockCustomer
<1>2. CASE Refused(s) /\ UNCHANGED rowLock
  BY <1>1, <1>2, RefusedEnds
<1>3. CASE \E c \in owner : /\ rowLock[c] \in {NoSession, s}
                            /\ rowLock' = [rowLock EXCEPT ![c] = s]
                            /\ Advance(s)
  <2>1. owner \subseteq Customer
    BY DEF Owner
  <2> HIDE DEF owner
  <2> QED
    BY <1>1, <1>3, <2>1, DoorAdvances
<1> QED
  BY <1>2, <1>3 DEF LockCustomer

\* The check of the foreign key.
LEMMA ShareCustomerKeepsLocks ==
  ASSUME LocksOK, NEW s \in Session, ShareCustomer(s)
  PROVE  LocksOK'
<1>1. Stage(s) = "share" /\ InDoor(s) /\ UNCHANGED rowLock /\ Advance(s)
      /\ keyShare' = [keyShare EXCEPT ![tx[s].req.c] = @ \cup {s}]
  BY InADoor DEF ShareCustomer
<1>2. CASE tx[s].req.c \in Customer
  BY <1>1, <1>2, DoorAdvances
<1>3. CASE tx[s].req.c \notin Customer
  <2>1. keyShare' = keyShare
    BY <1>1, <1>3 DEF LocksOK
  <2> QED
    BY <1>1, <2>1, DoorAdvances
<1> QED
  BY <1>2, <1>3

\* The reads that refuse.
LEMMA CheckKeepsLocks ==
  ASSUME LocksOK, NEW s \in Session, Check(s)
  PROVE  LocksOK'
<1>1. Stage(s) = "check" /\ InDoor(s) /\ UNCHANGED <<rowLock, keyShare>>
  BY InADoor DEF Check
<1>2. Advance(s) \/ Refused(s)
  BY DEF Check
<1> QED
  BY <1>1, <1>2, RefusedEnds, DoorAdvances

\* The writes, accepted or failed by a constraint.
LEMMA WriteKeepsLocks ==
  ASSUME LocksOK, NEW s \in Session, Write(s)
  PROVE  LocksOK'
<1>1. InDoor(s) /\ UNCHANGED <<rowLock, keyShare>>
  BY InADoor DEF Write
<1>2. CASE Accepted(s)
  <2> DEFINE log == Append(tx[s].log, tx[s].req)
             staged == Staging(s, Effect(View(s), tx[s].req))
             entries == tx[s].entries \cup Enters(View(s), tx[s].req) \cup Frees(View(s), tx[s].req)
  <2>1. tx' = [tx EXCEPT ![s].req = NoRequest, ![s].log = log, ![s].staged = staged,
                         ![s].entries = entries]
    BY <1>2 DEF Accepted
  <2> HIDE DEF log, staged, entries
  <2>2. /\ DOMAIN tx' = Session /\ \A q \in Session \ {s} : tx'[q] = tx[q]
        /\ DOMAIN tx'[s] = Fields /\ tx'[s].calls = tx[s].calls /\ tx'[s].next = tx[s].next
        /\ tx'[s].req = NoRequest
    BY <2>1 DEF LocksOK, Fields
  <2> QED
    BY <1>1, <2>2, DoorEnds
<1>3. CASE FailTransaction(s)
  <2>1. /\ DOMAIN tx' = Session /\ \A q \in Session \ {s} : tx'[q] = tx[q]
        /\ DOMAIN tx'[s] = Fields /\ tx'[s].calls = tx[s].calls /\ tx'[s].next = tx[s].next
        /\ tx'[s].req = NoRequest
    BY <1>3 DEF FailTransaction, LocksOK, Fields
  <2> QED
    BY <1>1, <2>1, DoorEnds
<1> QED
  BY <1>2, <1>3 DEF Write

-----------------------------------------------------------------------------
(* What follows from it.                                                   *)

\* The one door that shares a row names its customer.
LEMMA SharersAreNamed ==
  ASSUME LocksOK, NEW s \in Session, Stage(s) = "share"
  PROVE  tx[s].req.c \in Customer
<1>1. InDoor(s) /\ tx[s].req \in Requests /\ tx[s].next \in 1..Len(Stages(tx[s].req.door))
  BY InADoor DEF LocksOK, InDoor
<1>2. tx[s].req.door = "record_acceptance"
  BY <1>1 DEF Stage, Stages
<1>3. tx[s].req \in Request("record_acceptance")
  BY <1>1, <1>2 DEF Requests, Door, Request
<1> QED
  BY <1>3 DEF Request

\* The invariant of locks and entries holds of any sessions and any calls.
THEOREM LocksInvariance == Spec => []LocksOK
<1>1. Init => LocksOK
  <2> SUFFICES ASSUME Init
               PROVE  LocksOK
    OBVIOUS
  <2>1. /\ DOMAIN tx = Session /\ rowLock = [c \in Customer |-> NoSession]
        /\ keyShare = [c \in Customer |-> {}] /\ \A s \in Session : tx[s] = Closed
    BY DEF Init
  <2> QED
    BY <2>1, NoSessionIsNone DEF LocksOK, Closed, Fields, Running, InDoor, FirstDoorOK
<1>2. LocksOK /\ [Next]_vars => LocksOK'
  <2> SUFFICES ASSUME LocksOK, [Next]_vars
               PROVE  LocksOK'
    OBVIOUS
  <2>1. CASE UNCHANGED vars
    BY <2>1 DEF vars, LocksOK, FirstDoorOK, Running, InDoor, Stage
  <2>2. ASSUME NEW s \in Session, NEW req \in Call, Begin(s, req)
        PROVE  LocksOK'
    BY <2>2, BeginKeepsLocks
  <2>3. ASSUME NEW s \in Session, Step(s)
        PROVE  LocksOK'
    BY <2>3, LockCustomerKeepsLocks, ShareCustomerKeepsLocks, CheckKeepsLocks, WriteKeepsLocks,
       EndKeepsLocks DEF Step, Commit
  <2>4. ASSUME NEW s \in Session, Rollback(s)
        PROVE  LocksOK'
    BY <2>4, EndKeepsLocks DEF Rollback
  <2> QED
    BY <2>1, <2>2, <2>3, <2>4 DEF Next
<1> QED
  BY <1>1, <1>2, PTL DEF Spec

\* LOCK_ORDER takes the customer's row before anything else: whoever waits for a row
\* waits for a door past its lock, and whoever waits for an entry waits for a
\* transaction whose door is over.  No circle, unless one in it has called a second.
THEOREM SingleDoorsNeverDeadlock == Spec => []OneDoorNeverDeadlocks
<1>1. LocksOK => OneDoorNeverDeadlocks
  <2> SUFFICES ASSUME LocksOK, NEW circle \in (SUBSET Session) \ {{}},
                      \A s \in circle : WaitsFor(s) \cap circle # {},
                      \A s \in circle : ~CalledSeveral(s)
               PROVE  FALSE
    BY DEF OneDoorNeverDeadlocks
  <2>0. \A s \in circle : s \in Session /\ tx[s].calls <= 1
    BY DEF CalledSeveral, LocksOK
  <2>1. ASSUME NEW s \in circle
        PROVE  Stage(s) \in {"lock", "share", "write"} /\ InDoor(s) /\ tx[s].entries = {}
    <3>1. Stage(s) \in {"lock", "share", "write"}
      BY DEF WaitsFor
    <3> QED
      BY <2>0, <3>1, InADoor DEF LocksOK, FirstDoorOK
  <2>2. ASSUME NEW s \in circle
        PROVE  Stage(s) # "write"
    BY <2>1 DEF WaitsFor, InDoubt
  <2>3. ASSUME NEW s \in circle, NEW c \in Customer
        PROVE  rowLock[c] # s /\ s \notin keyShare[c]
    BY <2>0, <2>1, <2>2 DEF LocksOK, FirstDoorOK
  <2>4. PICK s \in circle : s \in Session
    BY <2>0
  <2>5. CASE Stage(s) = "lock"
    <3>1. Owner(View(s), tx[s].req) \subseteq Customer
      BY DEF Owner
    <3> QED
      BY <2>1, <2>3, <2>4, <2>5, <3>1 DEF WaitsFor
  <2>6. CASE Stage(s) = "share"
    <3>1. tx[s].req.c \in Customer
      BY <2>4, <2>6, SharersAreNamed
    <3> QED
      BY <2>1, <2>3, <2>4, <2>6, <3>1 DEF WaitsFor
  <2> QED
    BY <2>1, <2>2, <2>4, <2>5, <2>6
<1> QED
  BY <1>1, LocksInvariance, PTL

-----------------------------------------------------------------------------
(* A log, run.                                                             *)

\* A set of whole numbers has a least member: the intervals up to its members
\* are finite sets, and strict inclusion among finite sets ends somewhere.
LEMMA LeastMember ==
  ASSUME NEW S \in SUBSET Nat, S # {}
  PROVE  \E m \in S : \A k \in S : m <= k
<1> DEFINE R == StrictSubsetOrdering(Nat)
           T == {1..n : n \in S}
<1>1. T \subseteq FiniteSubsetsOf(Nat) /\ T # {}
  <2>1. ASSUME NEW n \in S
        PROVE  1..n \in FiniteSubsetsOf(Nat)
    BY FS_Interval DEF FiniteSubsetsOf
  <2> QED
    BY <2>1
<1>2. \E x \in T : \A y \in T : ~(<<y, x>> \in R)
  <2>1. IsWellFoundedOn(R, FiniteSubsetsOf(Nat))
    BY FS_StrictSubsetOrderingWellFounded
  <2> HIDE DEF R, T
  <2> QED
    BY <1>1, <2>1, WFMin
<1>3. PICK m \in S : \A k \in S : ~(<<1..k, 1..m>> \in R)
  BY <1>2
<1>4. ASSUME NEW k \in S, k < m
      PROVE  FALSE
  <2>1. 1..k \in SUBSET Nat /\ 1..m \in SUBSET Nat
    OBVIOUS
  <2>2. 1..k \subseteq 1..m /\ m \in 1..m /\ m \notin 1..k
    BY <1>4
  <2> QED
    BY <1>3, <2>1, <2>2 DEF StrictSubsetOrdering
<1> QED
  BY <1>3, <1>4

\* The run of a log exists, one door at a time, so After has it.
LEMMA AfterIsTheRun ==
  ASSUME NEW st, NEW log \in Seq(Requests)
  PROVE  /\ After(st, log)[0] = st
         /\ \A i \in 1..Len(log) : After(st, log)[i] = Effect(After(st, log)[i - 1], log[i])
<1> DEFINE Run(f, n) == f = [i \in 0..n |-> IF i = 0 THEN st ELSE Effect(f[i - 1], log[i])]
           bad == {n \in 0..Len(log) : ~\E f : Run(f, n)}
<1>1. bad = {}
  <2> SUFFICES ASSUME bad # {}
               PROVE  FALSE
    OBVIOUS
  <2>1. PICK m \in bad : \A n \in bad : m <= n
    <3>1. bad \in SUBSET Nat
      OBVIOUS
    <3> HIDE DEF bad
    <3> QED
      BY <3>1, LeastMember
  <2>2. CASE m = 0
    <3>1. Run([i \in 0..0 |-> st], 0)
      OBVIOUS
    <3> QED
      BY <2>1, <2>2, <3>1
  <2>3. CASE m # 0
    <3>1. m \in Nat /\ m - 1 \in 0..Len(log) /\ m - 1 \notin bad
      BY <2>1, <2>3
    <3>2. PICK g : Run(g, m - 1)
      BY <3>1
    <3> DEFINE f == [i \in 0..m |-> IF i < m THEN g[i] ELSE Effect(g[m - 1], log[m])]
    <3>3. \A i \in 0..(m - 1) : f[i] = g[i]
      BY <3>1
    <3>4. \A i \in 0..m : f[i] = IF i = 0 THEN st ELSE Effect(f[i - 1], log[i])
      BY <3>1, <3>2, <3>3, <2>3
    <3>5. f = [i \in 0..m |-> f[i]]
      OBVIOUS
    <3> HIDE DEF f
    <3>6. Run(f, m)
      BY <3>4, <3>5
    <3> QED
      BY <2>1, <3>6
  <2> QED
    BY <2>2, <2>3
<1>2. \E f : Run(f, Len(log))
  BY <1>1
<1>3. Run(After(st, log), Len(log))
  BY <1>2 DEF After
<1> HIDE DEF bad
<1> QED
  BY <1>3

-----------------------------------------------------------------------------
(* The rules and the promises of Account, of any tables.                   *)

\* Its operators over tables as values do not look at the variables.
Proved == INSTANCE AccountProofs WITH
  email <- db.email, reference <- db.reference, credential <- db.credential,
  accepted <- {c \in Customer : db.email[c] # NoAddress},
  changes <- db.changes, resets <- db.resets, history <- db.history

\* The tables of a store, committed or as a session reads them.
Tables ==
  [email : [Customer -> Address \cup {NoAddress}],
   reference : [Customer -> Reference \cup {NoReference}],
   credential : [Customer -> Credential],
   changes : [ChangeId -> ChangeRow \cup {NoRow}],
   resets : [ResetId -> ResetRow \cup {NoRow}],
   history : [Customer -> Seq(HistoryRow)]]

\* What Account assumes of the constants is what is assumed here.
LEMMA SameAssumptions ==
  /\ Instant \subseteq Int /\ Window \subseteq Nat \ {0}
  /\ FirstReadable \in Int /\ LastReadable \in Int
  /\ NoAddress \notin Address
  /\ NoReference \notin Reference
  /\ NoSecret \notin Secret /\ NoSalt \notin Salt
  /\ NoInstant \notin Int
  /\ NoRow \notin Proved!ChangeRow /\ NoRow \notin Proved!ResetRow
  /\ Proved!ByCaller \notin Secret
<1>1. Proved!ChangeRow = ChangeRow
  BY DEF Proved!ChangeRow, ChangeRow, Proved!TokenState, TokenState, Proved!Reason, Reason,
     Proved!ByPassword, ByPassword, Proved!ByCaller, ByCaller, Proved!Superseded, Superseded,
     Proved!PasswordSet, PasswordSet, Proved!EmailChanged, EmailChanged, Proved!NotCancelled,
     NotCancelled
<1>2. Proved!ResetRow = ResetRow
  BY DEF Proved!ResetRow, ResetRow, Proved!TokenState, TokenState, Proved!Reason, Reason,
     Proved!Superseded, Superseded, Proved!PasswordSet, PasswordSet, Proved!EmailChanged,
     EmailChanged, Proved!NotCancelled, NotCancelled
<1> QED
  BY <1>1, <1>2, InstantsAreWhole, BoundsAreWhole, NullsAreApart, NoRowIsApart,
     ByCallerIsNoPassword DEF Proved!ByCaller, ByCaller

\* The rules of the tables are the same ones in the two specifications.
LEMMA SameRules ==
  /\ \A e, a : Proved!Holders(e, a) = Holders(e, a)
  /\ \A a, b : Proved!SameAddress(a, b) <=> SameAddress(a, b)
  /\ \A table, c, reason : Proved!Supersede(table, c, reason) = Supersede(table, c, reason)
  /\ \A table, k, at : Proved!Spend(table, k, at) = Spend(table, k, at)
  /\ \A row, at : Proved!Presentable(row, at) <=> Presentable(row, at)
  /\ \A past, at : Proved!BeforeLatestChange(past, at) <=> BeforeLatestChange(past, at)
  /\ \A stored, p : Proved!Verified(stored, p) <=> Verified(stored, p)
  /\ \A stored : Proved!HasCredential(stored) <=> HasCredential(stored)
  /\ \A p, salt : Proved!HashPassword(p, salt) = HashPassword(p, salt)
  /\ \A c, a, authorisation, at, window, stored :
       Proved!NewChange(c, a, authorisation, at, window, stored) =
         NewChange(c, a, authorisation, at, window, stored)
  /\ \A c, a, at, window : Proved!NewReset(c, a, at, window) = NewReset(c, a, at, window)
  /\ \A from, row, at, k : Proved!NewHistory(from, row, at, k) = NewHistory(from, row, at, k)
  /\ Proved!ByCaller = ByCaller /\ Proved!ByPassword = ByPassword
  /\ Proved!Superseded = Superseded /\ Proved!PasswordSet = PasswordSet
  /\ Proved!EmailChanged = EmailChanged
<1>1. \A a, b : Proved!SameAddress(a, b) <=> SameAddress(a, b)
  BY DEF Proved!SameAddress, SameAddress
<1>2. \A e, a : Proved!Holders(e, a) = Holders(e, a)
  BY DEF Proved!Holders, Holders, Proved!SameAddress, SameAddress
<1>3. \A table, c, reason : Proved!Supersede(table, c, reason) = Supersede(table, c, reason)
  BY DEF Proved!Supersede, Supersede, Proved!Cancelled, Cancelled, Proved!Outstanding, Outstanding
<1>4. \A table, k, at : Proved!Spend(table, k, at) = Spend(table, k, at)
  BY DEF Proved!Spend, Spend
<1>5. \A row, at : Proved!Presentable(row, at) <=> Presentable(row, at)
  BY DEF Proved!Presentable, Presentable, Proved!Judgement, Judgement, Proved!IsExpired, IsExpired
<1>6. \A past, at : Proved!BeforeLatestChange(past, at) <=> BeforeLatestChange(past, at)
  BY DEF Proved!BeforeLatestChange, BeforeLatestChange
<1>7. /\ \A stored, p : Proved!Verified(stored, p) <=> Verified(stored, p)
      /\ \A stored : Proved!HasCredential(stored) <=> HasCredential(stored)
      /\ \A p, salt : Proved!HashPassword(p, salt) = HashPassword(p, salt)
  BY DEF Proved!Verified, Verified, Proved!HasCredential, HasCredential, Proved!HashPassword,
     HashPassword
<1>8. /\ \A c, a, authorisation, at, window, stored :
           Proved!NewChange(c, a, authorisation, at, window, stored) =
             NewChange(c, a, authorisation, at, window, stored)
      /\ \A c, a, at, window : Proved!NewReset(c, a, at, window) = NewReset(c, a, at, window)
      /\ \A from, row, at, k : Proved!NewHistory(from, row, at, k) = NewHistory(from, row, at, k)
  BY DEF Proved!NewChange, NewChange, Proved!NewReset, NewReset, Proved!NewHistory, NewHistory,
     Proved!Expiry, Expiry, Proved!NotCancelled, NotCancelled
<1>9. /\ Proved!ByCaller = ByCaller /\ Proved!ByPassword = ByPassword
      /\ Proved!Superseded = Superseded /\ Proved!PasswordSet = PasswordSet
      /\ Proved!EmailChanged = EmailChanged
  BY DEF Proved!ByCaller, ByCaller, Proved!ByPassword, ByPassword, Proved!Superseded, Superseded,
     Proved!PasswordSet, PasswordSet, Proved!EmailChanged, EmailChanged
<1> QED
  BY <1>1, <1>2, <1>3, <1>4, <1>5, <1>6, <1>7, <1>8, <1>9

\* Typed there is typed here, but for the shape of the record.
LEMMA SameTypes ==
  ASSUME NEW st
  PROVE  Proved!Typed(st) <=>
           /\ st.email \in [Customer -> Address \cup {NoAddress}]
           /\ st.reference \in [Customer -> Reference \cup {NoReference}]
           /\ st.credential \in [Customer -> Credential]
           /\ st.changes \in [ChangeId -> ChangeRow \cup {NoRow}]
           /\ st.resets \in [ResetId -> ResetRow \cup {NoRow}]
           /\ st.history \in [Customer -> Seq(HistoryRow)]
BY DEF Proved!Typed, Proved!ChangeTable, Proved!ResetTable, Proved!Credential, Credential,
   Proved!HistoryRow, HistoryRow,
   Proved!ChangeRow, ChangeRow, Proved!ResetRow, ResetRow, Proved!TokenState, TokenState,
   Proved!Reason, Reason, Proved!ByPassword, ByPassword, Proved!ByCaller, ByCaller,
   Proved!Superseded, Superseded, Proved!PasswordSet, PasswordSet, Proved!EmailChanged,
   EmailChanged, Proved!NotCancelled, NotCancelled

\* Each door's request carries what the door is called with.
LEMMA RequestFields ==
  ASSUME NEW req \in Requests
  PROVE  /\ req.door \in Door
         /\ req.door \in {"confirm_email_change", "consume_password_reset"} <=>
              "c" \notin DOMAIN req
         /\ "c" \in DOMAIN req => req.c \in Customer
         /\ req.door = "create_account" =>
              req.a \in Address /\ req.ref \in Reference \cup {NoReference}
         /\ req.door = "set_password" => req.p \in Secret /\ req.salt \in Salt
         /\ req.door = "start_email_change" =>
              /\ req.k \in ChangeId /\ req.a \in Address /\ req.proof \in Secret \cup {ByCaller}
              /\ req.at \in Instant /\ req.window \in Window
         /\ req.door = "confirm_email_change" => req.k \in ChangeId /\ req.at \in Instant
         /\ req.door = "start_password_reset" =>
              req.r \in ResetId /\ req.at \in Instant /\ req.window \in Window
         /\ req.door = "consume_password_reset" =>
              req.r \in ResetId /\ req.p \in Secret /\ req.salt \in Salt /\ req.at \in Instant
<1>1. PICK door \in Door : req \in Request(door)
  BY DEF Requests
<1>2. CASE door = "create_account"
  BY <1>1, <1>2 DEF Request, Door
<1>3. CASE door = "set_password"
  BY <1>1, <1>3 DEF Request, Door
<1>4. CASE door = "start_email_change"
  BY <1>1, <1>4 DEF Request, Door
<1>5. CASE door = "confirm_email_change"
  BY <1>1, <1>5 DEF Request, Door
<1>6. CASE door = "start_password_reset"
  BY <1>1, <1>6 DEF Request, Door
<1>7. CASE door = "consume_password_reset"
  BY <1>1, <1>7 DEF Request, Door
<1>8. CASE door = "record_acceptance"
  BY <1>1, <1>8 DEF Request, Door
<1> QED
  BY <1>1, <1>2, <1>3, <1>4, <1>5, <1>6, <1>7, <1>8 DEF Door

-----------------------------------------------------------------------------
(* What each door does, table by table.                                    *)

\* Tables are equal when each of the six is.
LEMMA TablesApart ==
  ASSUME NEW st \in Tables
  PROVE  st = [email |-> st.email, reference |-> st.reference, credential |-> st.credential,
               changes |-> st.changes, resets |-> st.resets, history |-> st.history]
BY DEF Tables

\* create_account
LEMMA CreateDoes ==
  ASSUME NEW st \in Tables, NEW req \in Requests, req.door = "create_account"
  PROVE  Effect(st, req) =
           [email |-> [st.email EXCEPT ![req.c] = req.a],
            reference |-> [st.reference EXCEPT ![req.c] = req.ref],
            credential |-> st.credential, changes |-> st.changes, resets |-> st.resets,
            history |-> st.history]
BY DEF Effect, Tables

\* set_password
LEMMA SetPasswordDoes ==
  ASSUME NEW st \in Tables, NEW req \in Requests, req.door = "set_password"
  PROVE  Effect(st, req) =
           [email |-> st.email, reference |-> st.reference,
            credential |-> [st.credential EXCEPT ![req.c] = HashPassword(req.p, req.salt)],
            changes |-> Supersede(st.changes, req.c, PasswordSet),
            resets |-> st.resets, history |-> st.history]
BY DEF Effect, Tables

\* start_email_change
LEMMA StartChangeDoes ==
  ASSUME NEW st \in Tables, NEW req \in Requests, req.door = "start_email_change"
  PROVE  Effect(st, req) =
           [email |-> st.email, reference |-> st.reference, credential |-> st.credential,
            changes |-> [Supersede(st.changes, req.c, Superseded) EXCEPT ![req.k] =
              NewChange(req.c, req.a, IF req.proof = ByCaller THEN ByCaller ELSE ByPassword,
                        req.at, req.window, st.credential[req.c])],
            resets |-> st.resets, history |-> st.history]
BY DEF Effect, Tables

\* confirm_email_change
LEMMA ConfirmDoes ==
  ASSUME NEW st \in Tables, NEW req \in Requests, req.door = "confirm_email_change"
  PROVE  LET row == st.changes[req.k]
         IN  Effect(st, req) =
               [email |-> [st.email EXCEPT ![row.owner] = row.to], reference |-> st.reference,
                credential |-> st.credential, changes |-> Spend(st.changes, req.k, req.at),
                resets |-> Supersede(st.resets, row.owner, EmailChanged),
                history |-> [st.history EXCEPT ![row.owner] =
                  Append(@, NewHistory(st.email[row.owner], row, req.at, req.k))]]
BY DEF Effect, Confirmed, Tables

\* The same, customer by customer.
ConfirmedTo(st, new, req, row, c) ==
  /\ \A d \in Customer : new.email[d] = IF d = c THEN row.to ELSE st.email[d]
  /\ new.reference = st.reference /\ new.credential = st.credential
  /\ new.changes = Spend(st.changes, req.k, req.at)
  /\ new.resets = Supersede(st.resets, c, EmailChanged)
  /\ \A d \in Customer : new.history[d] =
       IF d = c THEN Append(st.history[c], NewHistory(st.email[c], row, req.at, req.k))
       ELSE st.history[d]

\* Confirming does that.
LEMMA ConfirmDoesTo ==
  ASSUME NEW st \in Tables, NEW req \in Requests, req.door = "confirm_email_change",
         NEW row, row = st.changes[req.k], NEW c \in Customer, c = row.owner
  PROVE  ConfirmedTo(st, Effect(st, req), req, row, c)
<1> DEFINE new == Effect(st, req)
<1>1. new = [email |-> [st.email EXCEPT ![st.changes[req.k].owner] = st.changes[req.k].to],
             reference |-> st.reference, credential |-> st.credential,
             changes |-> Spend(st.changes, req.k, req.at),
             resets |-> Supersede(st.resets, st.changes[req.k].owner, EmailChanged),
             history |-> [st.history EXCEPT ![st.changes[req.k].owner] =
               Append(@, NewHistory(st.email[st.changes[req.k].owner], st.changes[req.k], req.at,
                                    req.k))]]
  BY ConfirmDoes, Zenon
<1>2. DOMAIN st.email = Customer /\ DOMAIN st.history = Customer
  BY DEF Tables
<1>3. st.changes[req.k] = row /\ row.owner = c
  OBVIOUS
<1>4. new = [email |-> [st.email EXCEPT ![c] = row.to],
             reference |-> st.reference, credential |-> st.credential,
             changes |-> Spend(st.changes, req.k, req.at),
             resets |-> Supersede(st.resets, c, EmailChanged),
             history |-> [st.history EXCEPT ![c] =
               Append(@, NewHistory(st.email[c], row, req.at, req.k))]]
  <2> HIDE DEF new
  <2> QED
    BY <1>1, <1>3, Zenon
<1>5. ConfirmedTo(st, new, req, row, c)
  <2> HIDE DEF new
  <2> QED
    BY <1>2, <1>4 DEF ConfirmedTo
<1> QED
  BY <1>5

\* start_password_reset
LEMMA StartResetDoes ==
  ASSUME NEW st \in Tables, NEW req \in Requests, req.door = "start_password_reset"
  PROVE  Effect(st, req) =
           [email |-> st.email, reference |-> st.reference, credential |-> st.credential,
            changes |-> st.changes,
            resets |-> [Supersede(st.resets, req.c, Superseded) EXCEPT ![req.r] =
              NewReset(req.c, st.email[req.c], req.at, req.window)],
            history |-> st.history]
BY DEF Effect, Tables

\* consume_password_reset
LEMMA ConsumeDoes ==
  ASSUME NEW st \in Tables, NEW req \in Requests, req.door = "consume_password_reset"
  PROVE  LET c == st.resets[req.r].owner
         IN  Effect(st, req) =
               [email |-> st.email, reference |-> st.reference,
                credential |-> [st.credential EXCEPT ![c] = HashPassword(req.p, req.salt)],
                changes |-> Supersede(st.changes, c, PasswordSet),
                resets |-> Spend(st.resets, req.r, req.at), history |-> st.history]
BY DEF Effect, Consumed, Tables

\* record_acceptance
LEMMA AcceptanceDoes ==
  ASSUME NEW st, NEW req, req.door = "record_acceptance"
  PROVE  Effect(st, req) = st
BY DEF Effect

-----------------------------------------------------------------------------
(* Every door that accepts, with a key that is new, keeps the promises.    *)

\* The key the server draws for a door.
Keys(req) ==
  CASE req.door = "create_account"       -> {<<"c", req.c>>}
    [] req.door = "start_email_change"   -> {<<"k", req.k>>}
    [] req.door = "start_password_reset" -> {<<"r", req.r>>}
    [] OTHER -> {}

\* None of the keys a request draws is taken.
NewKeys(st, req) == \A key \in Keys(req) : ~TakenIn(st, key)

\* A key is one of the things drawn.
LEMMA KeysAreDrawn ==
  ASSUME NEW req \in Requests
  PROVE  Keys(req) \subseteq Drawn(req)
<1>1. PICK door \in Door : req \in Request(door)
  BY DEF Requests
<1>2. CASE door = "create_account"
  BY <1>1, <1>2 DEF Request, Door, Keys, Drawn
<1>3. CASE door = "start_email_change"
  BY <1>1, <1>3 DEF Request, Door, Keys, Drawn
<1>4. CASE door = "start_password_reset"
  BY <1>1, <1>4 DEF Request, Door, Keys, Drawn
<1>5. CASE door \notin {"create_account", "start_email_change", "start_password_reset"}
  <2>1. req.door = door
    BY <1>1 DEF Request, Door
  <2> QED
    BY <1>5, <2>1 DEF Keys
<1> QED
  BY <1>1, <1>2, <1>3, <1>4, <1>5

\* What is free is not taken.
LEMMA NewKeysAre ==
  ASSUME NEW st, NEW req, NewKeys(st, req)
  PROVE  /\ req.door = "create_account" => st.email[req.c] = NoAddress
         /\ req.door = "start_email_change" => st.changes[req.k] = NoRow
         /\ req.door = "start_password_reset" => st.resets[req.r] = NoRow
BY DEF NewKeys, Keys, TakenIn

\* The customer a door is about, one at most.
LEMMA OwnerIs ==
  ASSUME NEW st \in Tables, NEW req \in Requests
  PROVE  /\ \A c \in Owner(st, req) : c \in Customer
         /\ \A c, d \in Owner(st, req) : c = d
         /\ \A c \in Owner(st, req) : "c" \in DOMAIN req => c = req.c
         /\ \A c \in Owner(st, req) : req.door # "create_account" => st.email[c] # NoAddress
         /\ \A c \in Owner(st, req) : req.door = "confirm_email_change" =>
              st.changes[req.k] # NoRow /\ st.changes[req.k].owner = c
         /\ \A c \in Owner(st, req) : req.door = "consume_password_reset" =>
              st.resets[req.r] # NoRow /\ st.resets[req.r].owner = c
BY RequestFields DEF Owner, TokenOf

\* The six tables and nothing else.
Shaped(st) ==
  st = [email |-> st.email, reference |-> st.reference, credential |-> st.credential,
        changes |-> st.changes, resets |-> st.resets, history |-> st.history]

\* A door leaves the six tables.
LEMMA EffectIsShaped ==
  ASSUME NEW st \in Tables, NEW req \in Requests
  PROVE  Shaped(Effect(st, req))
<1>1. CASE req.door = "create_account"
  BY <1>1, CreateDoes DEF Shaped
<1>2. CASE req.door = "set_password"
  BY <1>2, SetPasswordDoes DEF Shaped
<1>3. CASE req.door = "start_email_change"
  BY <1>3, StartChangeDoes DEF Shaped
<1>4. CASE req.door = "confirm_email_change"
  BY <1>4, ConfirmDoes DEF Shaped
<1>5. CASE req.door = "start_password_reset"
  BY <1>5, StartResetDoes DEF Shaped
<1>6. CASE req.door = "consume_password_reset"
  BY <1>6, ConsumeDoes DEF Shaped
<1>7. CASE req.door = "record_acceptance"
  BY <1>7, AcceptanceDoes, TablesApart DEF Shaped
<1> QED
  BY <1>1, <1>2, <1>3, <1>4, <1>5, <1>6, <1>7, RequestFields DEF Door

\* Tables that keep the promises are well typed.
LEMMA SoundAreTables ==
  ASSUME NEW st, Shaped(st), Proved!Sound(st)
  PROVE  st \in Tables
<1>1. /\ st.email \in [Customer -> Address \cup {NoAddress}]
      /\ st.reference \in [Customer -> Reference \cup {NoReference}]
      /\ st.credential \in [Customer -> Credential]
      /\ st.changes \in [ChangeId -> ChangeRow \cup {NoRow}]
      /\ st.resets \in [ResetId -> ResetRow \cup {NoRow}]
      /\ st.history \in [Customer -> Seq(HistoryRow)]
  BY SameTypes DEF Proved!Sound
<1> QED
  BY <1>1 DEF Shaped, Tables

\* A door's own checks, and the unique indexes', are those of Account.
LEMMA DoorKeepsPromises ==
  ASSUME NEW st \in Tables, Proved!Sound(st), NEW req \in Requests, Accepts(st, req),
         NewKeys(st, req)
  PROVE  Effect(st, req) \in Tables /\ Proved!Sound(Effect(st, req))
<1> DEFINE new == Effect(st, req)
<1>0. PICK c \in Customer : c \in Owner(st, req)
  BY OwnerIs DEF Accepts
<1>1. CASE req.door = "create_account"
  <2>1. c = req.c /\ req.a \in Address /\ req.ref \in Reference \cup {NoReference}
    BY <1>0, <1>1, RequestFields, OwnerIs
  <2>2. Proved!Created(st, new, c, req.a, req.ref)
    BY <2>1, <1>1, CreateDoes, NewKeysAre, SameRules DEF Proved!Created, Accepts, Free
  <2>3. Proved!Sound(new)
    BY <2>1, <2>2, SameAssumptions, Proved!CreatedKeepsPromises
  <2> QED
    BY <2>3, EffectIsShaped, SoundAreTables
<1>2. CASE req.door = "set_password"
  <2>1. c = req.c /\ req.p \in Secret /\ req.salt \in Salt /\ st.email[c] # NoAddress
    BY <1>0, <1>2, RequestFields, OwnerIs
  <2>2. Proved!PasswordIsSet(st, new, c, req.p, req.salt)
    BY <2>1, <1>2, SetPasswordDoes, SameRules DEF Proved!PasswordIsSet
  <2>3. Proved!Sound(new)
    BY <2>1, <2>2, SameAssumptions, Proved!PasswordIsSetKeepsPromises
  <2> QED
    BY <2>3, EffectIsShaped, SoundAreTables
<1>3. CASE req.door = "start_email_change"
  <2>1. /\ c = req.c /\ st.email[c] # NoAddress /\ req.k \in ChangeId /\ req.a \in Address
        /\ req.proof \in Secret \cup {Proved!ByCaller} /\ req.at \in Instant
        /\ req.window \in Window
    BY <1>0, <1>3, RequestFields, OwnerIs, SameRules
  <2>2. /\ req.proof # ByCaller => Verified(st.credential[c], req.proof)
        /\ ~SameAddress(st.email[c], req.a)
    BY <2>1, <1>3 DEF Accepts, Admits
  <2>3. Proved!ChangeStarted(st, new, c, req.k, req.a, req.proof, req.at, req.window)
    BY <2>1, <2>2, <1>3, StartChangeDoes, NewKeysAre, SameRules DEF Proved!ChangeStarted
  <2>4. Proved!Sound(new)
    BY <2>1, <2>3, SameAssumptions, Proved!ChangeStartedKeepsPromises
  <2> QED
    BY <2>4, EffectIsShaped, SoundAreTables
<1>4. CASE req.door = "confirm_email_change"
  <2>1. req.k \in ChangeId /\ req.at \in Instant /\ st.changes[req.k].owner = c
    BY <1>0, <1>4, RequestFields, OwnerIs
  <2>2. /\ Presentable(st.changes[req.k], req.at)
        /\ ~BeforeLatestChange(st.history[c], req.at)
        /\ Holders(st.email, st.changes[req.k].to) \subseteq {c}
    BY <2>1, <1>4 DEF Accepts, Admits, Free, TokenOf
  <2>3. Proved!ChangeConfirmed(st, new, req.k, req.at)
    <3> DEFINE row == st.changes[req.k]
    <3>1. /\ new.email = [st.email EXCEPT ![row.owner] = row.to]
          /\ new.reference = st.reference /\ new.credential = st.credential
          /\ new.changes = Spend(st.changes, req.k, req.at)
          /\ new.resets = Supersede(st.resets, row.owner, EmailChanged)
          /\ new.history = [st.history EXCEPT ![row.owner] =
               Append(@, NewHistory(st.email[row.owner], row, req.at, req.k))]
      <4>1. new = [email |-> [st.email EXCEPT ![row.owner] = row.to],
                   reference |-> st.reference, credential |-> st.credential,
                   changes |-> Spend(st.changes, req.k, req.at),
                   resets |-> Supersede(st.resets, row.owner, EmailChanged),
                   history |-> [st.history EXCEPT ![row.owner] =
                     Append(@, NewHistory(st.email[row.owner], row, req.at, req.k))]]
        BY <1>4, ConfirmDoes, Zenon
      <4> HIDE DEF new, row
      <4> QED
        BY <4>1
    <3>2. /\ Presentable(row, req.at)
          /\ ~BeforeLatestChange(st.history[row.owner], req.at)
          /\ Holders(st.email, row.to) \subseteq {row.owner}
      BY <2>1, <2>2
    <3> HIDE DEF new
    <3> QED
      BY <3>1, <3>2, SameRules DEF Proved!ChangeConfirmed
  <2>4. Proved!Sound(new)
    BY <2>1, <2>3, SameAssumptions, Proved!ChangeConfirmedKeepsPromises
  <2> QED
    BY <2>4, EffectIsShaped, SoundAreTables
<1>5. CASE req.door = "start_password_reset"
  <2>1. /\ c = req.c /\ st.email[c] # NoAddress /\ req.r \in ResetId /\ req.at \in Instant
        /\ req.window \in Window
    BY <1>0, <1>5, RequestFields, OwnerIs
  <2>2. HasCredential(st.credential[c])
    BY <2>1, <1>5 DEF Accepts, Admits
  <2>3. Proved!ResetStarted(st, new, c, req.r, req.at, req.window)
    BY <2>1, <2>2, <1>5, StartResetDoes, NewKeysAre, SameRules DEF Proved!ResetStarted
  <2>4. Proved!Sound(new)
    BY <2>1, <2>3, SameAssumptions, Proved!ResetStartedKeepsPromises
  <2> QED
    BY <2>4, EffectIsShaped, SoundAreTables
<1>6. CASE req.door = "consume_password_reset"
  <2>1. /\ req.r \in ResetId /\ req.p \in Secret /\ req.salt \in Salt /\ req.at \in Instant
        /\ st.resets[req.r].owner = c
    BY <1>0, <1>6, RequestFields, OwnerIs
  <2>2. Presentable(st.resets[req.r], req.at)
    BY <2>1, <1>6 DEF Accepts, Admits, TokenOf
  <2>3. Proved!ResetConsumed(st, new, req.r, req.p, req.salt, req.at)
    BY <2>1, <2>2, <1>6, ConsumeDoes, SameRules DEF Proved!ResetConsumed
  <2>4. Proved!Sound(new)
    BY <2>1, <2>3, SameAssumptions, Proved!ResetConsumedKeepsPromises
  <2> QED
    BY <2>4, EffectIsShaped, SoundAreTables
<1>7. CASE req.door = "record_acceptance"
  BY <1>7, AcceptanceDoes
<1> QED
  BY <1>1, <1>2, <1>3, <1>4, <1>5, <1>6, <1>7, RequestFields DEF Door

\* What a log does to sound tables, wherever it stops: every door of it accepted,
\* with a key that was new.
LEMMA RunKeepsPromises ==
  ASSUME NEW st \in Tables, Proved!Sound(st), NEW log \in Seq(Requests),
         \A i \in 1..Len(log) :
           Accepts(After(st, log)[i - 1], log[i]) /\ NewKeys(After(st, log)[i - 1], log[i])
  PROVE  \A i \in 0..Len(log) : After(st, log)[i] \in Tables /\ Proved!Sound(After(st, log)[i])
<1> DEFINE run == After(st, log)
           bad == {i \in 0..Len(log) : ~(run[i] \in Tables /\ Proved!Sound(run[i]))}
<1> SUFFICES ASSUME bad # {}
             PROVE  FALSE
  OBVIOUS
<1>1. PICK m \in bad : \A n \in bad : m <= n
  <2>1. bad \in SUBSET Nat
    OBVIOUS
  <2> HIDE DEF bad
  <2> QED
    BY <2>1, LeastMember
<1>2. m # 0
  BY <1>1, AfterIsTheRun
<1>3. m \in 1..Len(log) /\ m - 1 \in 0..Len(log) /\ m - 1 \notin bad
  BY <1>1, <1>2
<1>4. run[m - 1] \in Tables /\ Proved!Sound(run[m - 1])
  BY <1>3
<1>5. run[m] = Effect(run[m - 1], log[m]) /\ log[m] \in Requests
  BY <1>3, AfterIsTheRun
<1>6. Accepts(run[m - 1], log[m]) /\ NewKeys(run[m - 1], log[m])
  BY <1>3
<1>7. run[m] \in Tables /\ Proved!Sound(run[m])
  <2> HIDE DEF run
  <2> QED
    BY <1>4, <1>5, <1>6, DoorKeepsPromises
<1> QED
  BY <1>1, <1>7

\* The empty store keeps every promise.
LEMMA EmptyTablesAreSound == EmptyTables \in Tables /\ Proved!Sound(EmptyTables)
<1>1. EmptyTables \in Tables
  BY DEF EmptyTables, Tables, Credential, NoCredential
<1>2. Proved!Typed(EmptyTables)
  BY <1>1, SameTypes DEF Tables
<1>3. Proved!RowsHaveAccounts(EmptyTables) /\ Proved!AddressesApart(EmptyTables)
  BY DEF EmptyTables, Proved!RowsHaveAccounts, Proved!AddressesApart
<1>4. Proved!NewestAlone(EmptyTables) /\ Proved!ResetsAtTheAddress(EmptyTables)
  BY DEF EmptyTables, Proved!NewestAlone, Proved!ResetsAtTheAddress, Proved!Live
<1>5. Proved!ChangesUnderTheCredential(EmptyTables) /\ Proved!ChangesMove(EmptyTables)
  BY DEF EmptyTables, Proved!ChangesUnderTheCredential, Proved!ChangesMove, Proved!Live
<1>6. Proved!HistoryChains(EmptyTables) /\ Proved!RedeemedInHistory(EmptyTables)
  BY DEF EmptyTables, Proved!HistoryChains, Proved!Chain, Proved!RedeemedInHistory,
     Proved!Records
<1>7. Proved!RedeemedInTime(EmptyTables) /\ Proved!TokensHaveCredentials(EmptyTables)
  BY DEF EmptyTables, Proved!RedeemedInTime, Proved!RedeemedInside,
     Proved!TokensHaveCredentials
<1> QED
  BY <1>1, <1>2, <1>3, <1>4, <1>5, <1>6, <1>7 DEF Proved!Sound

\* The tables a seed leaves keep every promise.
LEMMA SeedsAreSound == Init => db \in Tables /\ Proved!Sound(db)
<1> SUFFICES ASSUME NEW log \in Seed, db = Replay(EmptyTables, log)
             PROVE  db \in Tables /\ Proved!Sound(db)
  BY DEF Init
<1>1. /\ log \in Seq(Requests) /\ Replays(EmptyTables, log) /\ DrawsAnew(EmptyTables, log)
  BY SeedsHappened
<1>2. \A i \in 1..Len(log) :
        /\ Accepts(After(EmptyTables, log)[i - 1], log[i])
        /\ NewKeys(After(EmptyTables, log)[i - 1], log[i])
  <2>1. \A i \in 1..Len(log) : log[i] \in Requests
    BY <1>1
  <2>2. \A i \in 1..Len(log) : Keys(log[i]) \subseteq Drawn(log[i])
    BY <2>1, KeysAreDrawn
  <2> QED
    BY <1>1, <2>2 DEF Replays, DrawsAnew, NewKeys
<1>3. \A i \in 0..Len(log) :
        /\ After(EmptyTables, log)[i] \in Tables
        /\ Proved!Sound(After(EmptyTables, log)[i])
  BY <1>1, <1>2, EmptyTablesAreSound, RunKeepsPromises
<1>4. Len(log) \in 0..Len(log)
  BY <1>1
<1> QED
  BY <1>3, <1>4 DEF Replay

-----------------------------------------------------------------------------
(* Whose rows a door touches.                                              *)

\* The row is this customer's.
Of(row, c) == row # NoRow /\ row.owner = c

\* Two tables that agree on the rows of a customer.
SameRows(t, u, c) == \A x \in DOMAIN t : Of(t[x], c) \/ Of(u[x], c) => t[x] = u[x]

\* Tables that agree on all that is a customer's.
SameFor(a, b, c) ==
  /\ a.email[c] = b.email[c] /\ a.reference[c] = b.reference[c]
  /\ a.credential[c] = b.credential[c] /\ a.history[c] = b.history[c]
  /\ SameRows(a.changes, b.changes, c)
  /\ SameRows(a.resets, b.resets, c)

\* A table of tokens, of either kind.
Tokens(t) == \A x \in DOMAIN t : t[x] # NoRow => t[x] \in ChangeRow \cup ResetRow

\* A row closed is the same customer's row.
LEMMA ClosedRows ==
  ASSUME NEW row \in ChangeRow \cup ResetRow
  PROVE  /\ \A reason \in Reason :
              LET new == [row EXCEPT !.state = "cancelled", !.reason = reason]
              IN  new \in ChangeRow \cup ResetRow /\ new # NoRow /\ new.owner = row.owner
         /\ \A at \in Instant :
              LET new == [row EXCEPT !.state = "redeemed", !.redeemedAt = at]
              IN  new \in ChangeRow \cup ResetRow /\ new # NoRow /\ new.owner = row.owner
<1>1. CASE row \in ChangeRow
  BY <1>1, NoRowIsApart DEF ChangeRow, TokenState
<1>2. CASE row \in ResetRow
  BY <1>2, NoRowIsApart DEF ResetRow, TokenState
<1> QED
  BY <1>1, <1>2

\* Superseding, row by row.
SupersededRow(new, row, c, reason) ==
  /\ new = IF Of(row, c) /\ row.state = "issued"
           THEN [row EXCEPT !.state = "cancelled", !.reason = reason]
           ELSE row
  /\ new # NoRow <=> row # NoRow
  /\ row # NoRow => new.owner = row.owner
  /\ ~Of(row, c) => new = row

\* Supersede does that.
LEMMA SupersededRows ==
  ASSUME NEW t, Tokens(t), NEW c, NEW reason \in Reason
  PROVE  /\ DOMAIN Supersede(t, c, reason) = DOMAIN t
         /\ \A x \in DOMAIN t : SupersededRow(Supersede(t, c, reason)[x], t[x], c, reason)
<1>1. DOMAIN Supersede(t, c, reason) = DOMAIN t
  BY DEF Supersede, Cancelled
<1> DEFINE new(x) == Supersede(t, c, reason)[x]
<1>2. ASSUME NEW x \in DOMAIN t
      PROVE  SupersededRow(new(x), t[x], c, reason)
  <2>0. new(x) = IF Of(t[x], c) /\ t[x].state = "issued"
                 THEN [t[x] EXCEPT !.state = "cancelled", !.reason = reason]
                 ELSE t[x]
    BY DEF Supersede, Cancelled, Outstanding, Of
  <2> HIDE DEF new
  <2>1. CASE Of(t[x], c)
    <3>1. t[x] \in ChangeRow \cup ResetRow /\ t[x] # NoRow
      BY <2>1 DEF Tokens, Of
    <3>2. /\ [t[x] EXCEPT !.state = "cancelled", !.reason = reason] # NoRow
          /\ [t[x] EXCEPT !.state = "cancelled", !.reason = reason].owner = t[x].owner
      BY <3>1, ClosedRows
    <3> QED
      BY <2>0, <2>1, <3>1, <3>2 DEF SupersededRow
  <2>2. CASE ~Of(t[x], c)
    BY <2>0, <2>2 DEF SupersededRow
  <2> QED
    BY <2>1, <2>2
<1> QED
  BY <1>1, <1>2

\* Superseding the rows of a customer touches nobody else's, and gives the same
\* wherever that customer's rows are the same.
LEMMA SupersedeIsLocal ==
  ASSUME NEW t, NEW c, NEW reason \in Reason, Tokens(t)
  PROVE  /\ \A d : d # c => SameRows(Supersede(t, c, reason), t, d)
         /\ \A u : DOMAIN u = DOMAIN t /\ Tokens(u) /\ SameRows(t, u, c) =>
              SameRows(Supersede(t, c, reason), Supersede(u, c, reason), c)
<1> DEFINE new(u) == Supersede(u, c, reason)
<1>0. ASSUME NEW u, Tokens(u)
      PROVE  /\ DOMAIN new(u) = DOMAIN u
             /\ \A x \in DOMAIN u : SupersededRow(new(u)[x], u[x], c, reason)
  BY <1>0, SupersededRows
<1> HIDE DEF new
<1>1. ASSUME NEW d, d # c
      PROVE  SameRows(new(t), t, d)
  <2>1. ASSUME NEW x \in DOMAIN t, Of(new(t)[x], d) \/ Of(t[x], d)
        PROVE  new(t)[x] = t[x]
    <3>1. SupersededRow(new(t)[x], t[x], c, reason)
      BY <1>0
    <3>2. ~Of(t[x], c)
      BY <1>1, <2>1, <3>1 DEF SupersededRow, Of
    <3> QED
      BY <3>1, <3>2 DEF SupersededRow
  <2> QED
    BY <1>0, <2>1 DEF SameRows
<1>2. ASSUME NEW u, DOMAIN u = DOMAIN t, Tokens(u), SameRows(t, u, c)
      PROVE  SameRows(new(t), new(u), c)
  <2>1. ASSUME NEW x \in DOMAIN t, Of(new(t)[x], c) \/ Of(new(u)[x], c)
        PROVE  new(t)[x] = new(u)[x]
    <3>0. /\ SupersededRow(new(t)[x], t[x], c, reason)
          /\ SupersededRow(new(u)[x], u[x], c, reason)
      BY <1>0, <1>2
    <3>1. CASE t[x] = u[x]
      BY <3>0, <3>1 DEF SupersededRow
    <3>2. CASE t[x] # u[x]
      <4>1. ~Of(t[x], c) /\ ~Of(u[x], c)
        BY <3>2, <1>2 DEF SameRows
      <4> QED
        BY <4>1, <2>1, <3>0 DEF SupersededRow
    <3> QED
      BY <3>1, <3>2
  <2> QED
    BY <2>1, <1>0 DEF SameRows
<1> QED
  BY <1>1, <1>2 DEF new

\* Spending a row of a customer, likewise.
LEMMA SpendIsLocal ==
  ASSUME NEW t, NEW c, NEW x \in DOMAIN t, Of(t[x], c), NEW at \in Instant, Tokens(t)
  PROVE  /\ DOMAIN Spend(t, x, at) = DOMAIN t
         /\ \A y \in DOMAIN t : y # x => Spend(t, x, at)[y] = t[y]
         /\ Of(Spend(t, x, at)[x], c)
         /\ \A d : d # c => SameRows(Spend(t, x, at), t, d)
         /\ \A u : DOMAIN u = DOMAIN t /\ SameRows(t, u, c) =>
              SameRows(Spend(t, x, at), Spend(u, x, at), c)
<1>1. \A u : DOMAIN u = DOMAIN t =>
        /\ DOMAIN Spend(u, x, at) = DOMAIN t
        /\ \A y \in DOMAIN t : y # x => Spend(u, x, at)[y] = u[y]
        /\ Spend(u, x, at)[x] = [u[x] EXCEPT !.state = "redeemed", !.redeemedAt = at]
  BY DEF Spend
<1>2. t[x] \in ChangeRow \cup ResetRow /\ t[x] # NoRow
  BY DEF Tokens, Of
<1>3. Of(Spend(t, x, at)[x], c)
  <2>1. Spend(t, x, at)[x] = [t[x] EXCEPT !.state = "redeemed", !.redeemedAt = at]
    BY DEF Spend
  <2> QED
    BY <1>2, <2>1, ClosedRows DEF Of
<1>4. \A d : d # c => SameRows(Spend(t, x, at), t, d)
  <2>1. DOMAIN Spend(t, x, at) = DOMAIN t /\ \A y \in DOMAIN t : y # x => Spend(t, x, at)[y] = t[y]
    BY DEF Spend
  <2> QED
    BY <2>1, <1>3 DEF SameRows, Of
<1>5. ASSUME NEW u, DOMAIN u = DOMAIN t, SameRows(t, u, c)
      PROVE  SameRows(Spend(t, x, at), Spend(u, x, at), c)
  <2>1. t[x] = u[x]
    BY <1>5 DEF SameRows
  <2>2. Spend(t, x, at)[x] = Spend(u, x, at)[x]
    <3>1. /\ Spend(t, x, at)[x] = [t[x] EXCEPT !.state = "redeemed", !.redeemedAt = at]
          /\ Spend(u, x, at)[x] = [u[x] EXCEPT !.state = "redeemed", !.redeemedAt = at]
      BY <1>1, <1>5
    <3> QED
      BY <2>1, <3>1
  <2>3. /\ DOMAIN Spend(t, x, at) = DOMAIN t
        /\ \A y \in DOMAIN t : y # x => Spend(t, x, at)[y] = t[y] /\ Spend(u, x, at)[y] = u[y]
    BY <1>1, <1>5
  <2> QED
    BY <1>5, <2>2, <2>3 DEF SameRows
<1> QED
  BY <1>1, <1>3, <1>4, <1>5

\* Agreement is an equivalence among tables of one kind.
LEMMA SameRowsIsEquivalence ==
  ASSUME NEW c, NEW t, NEW u, DOMAIN u = DOMAIN t
  PROVE  /\ SameRows(t, t, c)
         /\ SameRows(t, u, c) => SameRows(u, t, c)
         /\ \A v : DOMAIN v = DOMAIN t /\ SameRows(t, u, c) /\ SameRows(u, v, c) =>
              SameRows(t, v, c)
BY DEF SameRows

\* A new row under a new key, in place of the customer's older ones.
Issue(t, c, x, row) == [Supersede(t, c, Superseded) EXCEPT ![x] = row]

\* Row by row.
LEMMA IssuedRows ==
  ASSUME NEW t, Tokens(t), NEW c, NEW x \in DOMAIN t, NEW row
  PROVE  /\ DOMAIN Issue(t, c, x, row) = DOMAIN t
         /\ Issue(t, c, x, row)[x] = row
         /\ \A y \in DOMAIN t : y # x => SupersededRow(Issue(t, c, x, row)[y], t[y], c, Superseded)
BY SupersededRows DEF Issue, Reason

\* Issuing is local too.
LEMMA IssueIsLocal ==
  ASSUME NEW t, NEW c, NEW x \in DOMAIN t, Tokens(t), t[x] = NoRow, NEW row, Of(row, c)
  PROVE  /\ \A d : d # c => SameRows(Issue(t, c, x, row), t, d)
         /\ \A u : DOMAIN u = DOMAIN t /\ Tokens(u) /\ u[x] = NoRow /\ SameRows(t, u, c) =>
              SameRows(Issue(t, c, x, row), Issue(u, c, x, row), c)
<1> DEFINE rest(u) == Supersede(u, c, Superseded)
           new(u) == Issue(u, c, x, row)
<1>0. Superseded \in Reason
  BY DEF Reason
<1>1. ASSUME NEW u, Tokens(u), x \in DOMAIN u
      PROVE  /\ DOMAIN rest(u) = DOMAIN u /\ DOMAIN new(u) = DOMAIN u
             /\ new(u)[x] = row
             /\ \A y \in DOMAIN u : y # x => new(u)[y] = rest(u)[y]
  BY <1>0, <1>1, SupersededRows DEF Issue
<1>2. \A d : d # c => SameRows(rest(t), t, d)
  BY <1>0, SupersedeIsLocal
<1>3. ASSUME NEW u, DOMAIN u = DOMAIN t, Tokens(u), SameRows(t, u, c)
      PROVE  SameRows(rest(t), rest(u), c)
  BY <1>0, <1>3, SupersedeIsLocal
<1> HIDE DEF rest, new
<1>4. ASSUME NEW d, d # c
      PROVE  SameRows(new(t), t, d)
  <2>1. SameRows(rest(t), t, d)
    BY <1>2, <1>4
  <2> QED
    BY <1>1, <1>4, <2>1 DEF SameRows, Of
<1>5. ASSUME NEW u, DOMAIN u = DOMAIN t, Tokens(u), u[x] = NoRow, SameRows(t, u, c)
      PROVE  SameRows(new(t), new(u), c)
  <2>1. SameRows(rest(t), rest(u), c)
    BY <1>3, <1>5
  <2>2. /\ DOMAIN rest(t) = DOMAIN t /\ DOMAIN new(t) = DOMAIN t
        /\ new(t)[x] = row /\ new(u)[x] = row
        /\ \A y \in DOMAIN t : y # x => new(t)[y] = rest(t)[y] /\ new(u)[y] = rest(u)[y]
    BY <1>1, <1>5
  <2> QED
    BY <2>1, <2>2 DEF SameRows
<1> QED
  BY <1>4, <1>5 DEF new

\* The tables of a store, as tables of tokens.
LEMMA TokenTables ==
  ASSUME NEW st \in Tables
  PROVE  /\ Tokens(st.changes) /\ DOMAIN st.changes = ChangeId
         /\ Tokens(st.resets) /\ DOMAIN st.resets = ResetId
         /\ \A k \in ChangeId : st.changes[k] # NoRow =>
              st.changes[k] \in ChangeRow /\ st.changes[k].owner \in Customer
                /\ st.changes[k].to \in Address
         /\ \A r \in ResetId : st.resets[r] # NoRow =>
              st.resets[r] \in ResetRow /\ st.resets[r].owner \in Customer
         /\ \A c \in Customer : st.email[c] \in Address \cup {NoAddress}
BY DEF Tables, Tokens, ChangeRow, ResetRow

\* A new row is its customer's.
LEMMA NewRows ==
  ASSUME NEW c \in Customer, NEW at \in Instant, NEW window \in Window, NEW a \in Address
  PROVE  /\ \A authorisation \in {ByPassword, ByCaller}, stored \in Credential :
              Of(NewChange(c, a, authorisation, at, window, stored), c)
         /\ Of(NewReset(c, a, at, window), c)
<1>1. at + window \in Int
  BY InstantsAreWhole
<1>2. ASSUME NEW authorisation \in {ByPassword, ByCaller}, NEW stored \in Credential
      PROVE  NewChange(c, a, authorisation, at, window, stored) \in ChangeRow
  BY <1>1 DEF NewChange, ChangeRow, Expiry, TokenState, Reason, Credential
<1>3. NewReset(c, a, at, window) \in ResetRow
  BY <1>1 DEF NewReset, ResetRow, Expiry, TokenState, Reason
<1> QED
  BY <1>2, <1>3, NoRowIsApart DEF Of, NewChange, NewReset

\* What a door reads of its customer's own rows is the same wherever these are.
LEMMA OwnerIsTheSame ==
  ASSUME NEW a \in Tables, NEW b \in Tables, NEW req \in Requests, NEW c \in Owner(a, req),
         SameFor(a, b, c)
  PROVE  /\ Owner(b, req) = Owner(a, req)
         /\ Admits(a, req) => Admits(b, req)
         /\ Enters(b, req) = Enters(a, req) /\ Frees(b, req) = Frees(a, req)
<1>0. c \in Customer /\ \A d \in Owner(a, req) : d = c
  BY OwnerIs
<1>1. /\ "c" \in DOMAIN req => c = req.c
      /\ a.email[c] = b.email[c] /\ a.credential[c] = b.credential[c]
      /\ a.history[c] = b.history[c]
  BY OwnerIs DEF SameFor
<1>2. ASSUME req.door = "confirm_email_change"
      PROVE  TokenOf(b, req) = TokenOf(a, req) /\ TokenOf(a, req).owner = c
  <2>1. req.k \in ChangeId /\ Of(a.changes[req.k], c)
    BY <1>2, RequestFields, OwnerIs DEF Of
  <2> QED
    BY <1>2, <2>1, TokenTables DEF SameFor, SameRows, TokenOf, Of
<1>3. ASSUME req.door = "consume_password_reset"
      PROVE  TokenOf(b, req) = TokenOf(a, req) /\ TokenOf(a, req).owner = c
  <2>1. req.r \in ResetId /\ Of(a.resets[req.r], c)
    BY <1>3, RequestFields, OwnerIs DEF Of
  <2> QED
    BY <1>3, <2>1, TokenTables DEF SameFor, SameRows, TokenOf, Of
<1>4. Owner(b, req) = Owner(a, req)
  <2>1. CASE "c" \in DOMAIN req
    BY <1>0, <1>1, <2>1 DEF Owner
  <2>2. CASE "c" \notin DOMAIN req
    <3>1. TokenOf(b, req) = TokenOf(a, req) /\ TokenOf(a, req).owner = c
      BY <1>2, <1>3, <2>2, RequestFields
    <3> QED
      BY <1>0, <1>1, <2>2, <3>1 DEF Owner
  <2> QED
    BY <2>1, <2>2
<1>5. Admits(a, req) => Admits(b, req)
  <2>1. CASE req.door \in {"start_email_change", "start_password_reset"}
    BY <1>1, <2>1, RequestFields DEF Admits
  <2>2. CASE req.door = "confirm_email_change"
    BY <1>1, <1>2, <2>2 DEF Admits
  <2>3. CASE req.door = "consume_password_reset"
    BY <1>3, <2>3 DEF Admits
  <2>4. CASE req.door \notin {"start_email_change", "start_password_reset",
                              "confirm_email_change", "consume_password_reset"}
    BY <2>4 DEF Admits
  <2> QED
    BY <2>1, <2>2, <2>3, <2>4
<1>6. Enters(b, req) = Enters(a, req) /\ Frees(b, req) = Frees(a, req)
  <2>1. CASE req.door = "confirm_email_change"
    BY <1>1, <1>2, <2>1 DEF Enters, Frees
  <2>2. CASE req.door # "confirm_email_change"
    BY <2>2 DEF Enters, Frees
  <2> QED
    BY <2>1, <2>2
<1> QED
  BY <1>4, <1>5, <1>6

\* A door touches nobody else's rows.
LEMMA DoorIsLocal ==
  ASSUME NEW st \in Tables, NEW req \in Requests, Accepts(st, req), NewKeys(st, req),
         NEW d \in Customer, d \notin Owner(st, req)
  PROVE  SameFor(Effect(st, req), st, d)
<1> DEFINE new == Effect(st, req)
<1>0. PICK c \in Customer : c \in Owner(st, req)
  BY OwnerIs DEF Accepts
<1>8. c # d
  BY <1>0
<1>9. SameRows(st.changes, st.changes, d) /\ SameRows(st.resets, st.resets, d)
  BY DEF SameRows
<1>10. /\ st.email \in [Customer -> Address \cup {NoAddress}]
       /\ DOMAIN st.reference = Customer /\ st.credential \in [Customer -> Credential]
       /\ DOMAIN st.history = Customer
  BY DEF Tables
<1>11. PasswordSet \in Reason /\ EmailChanged \in Reason
  BY DEF Reason
<1>1. CASE req.door = "create_account"
  <2>1. c = req.c
    BY <1>0, <1>1, RequestFields, OwnerIs
  <2> QED
    BY <2>1, <1>8, <1>9, <1>10, <1>1, CreateDoes DEF SameFor
<1>2. CASE req.door = "set_password"
  <2>1. c = req.c
    BY <1>0, <1>2, RequestFields, OwnerIs
  <2>2. SameRows(Supersede(st.changes, c, PasswordSet), st.changes, d)
    BY <1>8, <1>11, TokenTables, SupersedeIsLocal
  <2> QED
    BY <2>1, <2>2, <1>8, <1>9, <1>10, <1>2, SetPasswordDoes DEF SameFor
<1>3. CASE req.door = "start_email_change"
  <2>1. /\ c = req.c /\ req.k \in ChangeId /\ req.a \in Address /\ req.at \in Instant
        /\ req.window \in Window
    BY <1>0, <1>3, RequestFields, OwnerIs
  <2> DEFINE row == NewChange(req.c, req.a, IF req.proof = ByCaller THEN ByCaller ELSE ByPassword,
                              req.at, req.window, st.credential[req.c])
  <2>2. Of(row, c)
    BY <2>1, <1>10, NewRows
  <2>3. new.changes = Issue(st.changes, c, req.k, row)
    BY <2>1, <1>3, StartChangeDoes DEF Issue
  <2>4. st.changes[req.k] = NoRow
    BY <1>3, NewKeysAre
  <2>5. SameRows(new.changes, st.changes, d)
    <3> HIDE DEF row, new
    <3>1. Tokens(st.changes) /\ req.k \in DOMAIN st.changes
      BY <2>1, TokenTables
    <3>2. SameRows(Issue(st.changes, c, req.k, row), st.changes, d)
      BY <2>2, <2>4, <3>1, <1>8, IssueIsLocal
    <3> QED
      BY <2>3, <3>2
  <2> QED
    BY <2>5, <1>9, <1>3, StartChangeDoes DEF SameFor
<1>4. CASE req.door = "confirm_email_change"
  <2>1. /\ st.changes[req.k].owner = c /\ st.changes[req.k] # NoRow
        /\ req.k \in ChangeId /\ req.at \in Instant
    BY <1>0, <1>4, RequestFields, OwnerIs
  <2>2. SameRows(Supersede(st.resets, c, EmailChanged), st.resets, d)
    BY <1>8, <1>11, TokenTables, SupersedeIsLocal
  <2>3. SameRows(Spend(st.changes, req.k, req.at), st.changes, d)
    BY <2>1, <1>8, TokenTables, SpendIsLocal DEF Of
  <2> QED
    BY <2>1, <2>2, <2>3, <1>8, <1>10, <1>4, ConfirmDoes DEF SameFor
<1>5. CASE req.door = "start_password_reset"
  <2>1. /\ c = req.c /\ req.r \in ResetId /\ req.at \in Instant /\ req.window \in Window
        /\ st.email[c] \in Address
    BY <1>0, <1>10, <1>5, RequestFields, OwnerIs
  <2> DEFINE row == NewReset(req.c, st.email[req.c], req.at, req.window)
  <2>2. Of(row, c)
    BY <2>1, NewRows
  <2>3. new.resets = Issue(st.resets, c, req.r, row)
    BY <2>1, <1>5, StartResetDoes DEF Issue
  <2>4. st.resets[req.r] = NoRow
    BY <1>5, NewKeysAre
  <2>5. SameRows(new.resets, st.resets, d)
    <3> HIDE DEF row, new
    <3>1. Tokens(st.resets) /\ req.r \in DOMAIN st.resets
      BY <2>1, TokenTables
    <3>2. SameRows(Issue(st.resets, c, req.r, row), st.resets, d)
      BY <2>2, <2>4, <3>1, <1>8, IssueIsLocal
    <3> QED
      BY <2>3, <3>2
  <2> QED
    BY <2>5, <1>9, <1>5, StartResetDoes DEF SameFor
<1>6. CASE req.door = "consume_password_reset"
  <2>1. /\ st.resets[req.r].owner = c /\ st.resets[req.r] # NoRow
        /\ req.r \in ResetId /\ req.at \in Instant
    BY <1>0, <1>6, RequestFields, OwnerIs
  <2>2. SameRows(Supersede(st.changes, c, PasswordSet), st.changes, d)
    BY <1>8, <1>11, TokenTables, SupersedeIsLocal
  <2>3. SameRows(Spend(st.resets, req.r, req.at), st.resets, d)
    BY <2>1, <1>8, TokenTables, SpendIsLocal DEF Of
  <2> QED
    BY <2>1, <2>2, <2>3, <1>8, <1>10, <1>6, ConsumeDoes DEF SameFor
<1>7. CASE req.door = "record_acceptance"
  BY <1>9, <1>7, AcceptanceDoes DEF SameFor
<1> QED
  BY <1>1, <1>2, <1>3, <1>4, <1>5, <1>6, <1>7, RequestFields DEF Door

\* What a door leaves of its customer's rows is the same wherever these were.
LEMMA DoorIsTheSame ==
  ASSUME NEW a \in Tables, NEW b \in Tables, NEW req \in Requests, NEW c \in Owner(a, req),
         NewKeys(a, req), NewKeys(b, req), SameFor(a, b, c)
  PROVE  SameFor(Effect(a, req), Effect(b, req), c)
<1> DEFINE x == Effect(a, req)
           y == Effect(b, req)
<1>0. c \in Customer
  BY OwnerIs
<1>1. /\ a.email[c] = b.email[c] /\ a.reference[c] = b.reference[c]
      /\ a.credential[c] = b.credential[c] /\ a.history[c] = b.history[c]
      /\ SameRows(a.changes, b.changes, c) /\ SameRows(a.resets, b.resets, c)
  BY DEF SameFor
<1>2. \A st \in {a, b} :
        /\ st.email \in [Customer -> Address \cup {NoAddress}]
        /\ DOMAIN st.reference = Customer /\ st.credential \in [Customer -> Credential]
        /\ DOMAIN st.history = Customer
        /\ Tokens(st.changes) /\ DOMAIN st.changes = ChangeId
        /\ Tokens(st.resets) /\ DOMAIN st.resets = ResetId
  BY TokenTables DEF Tables
<1>3. PasswordSet \in Reason /\ EmailChanged \in Reason
  BY DEF Reason
<1>4. \A reason \in Reason :
        /\ SameRows(Supersede(a.changes, c, reason), Supersede(b.changes, c, reason), c)
        /\ SameRows(Supersede(a.resets, c, reason), Supersede(b.resets, c, reason), c)
  BY <1>1, <1>2, SupersedeIsLocal
<1>5. CASE req.door = "create_account"
  <2>1. c = req.c
    BY <1>5, RequestFields, OwnerIs
  <2>2. /\ x.email[c] = req.a /\ y.email[c] = req.a
        /\ x.reference[c] = req.ref /\ y.reference[c] = req.ref
        /\ x.credential = a.credential /\ y.credential = b.credential
        /\ x.history = a.history /\ y.history = b.history
        /\ x.changes = a.changes /\ y.changes = b.changes
        /\ x.resets = a.resets /\ y.resets = b.resets
    BY <2>1, <1>0, <1>2, <1>5, CreateDoes
  <2> QED
    BY <2>2, <1>1 DEF SameFor
<1>6. CASE req.door = "set_password"
  <2>1. c = req.c
    BY <1>6, RequestFields, OwnerIs
  <2>2. /\ x.credential[c] = HashPassword(req.p, req.salt)
        /\ y.credential[c] = HashPassword(req.p, req.salt)
        /\ x.changes = Supersede(a.changes, c, PasswordSet)
        /\ y.changes = Supersede(b.changes, c, PasswordSet)
        /\ x.email = a.email /\ y.email = b.email
        /\ x.reference = a.reference /\ y.reference = b.reference
        /\ x.history = a.history /\ y.history = b.history
        /\ x.resets = a.resets /\ y.resets = b.resets
    BY <2>1, <1>0, <1>2, <1>6, SetPasswordDoes
  <2> QED
    BY <2>2, <1>1, <1>3, <1>4 DEF SameFor
<1>7. CASE req.door = "start_email_change"
  <2>1. /\ c = req.c /\ req.k \in ChangeId /\ req.a \in Address /\ req.at \in Instant
        /\ req.window \in Window
    BY <1>7, RequestFields, OwnerIs
  <2> DEFINE row == NewChange(c, req.a, IF req.proof = ByCaller THEN ByCaller ELSE ByPassword,
                              req.at, req.window, a.credential[c])
  <2>2. Of(row, c)
    BY <2>1, <1>0, <1>2, NewRows
  <2>3. x.changes = Issue(a.changes, c, req.k, row)
    BY <2>1, <1>7, StartChangeDoes DEF Issue
  <2>4. y.changes = Issue(b.changes, c, req.k, row)
    BY <2>1, <1>1, <1>7, StartChangeDoes DEF Issue
  <2>5. a.changes[req.k] = NoRow /\ b.changes[req.k] = NoRow
    BY <1>7, NewKeysAre
  <2>6. SameRows(x.changes, y.changes, c)
    <3> HIDE DEF row, x, y
    <3>1. SameRows(Issue(a.changes, c, req.k, row), Issue(b.changes, c, req.k, row), c)
      BY <2>1, <2>2, <2>5, <1>1, <1>2, IssueIsLocal
    <3> QED
      BY <2>3, <2>4, <3>1
  <2>7. /\ x.email = a.email /\ y.email = b.email /\ x.resets = a.resets /\ y.resets = b.resets
        /\ x.reference = a.reference /\ y.reference = b.reference
        /\ x.history = a.history /\ y.history = b.history
        /\ x.credential = a.credential /\ y.credential = b.credential
    BY <1>7, StartChangeDoes
  <2> QED
    BY <2>6, <2>7, <1>1 DEF SameFor
<1>8. CASE req.door = "confirm_email_change"
  <2>1. /\ a.changes[req.k].owner = c /\ a.changes[req.k] # NoRow
        /\ req.k \in ChangeId /\ req.at \in Instant
    BY <1>8, RequestFields, OwnerIs
  <2> DEFINE row == a.changes[req.k]
  <2>2. b.changes[req.k] = row
    BY <2>1, <1>1, <1>2 DEF SameRows, Of
  <2>3. SameRows(Spend(a.changes, req.k, req.at), Spend(b.changes, req.k, req.at), c)
    BY <2>1, <1>1, <1>2, SpendIsLocal DEF Of
  <2>4. /\ x.email[c] = row.to /\ x.reference = a.reference /\ x.credential = a.credential
        /\ x.changes = Spend(a.changes, req.k, req.at)
        /\ x.resets = Supersede(a.resets, c, EmailChanged)
        /\ x.history[c] = Append(a.history[c], NewHistory(a.email[c], row, req.at, req.k))
    <3>1. ConfirmedTo(a, x, req, row, c)
      BY <2>1, <1>0, <1>8, ConfirmDoesTo
    <3> HIDE DEF x, row
    <3> QED
      BY <3>1, <1>0 DEF ConfirmedTo
  <2>5. /\ y.email[c] = row.to /\ y.reference = b.reference /\ y.credential = b.credential
        /\ y.changes = Spend(b.changes, req.k, req.at)
        /\ y.resets = Supersede(b.resets, c, EmailChanged)
        /\ y.history[c] = Append(b.history[c], NewHistory(b.email[c], row, req.at, req.k))
    <3>1. ConfirmedTo(b, y, req, row, c)
      BY <2>1, <2>2, <1>0, <1>8, ConfirmDoesTo
    <3> HIDE DEF y, row
    <3> QED
      BY <3>1, <1>0 DEF ConfirmedTo
  <2>6. SameFor(x, y, c)
    <3> HIDE DEF x, y, row
    <3> QED
      BY <2>3, <2>4, <2>5, <1>1, <1>3, <1>4 DEF SameFor
  <2> QED
    BY <2>6
<1>9. CASE req.door = "start_password_reset"
  <2>1. /\ c = req.c /\ req.r \in ResetId /\ req.at \in Instant /\ req.window \in Window
        /\ a.email[c] \in Address
    BY <1>0, <1>2, <1>9, RequestFields, OwnerIs
  <2> DEFINE row == NewReset(c, a.email[c], req.at, req.window)
  <2>2. Of(row, c)
    BY <2>1, <1>0, NewRows
  <2>3. x.resets = Issue(a.resets, c, req.r, row)
    BY <2>1, <1>9, StartResetDoes DEF Issue
  <2>4. y.resets = Issue(b.resets, c, req.r, row)
    BY <2>1, <1>1, <1>9, StartResetDoes DEF Issue
  <2>5. a.resets[req.r] = NoRow /\ b.resets[req.r] = NoRow
    BY <1>9, NewKeysAre
  <2>6. SameRows(x.resets, y.resets, c)
    <3> HIDE DEF row, x, y
    <3>1. SameRows(Issue(a.resets, c, req.r, row), Issue(b.resets, c, req.r, row), c)
      BY <2>1, <2>2, <2>5, <1>1, <1>2, IssueIsLocal
    <3> QED
      BY <2>3, <2>4, <3>1
  <2>7. /\ x.email = a.email /\ y.email = b.email /\ x.changes = a.changes
        /\ y.changes = b.changes
        /\ x.reference = a.reference /\ y.reference = b.reference
        /\ x.history = a.history /\ y.history = b.history
        /\ x.credential = a.credential /\ y.credential = b.credential
    BY <1>9, StartResetDoes
  <2> QED
    BY <2>6, <2>7, <1>1 DEF SameFor
<1>10. CASE req.door = "consume_password_reset"
  <2>1. /\ a.resets[req.r].owner = c /\ a.resets[req.r] # NoRow
        /\ req.r \in ResetId /\ req.at \in Instant
    BY <1>10, RequestFields, OwnerIs
  <2>2. b.resets[req.r] = a.resets[req.r]
    BY <2>1, <1>1, <1>2 DEF SameRows, Of
  <2>3. SameRows(Spend(a.resets, req.r, req.at), Spend(b.resets, req.r, req.at), c)
    BY <2>1, <1>1, <1>2, SpendIsLocal DEF Of
  <2>4. /\ x.email = a.email /\ x.reference = a.reference /\ x.history = a.history
        /\ x.credential[c] = HashPassword(req.p, req.salt)
        /\ x.changes = Supersede(a.changes, c, PasswordSet)
        /\ x.resets = Spend(a.resets, req.r, req.at)
    BY <2>1, <1>0, <1>2, <1>10, ConsumeDoes
  <2>5. /\ y.email = b.email /\ y.reference = b.reference /\ y.history = b.history
        /\ y.credential[c] = HashPassword(req.p, req.salt)
        /\ y.changes = Supersede(b.changes, c, PasswordSet)
        /\ y.resets = Spend(b.resets, req.r, req.at)
    BY <2>1, <2>2, <1>0, <1>2, <1>10, ConsumeDoes
  <2>6. SameFor(x, y, c)
    <3> HIDE DEF x, y
    <3> QED
      BY <2>3, <2>4, <2>5, <1>1, <1>3, <1>4 DEF SameFor
  <2> QED
    BY <2>6
<1>11. CASE req.door = "record_acceptance"
  BY <1>11, AcceptanceDoes
<1> QED
  BY <1>5, <1>6, <1>7, <1>8, <1>9, <1>10, <1>11, RequestFields DEF Door

\* A table of tokens gains no row but under the key the door draws, and loses none.
TokensGrow(t, u, kind, req) ==
  \A x \in DOMAIN t :
    IF t[x] = NoRow THEN u[x] # NoRow => <<kind, x>> \in Keys(req) ELSE Of(u[x], t[x].owner)

\* Superseding and spending add none.
LEMMA ClosingAddsNone ==
  ASSUME NEW t, NEW u, Tokens(t), NEW c, NEW req, NEW kind
  PROVE  /\ TokensGrow(t, t, kind, req)
         /\ \A reason \in Reason : TokensGrow(t, Supersede(t, c, reason), kind, req)
         /\ \A x \in DOMAIN t, at \in Instant :
              Of(t[x], c) => TokensGrow(t, Spend(t, x, at), kind, req)
<1>1. TokensGrow(t, t, kind, req)
  BY DEF TokensGrow, Of
<1>2. ASSUME NEW reason \in Reason
      PROVE  TokensGrow(t, Supersede(t, c, reason), kind, req)
  <2>1. \A x \in DOMAIN t : SupersededRow(Supersede(t, c, reason)[x], t[x], c, reason)
    BY SupersededRows
  <2> QED
    BY <2>1 DEF TokensGrow, Of, SupersededRow
<1>3. ASSUME NEW x \in DOMAIN t, NEW at \in Instant, Of(t[x], c)
      PROVE  TokensGrow(t, Spend(t, x, at), kind, req)
  <2>1. Of(Spend(t, x, at)[x], c) /\ \A y \in DOMAIN t : y # x => Spend(t, x, at)[y] = t[y]
    BY <1>3, SpendIsLocal
  <2> QED
    BY <2>1, <1>3 DEF TokensGrow, Of
<1> QED
  BY <1>1, <1>2, <1>3

\* What a door may add: an address or a reference it enters, an account or a token
\* under the key it draws; and that it removes nothing.
Grows(st, new, req) ==
  /\ \A c \in Customer :
       /\ new.email[c] # st.email[c] =>
            /\ new.email[c] \in Address /\ <<"email", Fold(new.email[c])>> \in Enters(st, req)
            /\ st.email[c] = NoAddress => <<"c", c>> \in Keys(req)
       /\ new.reference[c] # st.reference[c] =>
            \/ new.reference[c] = NoReference
            \/ <<"external_id", new.reference[c]>> \in Enters(st, req)
  /\ TokensGrow(st.changes, new.changes, "k", req)
  /\ TokensGrow(st.resets, new.resets, "r", req)

\* Every door that accepts does no more.
LEMMA DoorGrows ==
  ASSUME NEW st \in Tables, NEW req \in Requests, Accepts(st, req), NewKeys(st, req)
  PROVE  Grows(st, Effect(st, req), req)
<1> DEFINE new == Effect(st, req)
<1>0. PICK c \in Customer : c \in Owner(st, req)
  BY OwnerIs DEF Accepts
<1>1. /\ DOMAIN st.email = Customer /\ DOMAIN st.reference = Customer
      /\ DOMAIN st.changes = ChangeId /\ Tokens(st.changes)
      /\ DOMAIN st.resets = ResetId /\ Tokens(st.resets)
  BY TokenTables DEF Tables
<1>2. PasswordSet \in Reason /\ EmailChanged \in Reason
  BY DEF Reason
<1>3. /\ TokensGrow(st.changes, st.changes, "k", req)
      /\ TokensGrow(st.resets, st.resets, "r", req)
      /\ \A reason \in Reason :
           /\ TokensGrow(st.changes, Supersede(st.changes, c, reason), "k", req)
           /\ TokensGrow(st.resets, Supersede(st.resets, c, reason), "r", req)
  BY <1>1, ClosingAddsNone
<1>4. CASE req.door = "create_account"
  <2>1. /\ c = req.c /\ req.a \in Address
        /\ \A d \in Customer : /\ new.email[d] = IF d = c THEN req.a ELSE st.email[d]
                               /\ new.reference[d] = IF d = c THEN req.ref ELSE st.reference[d]
        /\ new.changes = st.changes /\ new.resets = st.resets
    BY <1>0, <1>1, <1>4, RequestFields, OwnerIs, CreateDoes
  <2> QED
    BY <2>1, <1>3, <1>4 DEF Grows, Enters, Keys
<1>5. CASE req.door = "set_password"
  <2>1. /\ c = req.c /\ new.changes = Supersede(st.changes, c, PasswordSet)
        /\ new.email = st.email /\ new.reference = st.reference /\ new.resets = st.resets
    BY <1>0, <1>5, RequestFields, OwnerIs, SetPasswordDoes
  <2> QED
    BY <2>1, <1>2, <1>3 DEF Grows
<1>6. CASE req.door = "start_email_change"
  <2>1. /\ c = req.c /\ req.k \in ChangeId /\ req.a \in Address /\ req.at \in Instant
        /\ req.window \in Window
    BY <1>0, <1>6, RequestFields, OwnerIs
  <2> DEFINE row == NewChange(req.c, req.a, IF req.proof = ByCaller THEN ByCaller ELSE ByPassword,
                              req.at, req.window, st.credential[req.c])
  <2>2. /\ new.changes = Issue(st.changes, c, req.k, row)
        /\ new.email = st.email /\ new.reference = st.reference /\ new.resets = st.resets
    BY <2>1, <1>6, StartChangeDoes DEF Issue
  <2>3. st.changes[req.k] = NoRow /\ Keys(req) = {<<"k", req.k>>}
    BY <1>6, NewKeysAre DEF Keys
  <2> HIDE DEF row, new
  <2>4. \A k \in ChangeId :
          k # req.k => SupersededRow(new.changes[k], st.changes[k], c, Superseded)
    BY <2>1, <2>2, <1>1, IssuedRows
  <2>5. TokensGrow(st.changes, new.changes, "k", req)
    BY <2>3, <2>4, <1>1 DEF TokensGrow, Of, SupersededRow
  <2>6. Grows(st, new, req)
    BY <2>2, <2>5, <1>3 DEF Grows
  <2> QED
    BY <2>6 DEF new
<1>7. CASE req.door = "confirm_email_change"
  <2>1. /\ st.changes[req.k].owner = c /\ st.changes[req.k] # NoRow
        /\ req.k \in ChangeId /\ req.at \in Instant /\ st.email[c] # NoAddress
        /\ st.changes[req.k].to \in Address
    BY <1>0, <1>7, RequestFields, OwnerIs, TokenTables
  <2> DEFINE row == st.changes[req.k]
  <2>2. /\ \A d \in Customer : new.email[d] = IF d = c THEN row.to ELSE st.email[d]
        /\ new.reference = st.reference
        /\ new.changes = Spend(st.changes, req.k, req.at)
        /\ new.resets = Supersede(st.resets, c, EmailChanged)
    BY <2>1, <1>7, ConfirmDoesTo DEF ConfirmedTo
  <2>3. TokensGrow(st.changes, Spend(st.changes, req.k, req.at), "k", req)
    BY <2>1, <1>1, ClosingAddsNone DEF Of
  <2>4. <<"email", Fold(row.to)>> \in Enters(st, req)
    BY <1>7 DEF Enters, TokenOf
  <2> HIDE DEF new
  <2>5. Grows(st, new, req)
    BY <2>1, <2>2, <2>3, <2>4, <1>2, <1>3 DEF Grows
  <2> QED
    BY <2>5 DEF new
<1>8. CASE req.door = "start_password_reset"
  <2>1. /\ c = req.c /\ req.r \in ResetId /\ req.at \in Instant /\ req.window \in Window
    BY <1>0, <1>8, RequestFields, OwnerIs
  <2> DEFINE row == NewReset(req.c, st.email[req.c], req.at, req.window)
  <2>2. /\ new.resets = Issue(st.resets, c, req.r, row)
        /\ new.email = st.email /\ new.reference = st.reference /\ new.changes = st.changes
    BY <2>1, <1>8, StartResetDoes DEF Issue
  <2>3. st.resets[req.r] = NoRow /\ Keys(req) = {<<"r", req.r>>}
    BY <1>8, NewKeysAre DEF Keys
  <2> HIDE DEF row, new
  <2>4. \A r \in ResetId :
          r # req.r => SupersededRow(new.resets[r], st.resets[r], c, Superseded)
    BY <2>1, <2>2, <1>1, IssuedRows
  <2>5. TokensGrow(st.resets, new.resets, "r", req)
    BY <2>3, <2>4, <1>1 DEF TokensGrow, Of, SupersededRow
  <2>6. Grows(st, new, req)
    BY <2>2, <2>5, <1>3 DEF Grows
  <2> QED
    BY <2>6 DEF new
<1>9. CASE req.door = "consume_password_reset"
  <2>1. /\ st.resets[req.r].owner = c /\ st.resets[req.r] # NoRow
        /\ req.r \in ResetId /\ req.at \in Instant
    BY <1>0, <1>9, RequestFields, OwnerIs
  <2>2. /\ new.email = st.email /\ new.reference = st.reference
        /\ new.changes = Supersede(st.changes, c, PasswordSet)
        /\ new.resets = Spend(st.resets, req.r, req.at)
    BY <2>1, <1>9, ConsumeDoes
  <2>3. TokensGrow(st.resets, Spend(st.resets, req.r, req.at), "r", req)
    BY <2>1, <1>1, ClosingAddsNone DEF Of
  <2> HIDE DEF new
  <2>4. Grows(st, new, req)
    BY <2>2, <2>3, <1>2, <1>3 DEF Grows
  <2> QED
    BY <2>4 DEF new
<1>10. CASE req.door = "record_acceptance"
  BY <1>3, <1>10, AcceptanceDoes DEF Grows
<1> QED
  BY <1>4, <1>5, <1>6, <1>7, <1>8, <1>9, <1>10, RequestFields DEF Door

-----------------------------------------------------------------------------
(* One transaction over the committed tables: t is its record in tx, held  *)
(* the customers it has locked.                                            *)

\* View, of any committed tables and any transaction.
Seen(base, t) ==
  [x \in Table |->
     [y \in DOMAIN base[x] |->
        IF y \in DOMAIN t.staged[x] THEN t.staged[x][y] ELSE base[x][y]]]

\* The keys its accepted doors drew, and the key of the door in progress.
LogKeys(t)  == UNION {Keys(t.log[i]) : i \in 1..Len(t.log)}
DoorKeys(t) == IF t.req = NoRequest THEN {} ELSE Keys(t.req)

\* The customers the transaction has to itself: locked, or created by it.
Mine(t, held) == held \cup {c \in Customer : <<"c", c>> \in LogKeys(t)}

\* A staged token row is of a customer of its own, under a key of its own or the
\* row's own.
StagedRows(table, rows, kind, t, held) ==
  \A x \in DOMAIN rows :
    /\ x \in DOMAIN table /\ rows[x] # NoRow /\ rows[x].owner \in Mine(t, held)
    /\ IF table[x] = NoRow THEN <<kind, x>> \in LogKeys(t) ELSE table[x].owner = rows[x].owner

\* What the transaction has staged is its customers' own; an address or a reference
\* that it moves, it has entered; an account that it opens, it has drawn.
StagedOK(base, t, held) ==
  /\ \A c \in DOMAIN t.staged.email :
       /\ c \in Mine(t, held) /\ t.staged.email[c] # NoAddress
       /\ base.email[c] = NoAddress => <<"c", c>> \in LogKeys(t)
       /\ \/ t.staged.email[c] = base.email[c]
          \/ <<"email", Fold(t.staged.email[c])>> \in t.entries
  /\ \A c \in DOMAIN t.staged.reference :
       /\ c \in Mine(t, held)
       /\ \/ t.staged.reference[c] \in {base.reference[c], NoReference}
          \/ <<"external_id", t.staged.reference[c]>> \in t.entries
  /\ DOMAIN t.staged.credential \subseteq Mine(t, held)
  /\ DOMAIN t.staged.history \subseteq Mine(t, held)
  /\ StagedRows(base.changes, t.staged.changes, "k", t, held)
  /\ StagedRows(base.resets, t.staged.resets, "r", t, held)

\* A door of its log, at the tables where it stands.
TookAt(st, req, t, held) ==
  /\ Accepts(st, req) /\ NewKeys(st, req)
  /\ Owner(st, req) \subseteq Mine(t, held) \/ req.door = "record_acceptance"
  /\ Enters(st, req) \subseteq t.entries

\* Its log would be accepted on the committed tables as they are, and leaves what
\* the transaction sees.
RunOK(base, t, held) ==
  /\ t.log \in Seq(Requests)
  /\ \A i \in 1..Len(t.log) : TookAt(After(base, t.log)[i - 1], t.log[i], t, held)
  /\ Seen(base, t) = Replay(base, t.log)

\* Its keys are nobody's yet, and the door in progress has one of its own.
KeysOK(base, t) ==
  /\ \A key \in LogKeys(t) \cup DoorKeys(t) : ~TakenIn(base, key)
  /\ LogKeys(t) \cap DoorKeys(t) = {}

\* A locked customer has an account, or is given one by the transaction.
HeldOK(base, t, held) ==
  /\ held \subseteq Customer
  /\ \A c \in held : base.email[c] # NoAddress \/ <<"c", c>> \in LogKeys(t)

\* Nobody else carries an address that the transaction has in doubt.
EntriesOK(base, t, held) ==
  \A c \in Customer :
    base.email[c] # NoAddress /\ <<"email", Fold(base.email[c])>> \in t.entries =>
      c \in Mine(t, held)

\* The stage its door is at.
StageOf(t) == IF t.req # NoRequest THEN Stages(t.req.door)[t.next] ELSE "none"

\* A door past its lock has its customer locked, and past its checks still passes
\* what they asked of the customer's own rows.
DoorOK(base, t, held) ==
  /\ t.req \in Requests \cup {NoRequest}
  /\ t.req # NoRequest /\ Stages(t.req.door)[1] = "lock" /\ StageOf(t) # "lock" =>
       Owner(Seen(base, t), t.req) # {} /\ Owner(Seen(base, t), t.req) \subseteq held
  /\ StageOf(t) \in {"share", "write"} =>
       Owner(Seen(base, t), t.req) # {} /\ Admits(Seen(base, t), t.req)

\* What is kept of one transaction over the committed tables.
SessionOK(base, t, held) ==
  /\ StagedOK(base, t, held) /\ RunOK(base, t, held) /\ KeysOK(base, t)
  /\ HeldOK(base, t, held) /\ EntriesOK(base, t, held) /\ DoorOK(base, t, held)

\* Two transactions share no customer, no entry and no key.
Apart(t, held, u, taken) ==
  /\ Mine(t, held) \cap Mine(u, taken) = {}
  /\ t.entries \cap u.entries = {}
  /\ (LogKeys(t) \cup DoorKeys(t)) \cap (LogKeys(u) \cup DoorKeys(u)) = {}

\* The tables a transaction sees, one by one.
LEMMA SeenIs ==
  ASSUME NEW base \in Tables, NEW t
  PROVE  /\ Shaped(Seen(base, t))
         /\ DOMAIN Seen(base, t).email = Customer
         /\ \A c \in Customer : Seen(base, t).email[c] =
              IF c \in DOMAIN t.staged.email THEN t.staged.email[c] ELSE base.email[c]
         /\ DOMAIN Seen(base, t).reference = Customer
         /\ \A c \in Customer : Seen(base, t).reference[c] =
              IF c \in DOMAIN t.staged.reference THEN t.staged.reference[c] ELSE base.reference[c]
         /\ DOMAIN Seen(base, t).credential = Customer
         /\ \A c \in Customer : Seen(base, t).credential[c] =
              IF c \in DOMAIN t.staged.credential THEN t.staged.credential[c]
              ELSE base.credential[c]
         /\ DOMAIN Seen(base, t).history = Customer
         /\ \A c \in Customer : Seen(base, t).history[c] =
              IF c \in DOMAIN t.staged.history THEN t.staged.history[c] ELSE base.history[c]
         /\ DOMAIN Seen(base, t).changes = ChangeId
         /\ \A k \in ChangeId : Seen(base, t).changes[k] =
              IF k \in DOMAIN t.staged.changes THEN t.staged.changes[k] ELSE base.changes[k]
         /\ DOMAIN Seen(base, t).resets = ResetId
         /\ \A r \in ResetId : Seen(base, t).resets[r] =
              IF r \in DOMAIN t.staged.resets THEN t.staged.resets[r] ELSE base.resets[r]
<1>1. /\ DOMAIN base.email = Customer /\ DOMAIN base.reference = Customer
      /\ DOMAIN base.credential = Customer /\ DOMAIN base.history = Customer
      /\ DOMAIN base.changes = ChangeId /\ DOMAIN base.resets = ResetId
  BY DEF Tables
<1>2. Shaped(Seen(base, t))
  BY DEF Seen, Shaped, Table
<1>3. ASSUME NEW x \in Table
      PROVE  /\ DOMAIN Seen(base, t)[x] = DOMAIN base[x]
             /\ \A y \in DOMAIN base[x] : Seen(base, t)[x][y] =
                  IF y \in DOMAIN t.staged[x] THEN t.staged[x][y] ELSE base[x][y]
  BY DEF Seen
<1>4. Table = {"email", "reference", "credential", "changes", "resets", "history"}
  BY DEF Table
<1> QED
  BY <1>1, <1>2, <1>3, <1>4

\* Tables that agree on every customer agree.
LEMMA AllSame ==
  ASSUME NEW a \in Tables, NEW b \in Tables, \A c \in Customer : SameFor(a, b, c)
  PROVE  a = b
<1>1. /\ a.email = b.email /\ a.reference = b.reference /\ a.credential = b.credential
      /\ a.history = b.history
  BY DEF Tables, SameFor
<1>2. a.changes = b.changes
  <2>1. ASSUME NEW k \in ChangeId, a.changes[k] # b.changes[k]
        PROVE  FALSE
    <3>1. \E c \in Customer : Of(a.changes[k], c) \/ Of(b.changes[k], c)
      BY <2>1, TokenTables DEF Of
    <3> QED
      BY <2>1, <3>1, TokenTables DEF SameFor, SameRows
  <2> QED
    BY <2>1 DEF Tables
<1>3. a.resets = b.resets
  <2>1. ASSUME NEW r \in ResetId, a.resets[r] # b.resets[r]
        PROVE  FALSE
    <3>1. \E c \in Customer : Of(a.resets[r], c) \/ Of(b.resets[r], c)
      BY <2>1, TokenTables DEF Of
    <3> QED
      BY <2>1, <3>1, TokenTables DEF SameFor, SameRows
  <2> QED
    BY <2>1 DEF Tables
<1> QED
  BY <1>1, <1>2, <1>3, TablesApart

\* Agreement on a customer is an equivalence.
LEMMA SameForIsEquivalence ==
  ASSUME NEW c, NEW a \in Tables, NEW b \in Tables
  PROVE  /\ SameFor(a, a, c)
         /\ SameFor(a, b, c) => SameFor(b, a, c)
         /\ \A d \in Tables : SameFor(a, b, c) /\ SameFor(b, d, c) => SameFor(a, d, c)
<1>1. \A d \in Tables : DOMAIN d.changes = ChangeId /\ DOMAIN d.resets = ResetId
  BY TokenTables
<1>2. SameFor(a, a, c)
  BY DEF SameFor, SameRows
<1>3. SameFor(a, b, c) => SameFor(b, a, c)
  BY <1>1 DEF SameFor, SameRows
<1>4. ASSUME NEW d \in Tables, SameFor(a, b, c), SameFor(b, d, c)
      PROVE  SameFor(a, d, c)
  BY <1>1, <1>4 DEF SameFor, SameRows
<1> QED
  BY <1>2, <1>3, <1>4

\* Of a customer that is not the transaction's own it sees what is committed.
LEMMA SeenElsewhere ==
  ASSUME NEW base \in Tables, NEW t, NEW held, StagedOK(base, t, held),
         NEW c \in Customer, c \notin Mine(t, held)
  PROVE  SameFor(Seen(base, t), base, c)
<1> DEFINE st == Seen(base, t)
<1>1. /\ c \notin DOMAIN t.staged.email /\ c \notin DOMAIN t.staged.reference
      /\ c \notin DOMAIN t.staged.credential /\ c \notin DOMAIN t.staged.history
  BY DEF StagedOK
<1>2. /\ st.email[c] = base.email[c] /\ st.reference[c] = base.reference[c]
      /\ st.credential[c] = base.credential[c] /\ st.history[c] = base.history[c]
  BY <1>1, SeenIs
<1>3. SameRows(st.changes, base.changes, c)
  <2>1. ASSUME NEW k \in ChangeId, Of(st.changes[k], c) \/ Of(base.changes[k], c)
        PROVE  st.changes[k] = base.changes[k]
    <3>1. st.changes[k] = IF k \in DOMAIN t.staged.changes
                          THEN t.staged.changes[k] ELSE base.changes[k]
      BY SeenIs
    <3>2. k \in DOMAIN t.staged.changes =>
            /\ t.staged.changes[k] # NoRow /\ t.staged.changes[k].owner \in Mine(t, held)
            /\ IF base.changes[k] = NoRow THEN <<"k", k>> \in LogKeys(t)
               ELSE base.changes[k].owner = t.staged.changes[k].owner
      BY DEF StagedOK, StagedRows
    <3> HIDE DEF st
    <3> QED
      BY <2>1, <3>1, <3>2 DEF Of
  <2>2. DOMAIN st.changes = ChangeId
    BY SeenIs
  <2> QED
    BY <2>1, <2>2 DEF SameRows
<1>4. SameRows(st.resets, base.resets, c)
  <2>1. ASSUME NEW r \in ResetId, Of(st.resets[r], c) \/ Of(base.resets[r], c)
        PROVE  st.resets[r] = base.resets[r]
    <3>1. st.resets[r] = IF r \in DOMAIN t.staged.resets THEN t.staged.resets[r] ELSE base.resets[r]
      BY SeenIs
    <3>2. r \in DOMAIN t.staged.resets =>
            /\ t.staged.resets[r] # NoRow /\ t.staged.resets[r].owner \in Mine(t, held)
            /\ IF base.resets[r] = NoRow THEN <<"r", r>> \in LogKeys(t)
               ELSE base.resets[r].owner = t.staged.resets[r].owner
      BY DEF StagedOK, StagedRows
    <3> HIDE DEF st
    <3> QED
      BY <2>1, <3>1, <3>2 DEF Of
  <2>2. DOMAIN st.resets = ResetId
    BY SeenIs
  <2> QED
    BY <2>1, <2>2 DEF SameRows
<1> QED
  BY <1>2, <1>3, <1>4 DEF SameFor

\* What a transaction's rows may add to the committed ones: an address or a reference
\* it has entered, an account or a token under a key it has drawn; they hide none.
Adds(base, st, t) ==
  /\ \A c \in Customer :
       /\ base.email[c] # NoAddress => st.email[c] # NoAddress
       /\ base.email[c] = NoAddress /\ st.email[c] # NoAddress => <<"c", c>> \in LogKeys(t)
       /\ st.email[c] # base.email[c] => <<"email", Fold(st.email[c])>> \in t.entries
       /\ \/ st.reference[c] \in {base.reference[c], NoReference}
          \/ <<"external_id", st.reference[c]>> \in t.entries
  /\ \A k \in ChangeId :
       IF base.changes[k] = NoRow THEN st.changes[k] # NoRow => <<"k", k>> \in LogKeys(t)
       ELSE Of(st.changes[k], base.changes[k].owner)
  /\ \A r \in ResetId :
       IF base.resets[r] = NoRow THEN st.resets[r] # NoRow => <<"r", r>> \in LogKeys(t)
       ELSE Of(st.resets[r], base.resets[r].owner)

\* They add no more.
LEMMA SeenAdds ==
  ASSUME NEW base \in Tables, NEW t, NEW held, StagedOK(base, t, held)
  PROVE  Adds(base, Seen(base, t), t)
<1> DEFINE st == Seen(base, t)
<1>1. ASSUME NEW c \in Customer
      PROVE  /\ base.email[c] # NoAddress => st.email[c] # NoAddress
             /\ base.email[c] = NoAddress /\ st.email[c] # NoAddress => <<"c", c>> \in LogKeys(t)
             /\ st.email[c] # base.email[c] => <<"email", Fold(st.email[c])>> \in t.entries
             /\ \/ st.reference[c] \in {base.reference[c], NoReference}
                \/ <<"external_id", st.reference[c]>> \in t.entries
  <2>1. /\ st.email[c] = IF c \in DOMAIN t.staged.email THEN t.staged.email[c] ELSE base.email[c]
        /\ st.reference[c] =
             IF c \in DOMAIN t.staged.reference THEN t.staged.reference[c] ELSE base.reference[c]
    BY SeenIs
  <2>2. c \in DOMAIN t.staged.email =>
          /\ t.staged.email[c] # NoAddress
          /\ base.email[c] = NoAddress => <<"c", c>> \in LogKeys(t)
          /\ \/ t.staged.email[c] = base.email[c]
             \/ <<"email", Fold(t.staged.email[c])>> \in t.entries
    BY DEF StagedOK
  <2>3. c \in DOMAIN t.staged.reference =>
          \/ t.staged.reference[c] \in {base.reference[c], NoReference}
          \/ <<"external_id", t.staged.reference[c]>> \in t.entries
    BY DEF StagedOK
  <2> HIDE DEF st
  <2>4. /\ base.email[c] # NoAddress => st.email[c] # NoAddress
        /\ base.email[c] = NoAddress /\ st.email[c] # NoAddress => <<"c", c>> \in LogKeys(t)
        /\ st.email[c] # base.email[c] => <<"email", Fold(st.email[c])>> \in t.entries
    BY <2>1, <2>2
  <2>5. \/ st.reference[c] \in {base.reference[c], NoReference}
        \/ <<"external_id", st.reference[c]>> \in t.entries
    BY <2>1, <2>3
  <2> QED
    BY <2>4, <2>5
<1>2. ASSUME NEW k \in ChangeId
      PROVE  IF base.changes[k] = NoRow THEN st.changes[k] # NoRow => <<"k", k>> \in LogKeys(t)
             ELSE Of(st.changes[k], base.changes[k].owner)
  <2>1. st.changes[k] = IF k \in DOMAIN t.staged.changes
                        THEN t.staged.changes[k] ELSE base.changes[k]
    BY SeenIs
  <2>2. k \in DOMAIN t.staged.changes =>
          /\ t.staged.changes[k] # NoRow /\ t.staged.changes[k].owner \in Mine(t, held)
          /\ IF base.changes[k] = NoRow THEN <<"k", k>> \in LogKeys(t)
             ELSE base.changes[k].owner = t.staged.changes[k].owner
    BY DEF StagedOK, StagedRows
  <2> HIDE DEF st
  <2> QED
    BY <2>1, <2>2 DEF Of
<1>3. ASSUME NEW r \in ResetId
      PROVE  IF base.resets[r] = NoRow THEN st.resets[r] # NoRow => <<"r", r>> \in LogKeys(t)
             ELSE Of(st.resets[r], base.resets[r].owner)
  <2>1. st.resets[r] = IF r \in DOMAIN t.staged.resets THEN t.staged.resets[r] ELSE base.resets[r]
    BY SeenIs
  <2>2. r \in DOMAIN t.staged.resets =>
          /\ t.staged.resets[r] # NoRow /\ t.staged.resets[r].owner \in Mine(t, held)
          /\ IF base.resets[r] = NoRow THEN <<"r", r>> \in LogKeys(t)
             ELSE base.resets[r].owner = t.staged.resets[r].owner
    BY DEF StagedOK, StagedRows
  <2> HIDE DEF st
  <2> QED
    BY <2>1, <2>2 DEF Of
<1> QED
  BY <1>1, <1>2, <1>3 DEF Adds

\* A key is of an account, of a pending change or of a reset.
LEMMA KeyKinds ==
  ASSUME NEW req \in Requests, NEW key \in Keys(req)
  PROVE  \/ \E c \in Customer : key = <<"c", c>>
         \/ \E k \in ChangeId : key = <<"k", k>>
         \/ \E r \in ResetId : key = <<"r", r>>
BY RequestFields DEF Keys

\* A key that becomes taken when a transaction commits is one it has drawn.
LEMMA TakenByItsKey ==
  ASSUME NEW base, NEW st, NEW t, Adds(base, st, t),
         NEW req \in Requests, NEW key \in Keys(req), TakenIn(st, key)
  PROVE  TakenIn(base, key) \/ key \in LogKeys(t)
<1>1. ASSUME NEW c \in Customer, key = <<"c", c>>
      PROVE  TakenIn(base, key) \/ key \in LogKeys(t)
  <2>1. st.email[c] # NoAddress
    BY <1>1 DEF TakenIn
  <2>2. base.email[c] # NoAddress \/ <<"c", c>> \in LogKeys(t)
    BY <2>1 DEF Adds
  <2> QED
    BY <1>1, <2>2 DEF TakenIn
<1>2. ASSUME NEW k \in ChangeId, key = <<"k", k>>
      PROVE  TakenIn(base, key) \/ key \in LogKeys(t)
  <2>1. st.changes[k] # NoRow
    BY <1>2 DEF TakenIn
  <2>2. base.changes[k] # NoRow \/ <<"k", k>> \in LogKeys(t)
    BY <2>1 DEF Adds
  <2> QED
    BY <1>2, <2>2 DEF TakenIn
<1>3. ASSUME NEW r \in ResetId, key = <<"r", r>>
      PROVE  TakenIn(base, key) \/ key \in LogKeys(t)
  <2>1. st.resets[r] # NoRow
    BY <1>3 DEF TakenIn
  <2>2. base.resets[r] # NoRow \/ <<"r", r>> \in LogKeys(t)
    BY <2>1 DEF Adds
  <2> QED
    BY <1>3, <2>2 DEF TakenIn
<1>4. \/ \E c \in Customer : key = <<"c", c>>
      \/ \E k \in ChangeId : key = <<"k", k>>
      \/ \E r \in ResetId : key = <<"r", r>>
  BY KeyKinds
<1> QED
  BY <1>1, <1>2, <1>3, <1>4

-----------------------------------------------------------------------------
(* Another transaction commits.                                            *)

\* What the commit of another leaves to t: its own customers as they were, every
\* account an account, no entry and no key of its own in somebody else's hands.
Beside(base, new, t, held) ==
  /\ Mine(t, held) \subseteq Customer
  /\ \A c \in Mine(t, held) : SameFor(new, base, c)
  /\ \A c \in Customer :
       /\ base.email[c] # NoAddress => new.email[c] # NoAddress
       /\ \/ new.reference[c] \in {base.reference[c], NoReference}
          \/ <<"external_id", new.reference[c]>> \notin t.entries
  /\ EntriesOK(new, t, held)
  /\ \A key \in LogKeys(t) : ~TakenIn(new, key)

\* Two runs of one log, from base and from new: on the customers of the transaction
\* they agree, elsewhere each has what it began with.
Along(a, b, base, new, t, held) ==
  /\ a \in Tables /\ Proved!Sound(a) /\ b \in Tables /\ Proved!Sound(b)
  /\ \A c \in Customer :
       IF c \in Mine(t, held) THEN SameFor(b, a, c)
       ELSE SameFor(b, new, c) /\ SameFor(a, base, c)

\* A key of the log that is free in the one is free in the other.
LEMMA KeysAlong ==
  ASSUME NEW base \in Tables, NEW new \in Tables, NEW t, NEW held, Beside(base, new, t, held),
         NEW a, NEW b, Along(a, b, base, new, t, held),
         NEW req \in Requests, Keys(req) \subseteq LogKeys(t), NewKeys(a, req)
  PROVE  NewKeys(b, req)
<1>0. a \in Tables /\ b \in Tables
  BY DEF Along
<1> SUFFICES ASSUME NEW key \in Keys(req)
             PROVE  ~TakenIn(b, key)
  BY DEF NewKeys
<1>1. ~TakenIn(a, key) /\ ~TakenIn(new, key) /\ key \in LogKeys(t)
  BY DEF NewKeys, Beside
<1>2. CASE \E c \in Customer : key = <<"c", c>>
  <2>1. PICK c \in Customer : key = <<"c", c>>
    BY <1>2
  <2>2. c \in Mine(t, held)
    BY <1>1, <2>1 DEF Mine
  <2>3. b.email[c] = a.email[c]
    BY <2>2 DEF Along, SameFor
  <2> QED
    BY <1>1, <2>1, <2>3 DEF TakenIn
<1>3. CASE \E k \in ChangeId : key = <<"k", k>>
  <2>1. PICK k \in ChangeId : key = <<"k", k>>
    BY <1>3
  <2>2. a.changes[k] = NoRow /\ new.changes[k] = NoRow
    BY <1>1, <2>1 DEF TakenIn
  <2>3. b.changes[k] = NoRow
    <3> SUFFICES ASSUME b.changes[k] # NoRow
                 PROVE  FALSE
      OBVIOUS
    <3>1. PICK c \in Customer : Of(b.changes[k], c)
      BY <1>0, TokenTables DEF Of
    <3>2. SameRows(b.changes, a.changes, c) \/ SameRows(b.changes, new.changes, c)
      BY DEF Along, SameFor
    <3>3. k \in DOMAIN b.changes
      BY <1>0, TokenTables
    <3> QED
      BY <2>2, <3>1, <3>2, <3>3 DEF SameRows, Of
  <2> QED
    BY <2>1, <2>3 DEF TakenIn
<1>4. CASE \E r \in ResetId : key = <<"r", r>>
  <2>1. PICK r \in ResetId : key = <<"r", r>>
    BY <1>4
  <2>2. a.resets[r] = NoRow /\ new.resets[r] = NoRow
    BY <1>1, <2>1 DEF TakenIn
  <2>3. b.resets[r] = NoRow
    <3> SUFFICES ASSUME b.resets[r] # NoRow
                 PROVE  FALSE
      OBVIOUS
    <3>1. PICK c \in Customer : Of(b.resets[r], c)
      BY <1>0, TokenTables DEF Of
    <3>2. SameRows(b.resets, a.resets, c) \/ SameRows(b.resets, new.resets, c)
      BY DEF Along, SameFor
    <3>3. r \in DOMAIN b.resets
      BY <1>0, TokenTables
    <3> QED
      BY <2>2, <3>1, <3>2, <3>3 DEF SameRows, Of
  <2> QED
    BY <2>1, <2>3 DEF TakenIn
<1>5. \/ \E c \in Customer : key = <<"c", c>>
      \/ \E k \in ChangeId : key = <<"k", k>>
      \/ \E r \in ResetId : key = <<"r", r>>
  BY KeyKinds
<1> QED
  BY <1>2, <1>3, <1>4, <1>5

\* An entry that the transaction has made is free in the one as it is in the other.
LEMMA FreeAlong ==
  ASSUME NEW base \in Tables, NEW new \in Tables, NEW t, NEW held, Beside(base, new, t, held),
         NEW a, NEW b, Along(a, b, base, new, t, held),
         NEW req \in Requests, Free(a, req), Enters(a, req) \subseteq t.entries,
         req.door = "confirm_email_change" => TokenOf(b, req) = TokenOf(a, req)
  PROVE  Free(b, req)
<1>1. ASSUME NEW d \in Customer, NEW e, <<"email", Fold(e)>> \in t.entries,
             SameAddress(b.email[d], e), b.email[d] # NoAddress
      PROVE  b.email[d] = a.email[d]
  <2>1. CASE d \in Mine(t, held)
    BY <2>1 DEF Along, SameFor
  <2>2. CASE d \notin Mine(t, held)
    <3>1. b.email[d] = new.email[d]
      BY <2>2 DEF Along, SameFor
    <3>2. <<"email", Fold(new.email[d])>> \in t.entries
      BY <1>1, <3>1 DEF SameAddress
    <3> QED
      BY <1>1, <2>2, <3>1, <3>2 DEF Beside, EntriesOK
  <2> QED
    BY <2>1, <2>2
<1>2. ASSUME NEW e, <<"email", Fold(e)>> \in t.entries
      PROVE  Holders(b.email, e) \subseteq Holders(a.email, e)
  <2>1. DOMAIN a.email = Customer /\ DOMAIN b.email = Customer
    BY DEF Along, Tables
  <2> QED
    BY <2>1, <1>1, <1>2 DEF Holders
<1>3. CASE req.door = "create_account"
  <2>1. <<"email", Fold(req.a)>> \in t.entries
    BY <1>3 DEF Enters
  <2>2. Holders(b.email, req.a) = {}
    BY <1>2, <1>3, <2>1 DEF Free
  <2>3. ASSUME req.ref # NoReference, NEW d \in Customer
        PROVE  b.reference[d] # req.ref
    <3>1. a.reference[d] # req.ref
      BY <1>3, <2>3 DEF Free
    <3>2. <<"external_id", req.ref>> \in t.entries
      BY <1>3, <2>3 DEF Enters
    <3>3. CASE d \in Mine(t, held)
      BY <3>1, <3>3 DEF Along, SameFor
    <3>4. CASE d \notin Mine(t, held)
      <4>1. b.reference[d] = new.reference[d] /\ a.reference[d] = base.reference[d]
        BY <3>4 DEF Along, SameFor
      <4> QED
        BY <2>3, <3>1, <3>2, <4>1 DEF Beside
    <3> QED
      BY <3>3, <3>4
  <2> QED
    BY <1>3, <2>2, <2>3 DEF Free
<1>4. CASE req.door = "confirm_email_change"
  <2>1. <<"email", Fold(TokenOf(a, req).to)>> \in t.entries
    BY <1>4 DEF Enters
  <2>2. Holders(a.email, TokenOf(a, req).to) \subseteq {TokenOf(a, req).owner}
    BY <1>4 DEF Free
  <2>3. Holders(b.email, TokenOf(a, req).to) \subseteq {TokenOf(a, req).owner}
    BY <1>2, <2>1, <2>2
  <2> QED
    BY <1>4, <2>3 DEF Free
<1>5. CASE req.door \notin {"create_account", "confirm_email_change"}
  BY <1>5 DEF Free
<1> QED
  BY <1>3, <1>4, <1>5

\* A door of the log, taken in the one, is taken in the other, and the runs go on.
LEMMA DoorAlong ==
  ASSUME NEW base \in Tables, NEW new \in Tables, NEW t, NEW held, Beside(base, new, t, held),
         NEW a, NEW b, Along(a, b, base, new, t, held),
         NEW req \in Requests, TookAt(a, req, t, held), Keys(req) \subseteq LogKeys(t)
  PROVE  TookAt(b, req, t, held) /\ Along(Effect(a, req), Effect(b, req), base, new, t, held)
<1> DEFINE x == Effect(a, req)
           y == Effect(b, req)
<1>0. a \in Tables /\ b \in Tables /\ Proved!Sound(a) /\ Proved!Sound(b)
  BY DEF Along
<1>1. Accepts(a, req) /\ NewKeys(a, req) /\ Enters(a, req) \subseteq t.entries
  BY DEF TookAt
<1>2. NewKeys(b, req)
  BY <1>1, KeysAlong
<1>3. PICK c \in Customer : c \in Owner(a, req)
  BY <1>0, <1>1, OwnerIs DEF Accepts
<1>4. CASE c \in Mine(t, held)
  <2>1. SameFor(a, b, c)
    <3>1. SameFor(b, a, c)
      BY <1>4 DEF Along
    <3> QED
      BY <1>0, <3>1, SameForIsEquivalence
  <2>2. Owner(b, req) = Owner(a, req) /\ Admits(b, req) /\ Enters(b, req) = Enters(a, req)
    BY <1>0, <1>1, <1>3, <2>1, OwnerIsTheSame DEF Accepts
  <2>3. req.door = "confirm_email_change" => TokenOf(b, req) = TokenOf(a, req)
    <3> SUFFICES ASSUME req.door = "confirm_email_change"
                 PROVE  b.changes[req.k] = a.changes[req.k]
      BY DEF TokenOf
    <3>1. req.k \in ChangeId /\ Of(a.changes[req.k], c)
      BY <1>0, <1>3, RequestFields, OwnerIs DEF Of
    <3> QED
      BY <3>1, <2>1, <1>0, TokenTables DEF SameFor, SameRows
  <2>4. Accepts(b, req)
    <3>1. Free(b, req)
      BY <1>1, <2>3, FreeAlong DEF Accepts
    <3> QED
      BY <1>1, <2>2, <3>1 DEF Accepts
  <2>5. TookAt(b, req, t, held)
    BY <1>1, <1>2, <2>2, <2>4 DEF TookAt
  <2>6. x \in Tables /\ y \in Tables /\ Proved!Sound(x) /\ Proved!Sound(y)
    BY <1>0, <1>1, <1>2, <2>4, DoorKeepsPromises
  <2>7. ASSUME NEW d \in Customer
        PROVE  IF d \in Mine(t, held) THEN SameFor(y, x, d)
               ELSE SameFor(y, new, d) /\ SameFor(x, base, d)
    <3>1. CASE d = c
      <4>1. SameFor(x, y, c)
        BY <1>0, <1>1, <1>2, <1>3, <2>1, DoorIsTheSame
      <4> QED
        BY <1>4, <2>6, <3>1, <4>1, SameForIsEquivalence
    <3>2. CASE d # c
      <4>1. d \notin Owner(a, req) /\ d \notin Owner(b, req)
        BY <1>0, <1>3, <2>2, <3>2, OwnerIs
      <4>2. SameFor(x, a, d) /\ SameFor(y, b, d)
        BY <1>0, <1>1, <1>2, <2>4, <4>1, DoorIsLocal
      <4> HIDE DEF x, y
      <4>3. CASE d \in Mine(t, held)
        <5>1. SameFor(b, a, d) /\ SameFor(a, x, d)
          BY <1>0, <2>6, <4>2, <4>3, SameForIsEquivalence DEF Along
        <5>2. SameFor(y, a, d)
          BY <1>0, <2>6, <4>2, <5>1, SameForIsEquivalence
        <5> QED
          BY <1>0, <2>6, <4>3, <5>1, <5>2, SameForIsEquivalence
      <4>4. CASE d \notin Mine(t, held)
        <5>1. SameFor(b, new, d) /\ SameFor(a, base, d)
          BY <4>4 DEF Along
        <5>2. SameFor(y, new, d)
          BY <1>0, <2>6, <4>2, <5>1, SameForIsEquivalence
        <5>3. SameFor(x, base, d)
          BY <1>0, <2>6, <4>2, <5>1, SameForIsEquivalence
        <5> QED
          BY <4>4, <5>2, <5>3
      <4> QED
        BY <4>3, <4>4
    <3> QED
      BY <3>1, <3>2
  <2>8. Along(x, y, base, new, t, held)
    <3> HIDE DEF x, y
    <3> QED
      BY <2>6, <2>7 DEF Along
  <2> QED
    BY <2>5, <2>8
<1>5. CASE c \notin Mine(t, held)
  <2>1. req.door = "record_acceptance"
    BY <1>3, <1>5 DEF TookAt
  <2>2. c = req.c /\ a.email[c] # NoAddress
    BY <1>0, <1>3, <2>1, RequestFields, OwnerIs
  <2>3. b.email[c] # NoAddress
    <3>1. b.email[c] = new.email[c] /\ a.email[c] = base.email[c]
      BY <1>5 DEF Along, SameFor
    <3> QED
      BY <2>2, <3>1 DEF Beside
  <2>4. Owner(b, req) # {}
    BY <1>3, <2>1, <2>2, <2>3, RequestFields DEF Owner
  <2>5. Accepts(b, req) /\ Enters(b, req) = {}
    BY <2>1, <2>4 DEF Accepts, Admits, Free, Enters
  <2>6. TookAt(b, req, t, held)
    BY <1>2, <2>1, <2>5 DEF TookAt
  <2>7. x = a /\ y = b
    BY <2>1, AcceptanceDoes
  <2> QED
    BY <2>6, <2>7
<1> QED
  BY <1>4, <1>5

\* So the whole log is.
LEMMA RunAlong ==
  ASSUME NEW base \in Tables, NEW new \in Tables, Proved!Sound(base), Proved!Sound(new),
         NEW t, NEW held, Beside(base, new, t, held), t.log \in Seq(Requests),
         \A i \in 1..Len(t.log) : TookAt(After(base, t.log)[i - 1], t.log[i], t, held)
  PROVE  /\ \A i \in 1..Len(t.log) : TookAt(After(new, t.log)[i - 1], t.log[i], t, held)
         /\ Along(Replay(base, t.log), Replay(new, t.log), base, new, t, held)
<1> DEFINE run == After(base, t.log)
           other == After(new, t.log)
           bad == {i \in 0..Len(t.log) : ~Along(run[i], other[i], base, new, t, held)}
<1>0. Len(t.log) \in Nat /\ \A i \in 1..Len(t.log) : t.log[i] \in Requests
  OBVIOUS
<1>1. \A i \in 1..Len(t.log) : Keys(t.log[i]) \subseteq LogKeys(t)
  BY DEF LogKeys
<1>2. /\ run[0] = base /\ other[0] = new
      /\ \A i \in 1..Len(t.log) : /\ run[i] = Effect(run[i - 1], t.log[i])
                                 /\ other[i] = Effect(other[i - 1], t.log[i])
  BY AfterIsTheRun
<1>3. \A i \in 1..Len(t.log) : TookAt(run[i - 1], t.log[i], t, held)
  OBVIOUS
<1> HIDE DEF run, other
<1>4. ASSUME NEW i \in 1..Len(t.log), Along(run[i - 1], other[i - 1], base, new, t, held)
      PROVE  /\ TookAt(other[i - 1], t.log[i], t, held)
             /\ Along(run[i], other[i], base, new, t, held)
  <2>1. t.log[i] \in Requests /\ Keys(t.log[i]) \subseteq LogKeys(t)
    BY <1>0, <1>1
  <2>2. TookAt(run[i - 1], t.log[i], t, held)
    BY <1>3
  <2>3. /\ TookAt(other[i - 1], t.log[i], t, held)
        /\ Along(Effect(run[i - 1], t.log[i]), Effect(other[i - 1], t.log[i]), base, new, t, held)
    BY <1>4, <2>1, <2>2, DoorAlong
  <2> QED
    BY <1>2, <2>3
<1>5. bad = {}
  <2> SUFFICES ASSUME bad # {}
               PROVE  FALSE
    OBVIOUS
  <2>1. PICK m \in bad : \A n \in bad : m <= n
    <3>1. bad \in SUBSET Nat
      OBVIOUS
    <3> HIDE DEF bad
    <3> QED
      BY <3>1, LeastMember
  <2>2. m # 0
    <3>1. Along(base, new, base, new, t, held)
      BY SameForIsEquivalence DEF Along, Beside
    <3> QED
      BY <2>1, <3>1, <1>2
  <2>3. m \in 1..Len(t.log) /\ m - 1 \in 0..Len(t.log) /\ m - 1 \notin bad
    BY <2>1, <2>2, <1>0
  <2>4. Along(run[m - 1], other[m - 1], base, new, t, held)
    BY <2>3
  <2> QED
    BY <2>1, <2>3, <2>4, <1>4
<1>6. \A i \in 0..Len(t.log) : Along(run[i], other[i], base, new, t, held)
  BY <1>5
<1>7. Along(run[Len(t.log)], other[Len(t.log)], base, new, t, held)
  BY <1>0, <1>6
<1>8. \A i \in 1..Len(t.log) : TookAt(other[i - 1], t.log[i], t, held)
  <2>1. \A i \in 1..Len(t.log) : i - 1 \in 0..Len(t.log)
    BY <1>0
  <2> QED
    BY <1>4, <1>6, <2>1
<1> QED
  BY <1>7, <1>8 DEF run, other, Replay

\* What a transaction sees keeps every promise.
LEMMA SeenIsSound ==
  ASSUME NEW base \in Tables, Proved!Sound(base), NEW t, NEW held, RunOK(base, t, held)
  PROVE  Seen(base, t) \in Tables /\ Proved!Sound(Seen(base, t))
<1>1. /\ t.log \in Seq(Requests) /\ Len(t.log) \in 0..Len(t.log)
      /\ \A i \in 1..Len(t.log) : /\ Accepts(After(base, t.log)[i - 1], t.log[i])
                                 /\ NewKeys(After(base, t.log)[i - 1], t.log[i])
  BY DEF RunOK, TookAt
<1>2. Replay(base, t.log) \in Tables /\ Proved!Sound(Replay(base, t.log))
  BY <1>1, RunKeepsPromises DEF Replay
<1>3. Seen(base, t) = Replay(base, t.log)
  BY DEF RunOK
<1> QED
  BY <1>2, <1>3

\* A key of the transaction's, and what it stands for.
LEMMA OwnKeys ==
  ASSUME NEW t, t.log \in Seq(Requests), t.req \in Requests \cup {NoRequest},
         NEW key \in LogKeys(t) \cup DoorKeys(t)
  PROVE  \E req \in Requests : key \in Keys(req)
<1>1. \A i \in 1..Len(t.log) : t.log[i] \in Requests
  OBVIOUS
<1> QED
  BY <1>1 DEF LogKeys, DoorKeys

\* A token row staged over its table stays so when another transaction commits.
LEMMA RowsStay ==
  ASSUME NEW t, NEW held, NEW u, (LogKeys(t) \cap LogKeys(u)) = {},
         NEW old, NEW new, DOMAIN new = DOMAIN old, NEW rows, NEW kind,
         StagedRows(old, rows, kind, t, held),
         \A c \in Mine(t, held) : SameRows(new, old, c),
         \A x \in DOMAIN old : old[x] = NoRow /\ new[x] # NoRow => <<kind, x>> \in LogKeys(u)
  PROVE  StagedRows(new, rows, kind, t, held)
<1> SUFFICES ASSUME NEW x \in DOMAIN rows
             PROVE  /\ x \in DOMAIN new /\ rows[x] # NoRow /\ rows[x].owner \in Mine(t, held)
                    /\ IF new[x] = NoRow THEN <<kind, x>> \in LogKeys(t)
                       ELSE new[x].owner = rows[x].owner
  BY DEF StagedRows
<1>1. /\ x \in DOMAIN old /\ rows[x] # NoRow /\ rows[x].owner \in Mine(t, held)
      /\ IF old[x] = NoRow THEN <<kind, x>> \in LogKeys(t) ELSE old[x].owner = rows[x].owner
  BY DEF StagedRows
<1>2. new[x] = old[x]
  <2>1. CASE old[x] = NoRow
    BY <1>1, <2>1
  <2>2. CASE old[x] # NoRow
    <3>1. SameRows(new, old, rows[x].owner) /\ Of(old[x], rows[x].owner)
      BY <1>1, <2>2 DEF Of
    <3> QED
      BY <3>1, <1>1 DEF SameRows
  <2> QED
    BY <2>1, <2>2
<1> QED
  BY <1>1, <1>2

\* What is staged stays so.
LEMMA StagedStays ==
  ASSUME NEW base \in Tables, NEW new \in Tables, NEW t, NEW held, NEW u,
         StagedOK(base, t, held), (LogKeys(t) \cap LogKeys(u)) = {}, Adds(base, new, u),
         \A c \in Mine(t, held) : SameFor(new, base, c)
  PROVE  StagedOK(new, t, held)
<1>1. \A c \in DOMAIN t.staged.email :
        /\ c \in Mine(t, held) /\ t.staged.email[c] # NoAddress
        /\ new.email[c] = NoAddress => <<"c", c>> \in LogKeys(t)
        /\ \/ t.staged.email[c] = new.email[c]
           \/ <<"email", Fold(t.staged.email[c])>> \in t.entries
  BY DEF StagedOK, SameFor
<1>2. \A c \in DOMAIN t.staged.reference :
        /\ c \in Mine(t, held)
        /\ \/ t.staged.reference[c] \in {new.reference[c], NoReference}
           \/ <<"external_id", t.staged.reference[c]>> \in t.entries
  BY DEF StagedOK, SameFor
<1>3. StagedRows(new.changes, t.staged.changes, "k", t, held)
  <2>1. /\ StagedRows(base.changes, t.staged.changes, "k", t, held)
        /\ \A c \in Mine(t, held) : SameRows(new.changes, base.changes, c)
        /\ DOMAIN new.changes = ChangeId /\ DOMAIN base.changes = ChangeId
        /\ \A k \in ChangeId : base.changes[k] = NoRow /\ new.changes[k] # NoRow =>
             <<"k", k>> \in LogKeys(u)
    BY TokenTables DEF StagedOK, SameFor, Adds
  <2> QED
    BY <2>1, RowsStay
<1>4. StagedRows(new.resets, t.staged.resets, "r", t, held)
  <2>1. /\ StagedRows(base.resets, t.staged.resets, "r", t, held)
        /\ \A c \in Mine(t, held) : SameRows(new.resets, base.resets, c)
        /\ DOMAIN new.resets = ResetId /\ DOMAIN base.resets = ResetId
        /\ \A r \in ResetId : base.resets[r] = NoRow /\ new.resets[r] # NoRow =>
             <<"r", r>> \in LogKeys(u)
    BY TokenTables DEF StagedOK, SameFor, Adds
  <2> QED
    BY <2>1, RowsStay
<1> QED
  BY <1>1, <1>2, <1>3, <1>4 DEF StagedOK

\* What the transaction sees of its own customers stays as it was; of the others it
\* sees what is committed.
SeesAlike(base, new, t, held) ==
  /\ Seen(new, t) \in Tables
  /\ \A c \in Customer :
       IF c \in Mine(t, held) THEN SameFor(Seen(new, t), Seen(base, t), c)
       ELSE SameFor(Seen(new, t), new, c)

\* A cell that a transaction sees is one it has staged, or the committed one.
Cells(st, base, t) ==
  /\ \A c \in Customer :
       /\ st.email[c] = IF c \in DOMAIN t.staged.email THEN t.staged.email[c] ELSE base.email[c]
       /\ st.reference[c] =
            IF c \in DOMAIN t.staged.reference THEN t.staged.reference[c] ELSE base.reference[c]
       /\ st.credential[c] =
            IF c \in DOMAIN t.staged.credential THEN t.staged.credential[c] ELSE base.credential[c]
       /\ st.history[c] =
            IF c \in DOMAIN t.staged.history THEN t.staged.history[c] ELSE base.history[c]
  /\ \A k \in ChangeId : st.changes[k] =
       IF k \in DOMAIN t.staged.changes THEN t.staged.changes[k] ELSE base.changes[k]
  /\ \A r \in ResetId : st.resets[r] =
       IF r \in DOMAIN t.staged.resets THEN t.staged.resets[r] ELSE base.resets[r]

\* Tables of six functions.
Columns(st) ==
  /\ Shaped(st) /\ st.email = [c \in Customer |-> st.email[c]]
  /\ st.reference = [c \in Customer |-> st.reference[c]]
  /\ st.credential = [c \in Customer |-> st.credential[c]]
  /\ st.history = [c \in Customer |-> st.history[c]]
  /\ st.changes = [k \in ChangeId |-> st.changes[k]]
  /\ st.resets = [r \in ResetId |-> st.resets[r]]

\* What a transaction sees, cell by cell.
LEMMA SeenCells ==
  ASSUME NEW base \in Tables, NEW t
  PROVE  Cells(Seen(base, t), base, t) /\ Columns(Seen(base, t))
<1>1. Cells(Seen(base, t), base, t)
  BY SeenIs DEF Cells
<1>2. ASSUME NEW x \in Table
      PROVE  Seen(base, t)[x] = [y \in DOMAIN Seen(base, t)[x] |-> Seen(base, t)[x][y]]
  BY DEF Seen
<1>3. Table = {"email", "reference", "credential", "changes", "resets", "history"}
  BY DEF Table
<1>4. Columns(Seen(base, t))
  BY <1>2, <1>3, SeenIs DEF Columns
<1> QED
  BY <1>1, <1>4

\* It sees nothing else.
LEMMA SeenStays ==
  ASSUME NEW base \in Tables, NEW new \in Tables, NEW t, NEW held,
         Seen(base, t) \in Tables, StagedOK(new, t, held),
         \A c \in Mine(t, held) : SameFor(new, base, c)
  PROVE  SeesAlike(base, new, t, held)
<1> DEFINE st == Seen(base, t)
           next == Seen(new, t)
<1>0. /\ st \in Tables /\ Cells(st, base, t) /\ Cells(next, new, t) /\ Columns(next)
      /\ \A c \in Customer : c \notin Mine(t, held) => SameFor(next, new, c)
  BY SeenCells, SeenElsewhere
<1> HIDE DEF st, next
<1>1. next \in Tables
  <2>1. /\ \A c \in Customer : next.email[c] \in Address \cup {NoAddress}
        /\ \A c \in Customer : next.reference[c] \in Reference \cup {NoReference}
    <3>1. /\ \A c \in Customer : next.email[c] \in {st.email[c], new.email[c]}
          /\ \A c \in Customer : next.reference[c] \in {st.reference[c], new.reference[c]}
      BY <1>0 DEF Cells
    <3>2. \A c \in Customer : /\ st.email[c] \in Address \cup {NoAddress}
                              /\ new.email[c] \in Address \cup {NoAddress}
                              /\ st.reference[c] \in Reference \cup {NoReference}
                              /\ new.reference[c] \in Reference \cup {NoReference}
      BY <1>0 DEF Tables
    <3> QED
      BY <3>1, <3>2
  <2>2. /\ \A c \in Customer : next.credential[c] \in Credential
        /\ \A c \in Customer : next.history[c] \in Seq(HistoryRow)
    <3>1. /\ \A c \in Customer : next.credential[c] \in {st.credential[c], new.credential[c]}
          /\ \A c \in Customer : next.history[c] \in {st.history[c], new.history[c]}
      BY <1>0 DEF Cells
    <3>2. \A c \in Customer : /\ st.credential[c] \in Credential /\ new.credential[c] \in Credential
                              /\ st.history[c] \in Seq(HistoryRow)
                              /\ new.history[c] \in Seq(HistoryRow)
      BY <1>0 DEF Tables
    <3> QED
      BY <3>1, <3>2
  <2>3. /\ \A k \in ChangeId : next.changes[k] \in ChangeRow \cup {NoRow}
        /\ \A r \in ResetId : next.resets[r] \in ResetRow \cup {NoRow}
    <3>1. /\ \A k \in ChangeId : next.changes[k] \in {st.changes[k], new.changes[k]}
          /\ \A r \in ResetId : next.resets[r] \in {st.resets[r], new.resets[r]}
      BY <1>0 DEF Cells
    <3>2. /\ \A k \in ChangeId : /\ st.changes[k] \in ChangeRow \cup {NoRow}
                                 /\ new.changes[k] \in ChangeRow \cup {NoRow}
          /\ \A r \in ResetId : /\ st.resets[r] \in ResetRow \cup {NoRow}
                                /\ new.resets[r] \in ResetRow \cup {NoRow}
      BY <1>0 DEF Tables
    <3> QED
      BY <3>1, <3>2
  <2>4. /\ next.email \in [Customer -> Address \cup {NoAddress}]
        /\ next.reference \in [Customer -> Reference \cup {NoReference}]
        /\ next.credential \in [Customer -> Credential]
        /\ next.history \in [Customer -> Seq(HistoryRow)]
        /\ next.changes \in [ChangeId -> ChangeRow \cup {NoRow}]
        /\ next.resets \in [ResetId -> ResetRow \cup {NoRow}]
    BY <1>0, <2>1, <2>2, <2>3 DEF Columns
  <2> QED
    BY <1>0, <2>4 DEF Columns, Shaped, Tables
<1>2. ASSUME NEW c \in Customer, c \in Mine(t, held)
      PROVE  SameFor(next, st, c)
  <2>1. /\ new.email[c] = base.email[c] /\ new.reference[c] = base.reference[c]
        /\ new.credential[c] = base.credential[c] /\ new.history[c] = base.history[c]
        /\ SameRows(new.changes, base.changes, c) /\ SameRows(new.resets, base.resets, c)
    BY <1>2 DEF SameFor
  <2>2. /\ next.email[c] = st.email[c] /\ next.reference[c] = st.reference[c]
        /\ next.credential[c] = st.credential[c] /\ next.history[c] = st.history[c]
    BY <2>1, <1>0 DEF Cells
  <2>3. SameRows(next.changes, st.changes, c)
    <3>1. DOMAIN next.changes = ChangeId /\ DOMAIN new.changes = ChangeId
      BY <1>1, TokenTables
    <3> QED
      BY <1>0, <2>1, <3>1 DEF Cells, SameRows
  <2>4. SameRows(next.resets, st.resets, c)
    <3>1. DOMAIN next.resets = ResetId /\ DOMAIN new.resets = ResetId
      BY <1>1, TokenTables
    <3> QED
      BY <1>0, <2>1, <3>1 DEF Cells, SameRows
  <2> QED
    BY <2>2, <2>3, <2>4 DEF SameFor
<1>3. ASSUME NEW c \in Customer, c \notin Mine(t, held)
      PROVE  SameFor(next, new, c)
  BY <1>0, <1>3
<1> QED
  BY <1>1, <1>2, <1>3 DEF SeesAlike, next, st

\* Transactions that are apart stay good when one of them commits.
LEMMA SessionStays ==
  ASSUME NEW base \in Tables, Proved!Sound(base), NEW t, NEW held, NEW u, NEW taken,
         SessionOK(base, t, held), SessionOK(base, u, taken), Apart(t, held, u, taken)
  PROVE  SessionOK(Seen(base, u), t, held)
<1> DEFINE new == Seen(base, u)
           st == Seen(base, t)
           next == Seen(new, t)
<1>0. /\ StagedOK(base, t, held) /\ RunOK(base, t, held) /\ KeysOK(base, t)
      /\ HeldOK(base, t, held) /\ EntriesOK(base, t, held) /\ DoorOK(base, t, held)
      /\ StagedOK(base, u, taken) /\ RunOK(base, u, taken)
  BY DEF SessionOK
<1>1. /\ new \in Tables /\ Proved!Sound(new) /\ st \in Tables
      /\ Adds(base, new, u) /\ Adds(base, st, t)
  BY <1>0, SeenIsSound, SeenAdds
<1>2. Mine(t, held) \subseteq Customer
  BY <1>0 DEF HeldOK, Mine
<1>3. \A c \in Mine(t, held) : SameFor(new, base, c)
  <2>1. \A c \in Mine(t, held) : c \in Customer /\ c \notin Mine(u, taken)
    BY <1>2 DEF Apart
  <2> QED
    BY <1>0, <2>1, SeenElsewhere
<1>4. /\ (LogKeys(t) \cap LogKeys(u)) = {} /\ t.entries \cap u.entries = {}
      /\ \A key \in LogKeys(t) \cup DoorKeys(t) : key \notin LogKeys(u)
  BY DEF Apart
<1> HIDE DEF new, st
<1>5. StagedOK(new, t, held)
  BY <1>0, <1>1, <1>3, <1>4, StagedStays
<1>6. KeysOK(new, t)
  <2>1. ASSUME NEW key \in LogKeys(t) \cup DoorKeys(t)
        PROVE  ~TakenIn(new, key)
    <3>1. PICK req \in Requests : key \in Keys(req)
      BY <1>0, OwnKeys DEF RunOK, DoorOK
    <3>2. ~TakenIn(base, key) /\ key \notin LogKeys(u)
      BY <1>0, <1>4 DEF KeysOK
    <3> QED
      BY <1>1, <3>1, <3>2, TakenByItsKey
  <2> QED
    BY <1>0, <2>1 DEF KeysOK
<1>7. HeldOK(new, t, held)
  BY <1>0, <1>1 DEF HeldOK, Adds
<1>8. EntriesOK(new, t, held)
  <2> SUFFICES ASSUME NEW c \in Customer, new.email[c] # NoAddress,
                      <<"email", Fold(new.email[c])>> \in t.entries
               PROVE  c \in Mine(t, held)
    BY DEF EntriesOK
  <2>1. new.email[c] = base.email[c]
    BY <1>1, <1>4 DEF Adds
  <2> QED
    BY <1>0, <2>1 DEF EntriesOK
<1>9. Beside(base, new, t, held)
  <2>1. \A c \in Customer :
          /\ base.email[c] # NoAddress => new.email[c] # NoAddress
          /\ \/ new.reference[c] \in {base.reference[c], NoReference}
             \/ <<"external_id", new.reference[c]>> \notin t.entries
    BY <1>1, <1>4 DEF Adds
  <2> QED
    BY <1>2, <1>3, <1>6, <1>8, <2>1 DEF Beside, KeysOK
<1>10. SeesAlike(base, new, t, held)
  BY <1>1, <1>3, <1>5, SeenStays DEF st
<1>11. /\ next \in Tables
       /\ \A c \in Customer : IF c \in Mine(t, held) THEN SameFor(next, st, c)
                              ELSE SameFor(next, new, c)
  BY <1>10 DEF SeesAlike, st
<1>12. RunOK(new, t, held)
  <2>1. /\ t.log \in Seq(Requests) /\ st = Replay(base, t.log)
        /\ \A i \in 1..Len(t.log) : TookAt(After(base, t.log)[i - 1], t.log[i], t, held)
    BY <1>0 DEF RunOK, st
  <2>2. /\ \A i \in 1..Len(t.log) : TookAt(After(new, t.log)[i - 1], t.log[i], t, held)
        /\ Along(Replay(base, t.log), Replay(new, t.log), base, new, t, held)
    BY <1>1, <1>9, <2>1, RunAlong
  <2> DEFINE end == Replay(new, t.log)
  <2>3. /\ end \in Tables
        /\ \A c \in Customer : IF c \in Mine(t, held) THEN SameFor(end, st, c)
                               ELSE SameFor(end, new, c)
    BY <2>1, <2>2 DEF Along
  <2> HIDE DEF end, next
  <2>4. ASSUME NEW c \in Customer
        PROVE  SameFor(next, end, c)
    <3>1. PICK d \in {st, new} : SameFor(next, d, c) /\ SameFor(end, d, c)
      BY <1>11, <2>3
    <3>2. d \in Tables /\ SameFor(d, end, c)
      BY <1>1, <2>3, <3>1, SameForIsEquivalence
    <3> QED
      BY <1>11, <2>3, <3>1, <3>2, SameForIsEquivalence
  <2>5. next = end
    BY <1>11, <2>3, <2>4, AllSame
  <2> QED
    BY <2>1, <2>2, <2>5 DEF RunOK, end, next
<1> HIDE DEF next
<1>13. DoorOK(new, t, held)
  <2>1. t.req \in Requests \cup {NoRequest}
    BY <1>0 DEF DoorOK
  <2>2. ASSUME NEW c \in Owner(st, t.req), c \in held, t.req # NoRequest
        PROVE  /\ Owner(next, t.req) = Owner(st, t.req)
               /\ Admits(st, t.req) => Admits(next, t.req)
    <3>1. c \in Customer /\ c \in Mine(t, held)
      BY <1>2, <2>2 DEF Mine
    <3>2. SameFor(st, next, c)
      BY <1>1, <1>11, <3>1, SameForIsEquivalence
    <3> QED
      BY <1>1, <1>11, <2>1, <2>2, <3>2, OwnerIsTheSame
  <2>3. ASSUME t.req # NoRequest, Stages(t.req.door)[1] = "lock", StageOf(t) # "lock"
        PROVE  /\ Owner(next, t.req) # {} /\ Owner(next, t.req) \subseteq held
               /\ Admits(st, t.req) => Admits(next, t.req)
    <3>1. Owner(st, t.req) # {} /\ Owner(st, t.req) \subseteq held
      BY <1>0, <2>3 DEF DoorOK, st
    <3> QED
      BY <2>2, <2>3, <3>1
  <2>4. ASSUME StageOf(t) \in {"share", "write"}
        PROVE  Owner(next, t.req) # {} /\ Admits(next, t.req)
    <3>1. t.req # NoRequest /\ t.req \in Requests
      BY <2>1, <2>4 DEF StageOf
    <3>2. Owner(st, t.req) # {} /\ Admits(st, t.req)
      BY <1>0, <2>4 DEF DoorOK, st
    <3>3. CASE Stages(t.req.door)[1] = "lock"
      BY <2>3, <2>4, <3>1, <3>2, <3>3
    <3>4. CASE Stages(t.req.door)[1] # "lock"
      <4>1. t.req.door \in {"create_account", "record_acceptance"}
        BY <3>4 DEF Stages
      <4>2. Admits(next, t.req)
        BY <4>1 DEF Admits
      <4>3. PICK c \in Customer : c \in Owner(st, t.req)
        BY <1>1, <3>1, <3>2, OwnerIs
      <4>4. st.email[c] # NoAddress => next.email[c] # NoAddress
        <5>1. CASE c \in Mine(t, held)
          BY <1>11, <5>1 DEF SameFor
        <5>2. CASE c \notin Mine(t, held)
          <6>1. next.email[c] = new.email[c]
            BY <1>11, <5>2 DEF SameFor
          <6>2. st.email[c] = base.email[c]
            BY <1>0, <5>2, SeenElsewhere DEF SameFor, st
          <6> QED
            BY <6>1, <6>2, <1>9 DEF Beside
        <5> QED
          BY <5>1, <5>2
      <4>5. c \in Owner(next, t.req)
        BY <3>1, <4>1, <4>3, <4>4, RequestFields DEF Owner
      <4> QED
        BY <4>2, <4>5
    <3> QED
      BY <3>3, <3>4
  <2> QED
    BY <2>1, <2>3, <2>4 DEF DoorOK, next
<1> QED
  BY <1>5, <1>6, <1>7, <1>8, <1>12, <1>13 DEF SessionOK, new

-----------------------------------------------------------------------------
(* One transaction moves.                                                  *)

\* Nothing written in between.
SameWork(t, next) == next.log = t.log /\ next.staged = t.staged /\ next.entries = t.entries

\* What follows from the work alone.
LEMMA WorkStays ==
  ASSUME NEW base, NEW t, NEW next, SameWork(t, next), NEW held
  PROVE  /\ Seen(base, next) = Seen(base, t) /\ LogKeys(next) = LogKeys(t)
         /\ Mine(next, held) = Mine(t, held)
         /\ StagedOK(base, t, held) => StagedOK(base, next, held)
         /\ RunOK(base, t, held) => RunOK(base, next, held)
         /\ HeldOK(base, t, held) => HeldOK(base, next, held)
         /\ EntriesOK(base, t, held) => EntriesOK(base, next, held)
<1>1. /\ Seen(base, next) = Seen(base, t) /\ LogKeys(next) = LogKeys(t)
      /\ Mine(next, held) = Mine(t, held)
  BY DEF SameWork, Seen, LogKeys, Mine
<1>2. StagedOK(base, t, held) => StagedOK(base, next, held)
  BY <1>1 DEF SameWork, StagedOK, StagedRows
<1>3. RunOK(base, t, held) => RunOK(base, next, held)
  BY <1>1 DEF SameWork, RunOK, TookAt
<1>4. /\ HeldOK(base, t, held) => HeldOK(base, next, held)
      /\ EntriesOK(base, t, held) => EntriesOK(base, next, held)
  BY <1>1 DEF SameWork, HeldOK, EntriesOK
<1> QED
  BY <1>1, <1>2, <1>3, <1>4

\* A door ends without writing, or goes on.
LEMMA DoorMoves ==
  ASSUME NEW base, NEW t, NEW next, SameWork(t, next), NEW held, SessionOK(base, t, held),
         DoorKeys(next) \subseteq DoorKeys(t), DoorOK(base, next, held)
  PROVE  /\ SessionOK(base, next, held)
         /\ \A u, taken : Apart(t, held, u, taken) => Apart(next, held, u, taken)
<1>1. KeysOK(base, next)
  BY WorkStays DEF SessionOK, KeysOK
<1>2. SessionOK(base, next, held)
  BY <1>1, WorkStays DEF SessionOK
<1>3. ASSUME NEW u, NEW taken, Apart(t, held, u, taken)
      PROVE  Apart(next, held, u, taken)
  <2>1. LogKeys(next) = LogKeys(t) /\ Mine(next, held) = Mine(t, held) /\ next.entries = t.entries
    BY WorkStays DEF SameWork
  <2> QED
    BY <1>3, <2>1 DEF Apart
<1> QED
  BY <1>2, <1>3

\* A door begins, with a key of its own.
LEMMA DoorBegins ==
  ASSUME NEW base, NEW t, NEW next, SameWork(t, next), NEW held, SessionOK(base, t, held),
         NEW req \in Requests, next.req = req, next.next = 1, req # NoRequest,
         NewKeys(base, req), LogKeys(t) \cap Keys(req) = {}
  PROVE  /\ SessionOK(base, next, held)
         /\ \A u, taken : /\ Apart(t, held, u, taken)
                          /\ Keys(req) \cap (LogKeys(u) \cup DoorKeys(u)) = {}
                          => Apart(next, held, u, taken)
<1>1. DoorKeys(next) = Keys(req) /\ LogKeys(next) = LogKeys(t)
      /\ Mine(next, held) = Mine(t, held) /\ next.entries = t.entries
  BY WorkStays DEF DoorKeys, SameWork
<1>2. KeysOK(base, next)
  BY <1>1 DEF SessionOK, KeysOK, NewKeys
<1>3. DoorOK(base, next, held)
  <2>1. StageOf(next) = Stages(req.door)[1]
    BY DEF StageOf
  <2>2. Stages(req.door)[1] \in {"lock", "check"}
    BY StagesAre
  <2>3. Stages(req.door)[1] = "lock" => StageOf(next) = "lock"
    BY <2>1
  <2> QED
    BY <2>1, <2>2, <2>3 DEF DoorOK
<1>4. SessionOK(base, next, held)
  BY <1>2, <1>3, WorkStays DEF SessionOK
<1>5. ASSUME NEW u, NEW taken, Apart(t, held, u, taken),
             Keys(req) \cap (LogKeys(u) \cup DoorKeys(u)) = {}
      PROVE  Apart(next, held, u, taken)
  BY <1>1, <1>5 DEF Apart
<1> QED
  BY <1>4, <1>5

\* With more customers locked the work is as good.
LEMMA MoreLocked ==
  ASSUME NEW base, NEW t, NEW held, NEW more, held \subseteq more
  PROVE  /\ Mine(t, held) \subseteq Mine(t, more)
         /\ StagedOK(base, t, held) => StagedOK(base, t, more)
         /\ RunOK(base, t, held) => RunOK(base, t, more)
         /\ EntriesOK(base, t, held) => EntriesOK(base, t, more)
<1>1. Mine(t, held) \subseteq Mine(t, more)
  BY DEF Mine
<1>2. StagedOK(base, t, held) => StagedOK(base, t, more)
  BY <1>1 DEF StagedOK, StagedRows
<1>3. ASSUME RunOK(base, t, held)
      PROVE  RunOK(base, t, more)
  <2>1. \A st, req : TookAt(st, req, t, held) => TookAt(st, req, t, more)
    BY <1>1 DEF TookAt
  <2> QED
    BY <1>3, <2>1 DEF RunOK
<1>4. EntriesOK(base, t, held) => EntriesOK(base, t, more)
  BY <1>1 DEF EntriesOK
<1> QED
  BY <1>1, <1>2, <1>3, <1>4

\* A customer's row is locked that nobody else holds: it becomes the transaction's.
LEMMA LockMoves ==
  ASSUME NEW base \in Tables, Proved!Sound(base), NEW t, NEW held, SessionOK(base, t, held),
         t.req \in Requests, t.req # NoRequest, StageOf(t) = "lock",
         t.next \in 1..Len(Stages(t.req.door)),
         NEW c \in Owner(Seen(base, t), t.req),
         NEW next, SameWork(t, next), next.req = t.req, next.next = t.next + 1
  PROVE  /\ SessionOK(base, next, held \cup {c})
         /\ \A u, taken : /\ SessionOK(base, u, taken) /\ Apart(t, held, u, taken) /\ c \notin taken
                          => Apart(next, held \cup {c}, u, taken)
<1> DEFINE more == held \cup {c}
           st == Seen(base, t)
<1>0. st \in Tables /\ Adds(base, st, t)
  BY SeenIsSound, SeenAdds DEF SessionOK
<1>1. Stages(t.req.door)[t.next] = "lock"
  BY DEF StageOf
<1>2. t.next = 1 /\ Stages(t.req.door)[1] = "lock" /\ StageOf(next) = "check"
  <2>1. t.next = 1 /\ Stages(t.req.door)[1] = "lock"
    BY <1>1, StagesAre
  <2> QED
    BY <2>1, StagesAre DEF StageOf
<1>3. /\ c \in Customer /\ st.email[c] # NoAddress /\ \A d \in Owner(st, t.req) : d = c
  <2>1. t.req.door # "create_account"
    BY <1>2 DEF Stages
  <2> QED
    BY <1>0, <2>1, OwnerIs
<1>4. base.email[c] # NoAddress \/ <<"c", c>> \in LogKeys(t)
  BY <1>0, <1>3 DEF Adds
<1> HIDE DEF st
<1>5. /\ StagedOK(base, t, more) /\ RunOK(base, t, more) /\ EntriesOK(base, t, more)
      /\ KeysOK(base, t)
  BY MoreLocked DEF SessionOK
<1>6. HeldOK(base, t, more)
  BY <1>3, <1>4 DEF SessionOK, HeldOK
<1>7. /\ StagedOK(base, next, more) /\ RunOK(base, next, more) /\ EntriesOK(base, next, more)
      /\ HeldOK(base, next, more) /\ Seen(base, next) = st /\ LogKeys(next) = LogKeys(t)
      /\ Mine(next, more) = Mine(t, more)
  BY <1>5, <1>6, WorkStays DEF st
<1>8. DoorKeys(next) = DoorKeys(t)
  BY DEF DoorKeys
<1>9. KeysOK(base, next)
  BY <1>5, <1>7, <1>8 DEF KeysOK
<1>10. DoorOK(base, next, more)
  BY <1>2, <1>3, <1>7 DEF DoorOK, st
<1>11. SessionOK(base, next, more)
  BY <1>7, <1>9, <1>10 DEF SessionOK
<1>12. ASSUME NEW u, NEW taken, SessionOK(base, u, taken), Apart(t, held, u, taken), c \notin taken
       PROVE  Apart(next, more, u, taken)
  <2>1. c \notin Mine(u, taken)
    <3> SUFFICES ASSUME <<"c", c>> \in LogKeys(u)
                 PROVE  FALSE
      BY <1>12 DEF Mine
    <3>1. ~TakenIn(base, <<"c", c>>)
      BY <1>12 DEF SessionOK, KeysOK
    <3>2. base.email[c] = NoAddress
      BY <3>1 DEF TakenIn
    <3>3. <<"c", c>> \in LogKeys(t)
      BY <1>4, <3>2
    <3> QED
      BY <1>12, <3>3 DEF Apart
  <2>2. Mine(t, more) = Mine(t, held) \cup {c}
    BY DEF Mine
  <2>3. next.entries = t.entries
    BY DEF SameWork
  <2> QED
    BY <1>7, <1>8, <1>12, <2>1, <2>2, <2>3 DEF Apart
<1> QED
  BY <1>11, <1>12

\* A transaction that has ended, or not begun.
LEMMA ClosedIsGood ==
  ASSUME NEW base \in Tables
  PROVE  /\ SessionOK(base, Closed, {})
         /\ \A u, taken : Apart(Closed, {}, u, taken) /\ Apart(u, taken, Closed, {})
<1>1. /\ Closed.log = << >> /\ Closed.entries = {} /\ Closed.req = NoRequest
      /\ LogKeys(Closed) = {} /\ DoorKeys(Closed) = {} /\ Mine(Closed, {}) = {}
  BY DEF Closed, LogKeys, DoorKeys, Mine
<1>2. \A x \in Table : DOMAIN Closed.staged[x] = {}
  BY DEF Closed, NoRows
<1>3. Table = {"email", "reference", "credential", "changes", "resets", "history"}
  BY DEF Table
<1>4. StagedOK(base, Closed, {})
  BY <1>2, <1>3 DEF StagedOK, StagedRows
<1>5. Seen(base, Closed) = base
  <2>1. Cells(Seen(base, Closed), base, Closed) /\ Columns(Seen(base, Closed))
    BY SeenCells
  <2>2. \A x \in Table : \A y : y \notin DOMAIN Closed.staged[x]
    BY <1>2
  <2> DEFINE st == Seen(base, Closed)
  <2> HIDE DEF st
  <2>3. /\ \A c \in Customer : /\ st.email[c] = base.email[c] /\ st.reference[c] = base.reference[c]
                              /\ st.credential[c] = base.credential[c]
                              /\ st.history[c] = base.history[c]
        /\ \A k \in ChangeId : st.changes[k] = base.changes[k]
        /\ \A r \in ResetId : st.resets[r] = base.resets[r]
    BY <2>1, <2>2, <1>3 DEF Cells, st
  <2>4. /\ st.email = base.email /\ st.reference = base.reference
        /\ st.credential = base.credential /\ st.history = base.history
        /\ st.changes = base.changes /\ st.resets = base.resets
    BY <2>1, <2>3 DEF Columns, Tables, st
  <2>5. st = base
    BY <2>1, <2>4, TablesApart DEF Columns, Shaped, st
  <2> QED
    BY <2>5 DEF st
<1>6. RunOK(base, Closed, {})
  <2>1. << >> \in Seq(Requests) /\ Len(<< >>) = 0
    OBVIOUS
  <2>2. Replay(base, << >>) = base
    BY <2>1, AfterIsTheRun DEF Replay
  <2> QED
    BY <1>1, <1>5, <2>1, <2>2 DEF RunOK
<1>7. KeysOK(base, Closed) /\ HeldOK(base, Closed, {}) /\ EntriesOK(base, Closed, {})
  BY <1>1 DEF KeysOK, HeldOK, EntriesOK
<1>8. DoorOK(base, Closed, {})
  BY <1>1 DEF DoorOK, StageOf
<1> QED
  BY <1>1, <1>4, <1>6, <1>7, <1>8 DEF SessionOK, Apart

-----------------------------------------------------------------------------
(* A door writes.                                                          *)

\* Staging, of any tables seen and any rows staged before.
StagedFor(st, staged, new) ==
  [x \in Table |->
     [y \in {z \in DOMAIN new[x] : \/ z \in DOMAIN staged[x]
                                   \/ new[x][z] # st[x][z]} |-> new[x][y]]]

\* Column by column.
LEMMA StagedCells ==
  ASSUME NEW st, NEW staged, NEW new \in Tables
  PROVE  LET got == StagedFor(st, staged, new)
         IN  /\ \A c : c \in DOMAIN got.email <=>
                  c \in Customer /\ (c \in DOMAIN staged.email \/ new.email[c] # st.email[c])
             /\ \A c \in DOMAIN got.email : got.email[c] = new.email[c]
             /\ \A c : c \in DOMAIN got.reference <=>
                  /\ c \in Customer
                  /\ c \in DOMAIN staged.reference \/ new.reference[c] # st.reference[c]
             /\ \A c \in DOMAIN got.reference : got.reference[c] = new.reference[c]
             /\ \A c : c \in DOMAIN got.credential <=>
                  /\ c \in Customer
                  /\ c \in DOMAIN staged.credential \/ new.credential[c] # st.credential[c]
             /\ \A c \in DOMAIN got.credential : got.credential[c] = new.credential[c]
             /\ \A c : c \in DOMAIN got.history <=>
                  /\ c \in Customer
                  /\ c \in DOMAIN staged.history \/ new.history[c] # st.history[c]
             /\ \A c \in DOMAIN got.history : got.history[c] = new.history[c]
             /\ \A k : k \in DOMAIN got.changes <=>
                  /\ k \in ChangeId
                  /\ k \in DOMAIN staged.changes \/ new.changes[k] # st.changes[k]
             /\ \A k \in DOMAIN got.changes : got.changes[k] = new.changes[k]
             /\ \A r : r \in DOMAIN got.resets <=>
                  /\ r \in ResetId
                  /\ r \in DOMAIN staged.resets \/ new.resets[r] # st.resets[r]
             /\ \A r \in DOMAIN got.resets : got.resets[r] = new.resets[r]
<1> DEFINE got == StagedFor(st, staged, new)
<1>1. ASSUME NEW x \in Table
      PROVE  /\ \A y : y \in DOMAIN got[x] <=>
                  /\ y \in DOMAIN new[x]
                  /\ y \in DOMAIN staged[x] \/ new[x][y] # st[x][y]
             /\ \A y \in DOMAIN got[x] : got[x][y] = new[x][y]
  BY DEF StagedFor
<1>2. Table = {"email", "reference", "credential", "changes", "resets", "history"}
  BY DEF Table
<1>3. /\ DOMAIN new.email = Customer /\ DOMAIN new.reference = Customer
      /\ DOMAIN new.credential = Customer /\ DOMAIN new.history = Customer
      /\ DOMAIN new.changes = ChangeId /\ DOMAIN new.resets = ResetId
  BY DEF Tables
<1> HIDE DEF got
<1> QED
  BY <1>1, <1>2, <1>3 DEF got

\* Once it has staged the tables as a door leaves them, it sees these.
LEMMA StagedIsSeen ==
  ASSUME NEW base \in Tables, NEW t, Seen(base, t) \in Tables, NEW new \in Tables,
         NEW next, next.staged = StagedFor(Seen(base, t), t.staged, new)
  PROVE  Seen(base, next) = new
<1> DEFINE st == Seen(base, t)
           seen == Seen(base, next)
<1>1. Cells(st, base, t) /\ Cells(seen, base, next) /\ Columns(seen)
  BY SeenCells
<1> HIDE DEF st, seen
<1>2. /\ \A c \in Customer : seen.email[c] = new.email[c]
      /\ \A c \in Customer : seen.reference[c] = new.reference[c]
  BY <1>1, StagedCells DEF Cells, st
<1>3. /\ \A c \in Customer : seen.credential[c] = new.credential[c]
      /\ \A c \in Customer : seen.history[c] = new.history[c]
  BY <1>1, StagedCells DEF Cells, st
<1>4. /\ \A k \in ChangeId : seen.changes[k] = new.changes[k]
      /\ \A r \in ResetId : seen.resets[r] = new.resets[r]
  BY <1>1, StagedCells DEF Cells, st
<1>5. /\ seen.email = new.email /\ seen.reference = new.reference
      /\ seen.credential = new.credential /\ seen.history = new.history
      /\ seen.changes = new.changes /\ seen.resets = new.resets
  BY <1>1, <1>2, <1>3, <1>4 DEF Columns, Tables
<1>6. seen = new
  BY <1>1, <1>5, TablesApart DEF Columns, Shaped
<1> QED
  BY <1>6 DEF seen

\* The run of a longer log is the run of the shorter, and one door more.
LEMMA LogGrows ==
  ASSUME NEW base, NEW log \in Seq(Requests), NEW req \in Requests
  PROVE  /\ \A i \in 0..Len(log) : After(base, Append(log, req))[i] = After(base, log)[i]
         /\ Replay(base, Append(log, req)) = Effect(Replay(base, log), req)
<1> DEFINE longer == Append(log, req)
           run == After(base, log)
           other == After(base, longer)
           bad == {i \in 0..Len(log) : other[i] # run[i]}
<1>1. /\ longer \in Seq(Requests) /\ Len(longer) = Len(log) + 1 /\ Len(log) \in Nat
      /\ longer[Len(log) + 1] = req /\ \A i \in 1..Len(log) : longer[i] = log[i]
  OBVIOUS
<1> HIDE DEF longer
<1>2. /\ run[0] = base /\ \A i \in 1..Len(log) : run[i] = Effect(run[i - 1], log[i])
      /\ other[0] = base /\ \A i \in 1..Len(longer) : other[i] = Effect(other[i - 1], longer[i])
  <2>1. run[0] = base /\ \A i \in 1..Len(log) : run[i] = Effect(run[i - 1], log[i])
    BY AfterIsTheRun
  <2>2. other[0] = base /\ \A i \in 1..Len(longer) : other[i] = Effect(other[i - 1], longer[i])
    BY <1>1, AfterIsTheRun
  <2> QED
    BY <2>1, <2>2
<1> HIDE DEF run, other
<1>3. bad = {}
  <2> SUFFICES ASSUME bad # {}
               PROVE  FALSE
    OBVIOUS
  <2>1. PICK m \in bad : \A n \in bad : m <= n
    <3>1. bad \in SUBSET Nat
      OBVIOUS
    <3> HIDE DEF bad
    <3> QED
      BY <3>1, LeastMember
  <2>2. m # 0
    BY <2>1, <1>2
  <2>3. m \in 1..Len(log) /\ m - 1 \in 0..Len(log) /\ m - 1 \notin bad /\ m \in 1..Len(longer)
    BY <2>1, <2>2, <1>1
  <2>4. other[m - 1] = run[m - 1]
    BY <2>3
  <2> QED
    BY <2>1, <2>3, <2>4, <1>1, <1>2
<1>4. \A i \in 0..Len(log) : other[i] = run[i]
  BY <1>3
<1>5. other[Len(longer)] = Effect(run[Len(log)], req)
  <2>1. Len(longer) \in 1..Len(longer) /\ Len(longer) - 1 = Len(log) /\ Len(log) \in 0..Len(log)
    BY <1>1
  <2>2. other[Len(longer)] = Effect(other[Len(log)], req)
    BY <2>1, <1>1, <1>2
  <2> QED
    BY <2>1, <2>2, <1>4
<1> QED
  BY <1>4, <1>5 DEF longer, run, other, Replay

\* A door at its writes, and the record of its transaction after them.
Writes(base, t, next) ==
  /\ t.req \in Requests /\ t.req # NoRequest /\ StageOf(t) = "write"
  /\ Free(Seen(base, t), t.req)
  /\ next.req = NoRequest /\ next.log = Append(t.log, t.req)
  /\ next.staged = StagedFor(Seen(base, t), t.staged, Effect(Seen(base, t), t.req))
  /\ next.entries = t.entries \cup Enters(Seen(base, t), t.req) \cup Frees(Seen(base, t), t.req)

\* The door is accepted, on customers that are now the transaction's own.
Wrote(base, t, held, next) ==
  LET st  == Seen(base, t)
      req == t.req
  IN  /\ st \in Tables /\ Proved!Sound(st) /\ Adds(base, st, t)
      /\ Accepts(st, req) /\ NewKeys(st, req)
      /\ Owner(st, req) \subseteq Mine(next, held) \/ req.door = "record_acceptance"
      /\ Effect(st, req) \in Tables /\ Grows(st, Effect(st, req), req)
      /\ Seen(base, next) = Effect(st, req)
      /\ LogKeys(next) = LogKeys(t) \cup Keys(req) /\ DoorKeys(next) = {}
      /\ Mine(next, held) = Mine(t, held) \cup {c \in Customer : <<"c", c>> \in Keys(req)}

\* The keys of a log with one door more.
LEMMA MoreKeys ==
  ASSUME NEW t, NEW next, NEW held, t.log \in Seq(Requests), NEW req \in Requests,
         next.log = Append(t.log, req)
  PROVE  /\ LogKeys(next) = LogKeys(t) \cup Keys(req)
         /\ Mine(next, held) = Mine(t, held) \cup {c \in Customer : <<"c", c>> \in Keys(req)}
<1>1. /\ Len(next.log) = Len(t.log) + 1 /\ Len(t.log) \in Nat /\ next.log[Len(t.log) + 1] = req
      /\ \A i \in 1..Len(t.log) : next.log[i] = t.log[i]
  OBVIOUS
<1>2. 1..Len(next.log) = 1..Len(t.log) \cup {Len(t.log) + 1}
  BY <1>1
<1>3. ASSUME NEW key
      PROVE  key \in LogKeys(next) <=> key \in LogKeys(t) \cup Keys(req)
  BY <1>1, <1>2 DEF LogKeys
<1>4. LogKeys(next) = LogKeys(t) \cup Keys(req)
  BY <1>3
<1> QED
  BY <1>4 DEF Mine

\* What it asked still holds, its key is still free, and the entries were.
LEMMA WriteIsAccepted ==
  ASSUME NEW base \in Tables, Proved!Sound(base), NEW t, NEW held, SessionOK(base, t, held),
         NEW next, Writes(base, t, next)
  PROVE  Wrote(base, t, held, next)
<1> DEFINE st == Seen(base, t)
           req == t.req
<1>1. st \in Tables /\ Proved!Sound(st) /\ Adds(base, st, t)
  BY SeenIsSound, SeenAdds DEF SessionOK
<1>2. /\ req \in Requests /\ req # NoRequest /\ StageOf(t) = "write" /\ Free(st, req)
      /\ next.req = NoRequest /\ next.log = Append(t.log, req) /\ t.log \in Seq(Requests)
      /\ next.staged = StagedFor(st, t.staged, Effect(st, req))
  BY DEF Writes, SessionOK, RunOK
<1>3. Accepts(st, req)
  BY <1>2 DEF SessionOK, DoorOK, Accepts
<1>4. NewKeys(st, req)
  <2> SUFFICES ASSUME NEW key \in Keys(req), TakenIn(st, key)
               PROVE  FALSE
    BY DEF NewKeys
  <2>1. key \in DoorKeys(t)
    BY <1>2 DEF DoorKeys
  <2>2. ~TakenIn(base, key) /\ key \notin LogKeys(t)
    BY <2>1 DEF SessionOK, KeysOK
  <2> HIDE DEF st, req
  <2> QED
    BY <1>1, <1>2, <2>2, TakenByItsKey
<1>5. /\ LogKeys(next) = LogKeys(t) \cup Keys(req) /\ DoorKeys(next) = {}
      /\ Mine(next, held) = Mine(t, held) \cup {c \in Customer : <<"c", c>> \in Keys(req)}
  BY <1>2, MoreKeys DEF DoorKeys
<1>6. Owner(st, req) \subseteq Mine(next, held) \/ req.door = "record_acceptance"
  <2>1. CASE Stages(req.door)[1] = "lock"
    BY <1>2, <2>1, <1>5 DEF SessionOK, DoorOK, Mine
  <2>2. CASE Stages(req.door)[1] # "lock"
    <3>1. req.door \in {"create_account", "record_acceptance"}
      BY <2>2 DEF Stages
    <3>2. CASE req.door = "create_account"
      <4>1. Keys(req) = {<<"c", req.c>>}
        BY <3>2 DEF Keys
      <4>2. \A c \in Owner(st, req) : c = req.c /\ c \in Customer
        BY <1>1, <1>2, <3>2, RequestFields, OwnerIs
      <4> QED
        BY <4>1, <4>2, <1>5
    <3> QED
      BY <3>1, <3>2
  <2> QED
    BY <2>1, <2>2
<1>7. Effect(st, req) \in Tables /\ Grows(st, Effect(st, req), req)
  BY <1>1, <1>2, <1>3, <1>4, DoorKeepsPromises, DoorGrows
<1>8. Seen(base, next) = Effect(st, req)
  BY <1>1, <1>2, <1>7, StagedIsSeen
<1> QED
  BY <1>1, <1>3, <1>4, <1>5, <1>6, <1>7, <1>8 DEF Wrote

\* Only its customer's rows have changed.
LEMMA ChangedAreMine ==
  ASSUME NEW base \in Tables, NEW t, NEW held, NEW next, Writes(base, t, next),
         Wrote(base, t, held, next), NEW c \in Customer,
         ~SameFor(Effect(Seen(base, t), t.req), Seen(base, t), c)
  PROVE  c \in Mine(next, held)
<1> DEFINE st == Seen(base, t)
<1>1. /\ st \in Tables /\ t.req \in Requests /\ Accepts(st, t.req) /\ NewKeys(st, t.req)
      /\ Owner(st, t.req) \subseteq Mine(next, held) \/ t.req.door = "record_acceptance"
  BY DEF Writes, Wrote
<1>2. t.req.door # "record_acceptance"
  <2> SUFFICES ASSUME t.req.door = "record_acceptance"
               PROVE  FALSE
    OBVIOUS
  <2>1. Effect(st, t.req) = st
    BY AcceptanceDoes
  <2> QED
    BY <1>1, <2>1, SameForIsEquivalence
<1>3. c \in Owner(st, t.req)
  BY <1>1, DoorIsLocal
<1> QED
  BY <1>1, <1>2, <1>3

\* A table of tokens, as the door leaves it.
LEMMA WrittenRows ==
  ASSUME NEW table, NEW seen, NEW new, NEW rows, NEW after, NEW kind, NEW t, NEW next, NEW held,
         NEW req, DOMAIN seen = DOMAIN table, DOMAIN new = DOMAIN table,
         StagedRows(table, rows, kind, t, held), TokensGrow(seen, new, kind, req),
         Mine(t, held) \subseteq Mine(next, held), LogKeys(next) = LogKeys(t) \cup Keys(req),
         \A x \in DOMAIN table : seen[x] = IF x \in DOMAIN rows THEN rows[x] ELSE table[x],
         \A x : x \in DOMAIN after <=>
           x \in DOMAIN table /\ (x \in DOMAIN rows \/ new[x] # seen[x]),
         \A x \in DOMAIN after : after[x] = new[x],
         \A x \in DOMAIN table : new[x] # NoRow /\ new[x] # seen[x] =>
           new[x].owner \in Mine(next, held)
  PROVE  StagedRows(table, after, kind, next, held)
<1> SUFFICES ASSUME NEW x \in DOMAIN after
             PROVE  /\ x \in DOMAIN table /\ new[x] # NoRow /\ new[x].owner \in Mine(next, held)
                    /\ IF table[x] = NoRow THEN <<kind, x>> \in LogKeys(next)
                       ELSE table[x].owner = new[x].owner
  BY DEF StagedRows
<1>1. x \in DOMAIN table /\ (x \in DOMAIN rows \/ new[x] # seen[x])
  OBVIOUS
<1>2. x \in DOMAIN rows =>
        /\ seen[x] = rows[x] /\ rows[x] # NoRow /\ rows[x].owner \in Mine(t, held)
        /\ IF table[x] = NoRow THEN <<kind, x>> \in LogKeys(t) ELSE table[x].owner = rows[x].owner
  BY <1>1 DEF StagedRows
<1>3. x \notin DOMAIN rows => seen[x] = table[x]
  BY <1>1
<1>4. IF seen[x] = NoRow THEN new[x] # NoRow => <<kind, x>> \in Keys(req)
      ELSE new[x] # NoRow /\ new[x].owner = seen[x].owner
  BY <1>1 DEF TokensGrow, Of
<1>5. new[x] # NoRow
  BY <1>1, <1>2, <1>4
<1>6. new[x].owner \in Mine(next, held)
  BY <1>1, <1>2, <1>4, <1>5
<1>7. IF table[x] = NoRow THEN <<kind, x>> \in LogKeys(next) ELSE table[x].owner = new[x].owner
  BY <1>2, <1>3, <1>4, <1>5
<1> QED
  BY <1>1, <1>5, <1>6, <1>7

\* What the transaction has staged is still its own.
LEMMA WrittenStaged ==
  ASSUME NEW base \in Tables, NEW t, NEW held, SessionOK(base, t, held),
         NEW next, Writes(base, t, next), Wrote(base, t, held, next)
  PROVE  StagedOK(base, next, held)
<1> DEFINE st == Seen(base, t)
           req == t.req
           new == Effect(st, req)
<1>1. /\ st \in Tables /\ new \in Tables /\ Grows(st, new, req) /\ Cells(st, base, t)
      /\ LogKeys(next) = LogKeys(t) \cup Keys(req) /\ Mine(t, held) \subseteq Mine(next, held)
      /\ next.staged = StagedFor(st, t.staged, new)
      /\ next.entries = t.entries \cup Enters(st, req) \cup Frees(st, req)
  BY SeenCells DEF Wrote, Writes
<1>2. \A c \in Customer : ~SameFor(new, st, c) => c \in Mine(next, held)
  BY ChangedAreMine
<1>3. StagedOK(base, t, held)
  BY DEF SessionOK
<1> HIDE DEF st, new
<1> DEFINE got == next.staged
<1>4. /\ \A c : c \in DOMAIN got.email <=>
           c \in Customer /\ (c \in DOMAIN t.staged.email \/ new.email[c] # st.email[c])
      /\ \A c \in DOMAIN got.email : got.email[c] = new.email[c]
      /\ \A c : c \in DOMAIN got.reference <=>
           c \in Customer /\ (c \in DOMAIN t.staged.reference \/ new.reference[c] # st.reference[c])
      /\ \A c \in DOMAIN got.reference : got.reference[c] = new.reference[c]
      /\ \A c : c \in DOMAIN got.credential <=>
           /\ c \in Customer
           /\ c \in DOMAIN t.staged.credential \/ new.credential[c] # st.credential[c]
      /\ \A c : c \in DOMAIN got.history <=>
           c \in Customer /\ (c \in DOMAIN t.staged.history \/ new.history[c] # st.history[c])
      /\ \A k : k \in DOMAIN got.changes <=>
           k \in ChangeId /\ (k \in DOMAIN t.staged.changes \/ new.changes[k] # st.changes[k])
      /\ \A k \in DOMAIN got.changes : got.changes[k] = new.changes[k]
      /\ \A r : r \in DOMAIN got.resets <=>
           r \in ResetId /\ (r \in DOMAIN t.staged.resets \/ new.resets[r] # st.resets[r])
      /\ \A r \in DOMAIN got.resets : got.resets[r] = new.resets[r]
  BY <1>1, StagedCells
<1> HIDE DEF got
<1>5. ASSUME NEW c \in DOMAIN got.email
      PROVE  /\ c \in Mine(next, held) /\ got.email[c] # NoAddress
             /\ base.email[c] = NoAddress => <<"c", c>> \in LogKeys(next)
             /\ \/ got.email[c] = base.email[c]
                \/ <<"email", Fold(got.email[c])>> \in next.entries
  <2>1. /\ c \in Customer /\ (c \in DOMAIN t.staged.email \/ new.email[c] # st.email[c])
        /\ got.email[c] = new.email[c]
    BY <1>4
  <2>2. st.email[c] = IF c \in DOMAIN t.staged.email THEN t.staged.email[c] ELSE base.email[c]
    BY <1>1, <2>1 DEF Cells
  <2>3. c \in DOMAIN t.staged.email =>
          /\ c \in Mine(t, held) /\ st.email[c] # NoAddress
          /\ base.email[c] = NoAddress => <<"c", c>> \in LogKeys(t)
          /\ st.email[c] = base.email[c] \/ <<"email", Fold(st.email[c])>> \in t.entries
    BY <1>3, <2>2 DEF StagedOK
  <2>4. new.email[c] # st.email[c] =>
          /\ c \in Mine(next, held) /\ new.email[c] # NoAddress
          /\ <<"email", Fold(new.email[c])>> \in Enters(st, req)
          /\ st.email[c] = NoAddress => <<"c", c>> \in Keys(req)
    <3>1. new.email[c] # st.email[c] => ~SameFor(new, st, c)
      BY DEF SameFor
    <3>2. NoAddress \notin Address
      BY SameAssumptions
    <3> QED
      BY <1>1, <1>2, <2>1, <3>1, <3>2 DEF Grows
  <2>5. c \in Mine(next, held)
    BY <1>1, <2>1, <2>3, <2>4
  <2>6. new.email[c] # NoAddress
    BY <2>1, <2>3, <2>4
  <2>7. base.email[c] = NoAddress => <<"c", c>> \in LogKeys(next)
    BY <1>1, <2>1, <2>2, <2>3, <2>4
  <2>8. new.email[c] = base.email[c] \/ <<"email", Fold(new.email[c])>> \in next.entries
    <3>1. CASE new.email[c] = st.email[c]
      <4>1. st.email[c] = base.email[c] \/ <<"email", Fold(st.email[c])>> \in t.entries
        BY <2>1, <2>3, <3>1
      <4> QED
        BY <1>1, <3>1, <4>1
    <3>2. CASE new.email[c] # st.email[c]
      BY <1>1, <2>4, <3>2
    <3> QED
      BY <3>1, <3>2
  <2> QED
    BY <2>1, <2>5, <2>6, <2>7, <2>8
<1>6. ASSUME NEW c \in DOMAIN got.reference
      PROVE  /\ c \in Mine(next, held)
             /\ \/ got.reference[c] \in {base.reference[c], NoReference}
                \/ <<"external_id", got.reference[c]>> \in next.entries
  <2>1. /\ c \in Customer /\ (c \in DOMAIN t.staged.reference \/ new.reference[c] # st.reference[c])
        /\ got.reference[c] = new.reference[c]
    BY <1>4
  <2>2. c \in DOMAIN t.staged.reference =>
          /\ c \in Mine(t, held)
          /\ \/ st.reference[c] \in {base.reference[c], NoReference}
             \/ <<"external_id", st.reference[c]>> \in t.entries
    <3>1. c \in DOMAIN t.staged.reference => st.reference[c] = t.staged.reference[c]
      BY <1>1, <2>1 DEF Cells
    <3> QED
      BY <1>3, <3>1 DEF StagedOK
  <2>3. new.reference[c] # st.reference[c] =>
          /\ c \in Mine(next, held)
          /\ \/ new.reference[c] = NoReference
             \/ <<"external_id", new.reference[c]>> \in Enters(st, req)
    <3>1. new.reference[c] # st.reference[c] => ~SameFor(new, st, c)
      BY DEF SameFor
    <3> QED
      BY <1>1, <1>2, <2>1, <3>1 DEF Grows
  <2>4. \/ new.reference[c] \in {base.reference[c], NoReference}
        \/ <<"external_id", new.reference[c]>> \in next.entries
    BY <1>1, <2>1, <2>2, <2>3
  <2> QED
    BY <1>1, <2>1, <2>2, <2>3, <2>4
<1>7. /\ DOMAIN got.credential \subseteq Mine(next, held)
      /\ DOMAIN got.history \subseteq Mine(next, held)
  <2>1. /\ DOMAIN t.staged.credential \subseteq Mine(t, held)
        /\ DOMAIN t.staged.history \subseteq Mine(t, held)
        /\ Mine(t, held) \subseteq Mine(next, held)
    BY <1>1, <1>3 DEF StagedOK
  <2>2. ASSUME NEW c \in DOMAIN got.credential
        PROVE  c \in Mine(next, held)
    <3>1. /\ c \in Customer
          /\ c \in DOMAIN t.staged.credential \/ new.credential[c] # st.credential[c]
      BY <1>4
    <3>2. CASE c \in DOMAIN t.staged.credential
      BY <2>1, <3>2
    <3>3. CASE new.credential[c] # st.credential[c]
      <4>1. ~SameFor(new, st, c)
        BY <3>3 DEF SameFor
      <4> QED
        BY <1>2, <3>1, <4>1
    <3> QED
      BY <3>1, <3>2, <3>3
  <2>3. ASSUME NEW c \in DOMAIN got.history
        PROVE  c \in Mine(next, held)
    <3>1. c \in Customer /\ (c \in DOMAIN t.staged.history \/ new.history[c] # st.history[c])
      BY <1>4
    <3>2. CASE c \in DOMAIN t.staged.history
      BY <2>1, <3>2
    <3>3. CASE new.history[c] # st.history[c]
      <4>1. ~SameFor(new, st, c)
        BY <3>3 DEF SameFor
      <4> QED
        BY <1>2, <3>1, <4>1
    <3> QED
      BY <3>1, <3>2, <3>3
  <2> QED
    BY <2>2, <2>3
<1>8. StagedRows(base.changes, got.changes, "k", next, held)
  <2>1. /\ DOMAIN st.changes = ChangeId /\ DOMAIN new.changes = ChangeId
        /\ DOMAIN base.changes = ChangeId
        /\ StagedRows(base.changes, t.staged.changes, "k", t, held)
        /\ TokensGrow(st.changes, new.changes, "k", req)
    BY <1>1, <1>3, TokenTables DEF StagedOK, Grows
  <2>2. \A k \in ChangeId : st.changes[k] =
          IF k \in DOMAIN t.staged.changes THEN t.staged.changes[k] ELSE base.changes[k]
    BY <1>1 DEF Cells
  <2>3. ASSUME NEW k \in ChangeId, new.changes[k] # NoRow, new.changes[k] # st.changes[k]
        PROVE  new.changes[k].owner \in Mine(next, held)
    <3>1. new.changes[k].owner \in Customer
      BY <1>1, <2>3, TokenTables
    <3>2. ~SameFor(new, st, new.changes[k].owner)
      BY <2>1, <2>3 DEF SameFor, SameRows, Of
    <3> QED
      BY <1>2, <3>1, <3>2
  <2> QED
    BY <1>1, <1>4, <2>1, <2>2, <2>3, WrittenRows
<1>9. StagedRows(base.resets, got.resets, "r", next, held)
  <2>1. /\ DOMAIN st.resets = ResetId /\ DOMAIN new.resets = ResetId
        /\ DOMAIN base.resets = ResetId
        /\ StagedRows(base.resets, t.staged.resets, "r", t, held)
        /\ TokensGrow(st.resets, new.resets, "r", req)
    BY <1>1, <1>3, TokenTables DEF StagedOK, Grows
  <2>2. \A r \in ResetId : st.resets[r] =
          IF r \in DOMAIN t.staged.resets THEN t.staged.resets[r] ELSE base.resets[r]
    BY <1>1 DEF Cells
  <2>3. ASSUME NEW r \in ResetId, new.resets[r] # NoRow, new.resets[r] # st.resets[r]
        PROVE  new.resets[r].owner \in Mine(next, held)
    <3>1. new.resets[r].owner \in Customer
      BY <1>1, <2>3, TokenTables
    <3>2. ~SameFor(new, st, new.resets[r].owner)
      BY <2>1, <2>3 DEF SameFor, SameRows, Of
    <3> QED
      BY <1>2, <3>1, <3>2
  <2> QED
    BY <1>1, <1>4, <2>1, <2>2, <2>3, WrittenRows
<1> QED
  BY <1>5, <1>6, <1>7, <1>8, <1>9 DEF StagedOK, got

\* Its log is accepted with the door at its end.
LEMMA WrittenRun ==
  ASSUME NEW base \in Tables, NEW t, NEW held, SessionOK(base, t, held),
         NEW next, Writes(base, t, next), Wrote(base, t, held, next)
  PROVE  RunOK(base, next, held)
<1> DEFINE st == Seen(base, t)
           req == t.req
<1>1. /\ t.log \in Seq(Requests) /\ req \in Requests /\ next.log = Append(t.log, req)
      /\ st = Replay(base, t.log)
      /\ \A i \in 1..Len(t.log) : TookAt(After(base, t.log)[i - 1], t.log[i], t, held)
  BY DEF SessionOK, RunOK, Writes
<1>2. /\ Accepts(st, req) /\ NewKeys(st, req) /\ Seen(base, next) = Effect(st, req)
      /\ Owner(st, req) \subseteq Mine(next, held) \/ req.door = "record_acceptance"
      /\ Mine(t, held) \subseteq Mine(next, held)
  BY DEF Wrote
<1>3. t.entries \subseteq next.entries /\ Enters(st, req) \subseteq next.entries
  BY DEF Writes
<1> HIDE DEF st, req
<1>4. /\ next.log \in Seq(Requests) /\ Len(next.log) = Len(t.log) + 1 /\ Len(t.log) \in Nat
      /\ next.log[Len(t.log) + 1] = req /\ \A i \in 1..Len(t.log) : next.log[i] = t.log[i]
  BY <1>1
<1>5. /\ \A i \in 0..Len(t.log) : After(base, next.log)[i] = After(base, t.log)[i]
      /\ Replay(base, next.log) = Effect(st, req)
  BY <1>1, LogGrows
<1>6. ASSUME NEW i \in 1..Len(next.log)
      PROVE  TookAt(After(base, next.log)[i - 1], next.log[i], next, held)
  <2>1. CASE i \in 1..Len(t.log)
    <3>1. /\ TookAt(After(base, t.log)[i - 1], t.log[i], t, held)
          /\ next.log[i] = t.log[i]
      BY <1>1, <1>4, <2>1
    <3>2. i - 1 \in 0..Len(t.log)
      BY <1>4, <2>1
    <3>3. After(base, next.log)[i - 1] = After(base, t.log)[i - 1]
      BY <1>5, <3>2
    <3> QED
      BY <1>2, <1>3, <3>1, <3>3 DEF TookAt
  <2>2. CASE i = Len(t.log) + 1
    <3>1. After(base, next.log)[i - 1] = st /\ next.log[i] = req
      BY <1>1, <1>4, <1>5, <2>2 DEF Replay
    <3> QED
      BY <1>2, <1>3, <3>1 DEF TookAt
  <2> QED
    BY <1>4, <2>1, <2>2
<1> QED
  BY <1>2, <1>4, <1>5, <1>6 DEF RunOK

\* Nobody else carries an address that it now has in doubt.
LEMMA WrittenEntries ==
  ASSUME NEW base \in Tables, NEW t, NEW held, SessionOK(base, t, held),
         NEW next, Writes(base, t, next), Wrote(base, t, held, next)
  PROVE  EntriesOK(base, next, held)
<1> DEFINE st == Seen(base, t)
           req == t.req
<1>1. /\ st \in Tables /\ Proved!Sound(st) /\ Free(st, req) /\ Accepts(st, req)
      /\ Owner(st, req) \subseteq Mine(next, held) \/ req.door = "record_acceptance"
      /\ Mine(t, held) \subseteq Mine(next, held) /\ req \in Requests
      /\ next.entries = t.entries \cup Enters(st, req) \cup Frees(st, req)
  BY DEF Wrote, Writes
<1> SUFFICES ASSUME NEW c \in Customer, base.email[c] # NoAddress,
                    <<"email", Fold(base.email[c])>> \in next.entries,
                    c \notin Mine(t, held)
             PROVE  c \in Mine(next, held)
  BY <1>1 DEF EntriesOK
<1>2. st.email[c] = base.email[c]
  BY SeenElsewhere DEF SameFor, SessionOK
<1>3. DOMAIN st.email = Customer
  BY <1>1 DEF Tables
<1>4. <<"email", Fold(base.email[c])>> \notin t.entries
  BY DEF SessionOK, EntriesOK
<1> HIDE DEF st, req
<1>5. <<"email", Fold(st.email[c])>> \in Enters(st, req) \cup Frees(st, req)
  BY <1>1, <1>2, <1>4
<1>6. req.door \in {"create_account", "confirm_email_change"}
  BY <1>5 DEF Enters, Frees
<1>7. CASE req.door = "create_account"
  <2>1. c \in Holders(st.email, req.a)
    BY <1>2, <1>3, <1>5, <1>7 DEF Enters, Frees, Holders, SameAddress
  <2> QED
    BY <1>1, <1>7, <2>1 DEF Free
<1>8. CASE req.door = "confirm_email_change"
  <2>1. PICK o \in Customer : o \in Owner(st, req)
    BY <1>1, OwnerIs DEF Accepts
  <2>2. /\ TokenOf(st, req) = st.changes[req.k] /\ TokenOf(st, req).owner = o
        /\ st.email[o] # NoAddress /\ o \in Mine(next, held)
    BY <1>1, <1>8, <2>1, OwnerIs DEF TokenOf
  <2>3. CASE <<"email", Fold(st.email[c])>> \in Enters(st, req)
    <3>1. c \in Holders(st.email, TokenOf(st, req).to)
      BY <1>2, <1>3, <1>8, <2>3 DEF Enters, Holders, SameAddress
    <3>2. c = o
      BY <1>1, <1>8, <2>2, <3>1 DEF Free
    <3> QED
      BY <2>2, <3>2
  <2>4. CASE <<"email", Fold(st.email[c])>> \in Frees(st, req)
    <3>1. Fold(st.email[c]) = Fold(st.email[o])
      BY <1>8, <2>2, <2>4 DEF Frees
    <3>2. c = o
      BY <1>1, <1>2, <2>2, <3>1 DEF Proved!Sound, Proved!AddressesApart
    <3> QED
      BY <2>2, <3>2
  <2> QED
    BY <1>5, <2>3, <2>4
<1> QED
  BY <1>6, <1>7, <1>8

\* A door writes: its transaction is as good as it was.
LEMMA WriteMoves ==
  ASSUME NEW base \in Tables, Proved!Sound(base), NEW t, NEW held, SessionOK(base, t, held),
         NEW next, Writes(base, t, next)
  PROVE  SessionOK(base, next, held)
<1>1. Wrote(base, t, held, next)
  BY WriteIsAccepted
<1>2. StagedOK(base, next, held) /\ RunOK(base, next, held) /\ EntriesOK(base, next, held)
  BY <1>1, WrittenStaged, WrittenRun, WrittenEntries
<1>3. /\ LogKeys(next) = LogKeys(t) \cup Keys(t.req) /\ DoorKeys(next) = {}
      /\ DoorKeys(t) = Keys(t.req)
  BY <1>1 DEF Wrote, Writes, DoorKeys
<1>4. KeysOK(base, next)
  BY <1>3 DEF SessionOK, KeysOK
<1>5. HeldOK(base, next, held)
  BY <1>3 DEF SessionOK, HeldOK
<1>6. DoorOK(base, next, held)
  BY DEF Writes, DoorOK, StageOf
<1> QED
  BY <1>2, <1>4, <1>5, <1>6 DEF SessionOK

\* And as apart from another that it does not wait for.
LEMMA WriteStaysApart ==
  ASSUME NEW base \in Tables, Proved!Sound(base), NEW t, NEW held, SessionOK(base, t, held),
         NEW next, Writes(base, t, next),
         NEW u, NEW taken, SessionOK(base, u, taken), Apart(t, held, u, taken),
         Enters(Seen(base, t), t.req) \cap u.entries = {}
  PROVE  Apart(next, held, u, taken)
<1> DEFINE st == Seen(base, t)
           req == t.req
<1>1. Wrote(base, t, held, next)
  BY WriteIsAccepted
<1>2. /\ LogKeys(next) = LogKeys(t) \cup Keys(req) /\ DoorKeys(next) = {}
      /\ DoorKeys(t) = Keys(req) /\ req \in Requests
      /\ Mine(next, held) = Mine(t, held) \cup {c \in Customer : <<"c", c>> \in Keys(req)}
      /\ next.entries = t.entries \cup Enters(st, req) \cup Frees(st, req)
      /\ st \in Tables /\ Accepts(st, req) /\ Adds(base, st, t)
  BY <1>1 DEF Wrote, Writes, DoorKeys
<1>3. /\ Mine(t, held) \cap Mine(u, taken) = {} /\ t.entries \cap u.entries = {}
      /\ (LogKeys(t) \cup Keys(req)) \cap (LogKeys(u) \cup DoorKeys(u)) = {}
  BY <1>2 DEF Apart
<1>4. HeldOK(base, u, taken) /\ EntriesOK(base, u, taken) /\ KeysOK(base, t)
  BY DEF SessionOK
<1>5. StagedOK(base, t, held) /\ DoorOK(base, t, held) /\ StageOf(t) = "write" /\ req # NoRequest
  BY DEF SessionOK, Writes
<1>6. ASSUME NEW c \in Customer, <<"c", c>> \in Keys(req)
      PROVE  c \notin Mine(u, taken)
  <2>1. ~TakenIn(base, <<"c", c>>) /\ <<"c", c>> \notin LogKeys(u)
    BY <1>2, <1>3, <1>4, <1>6 DEF KeysOK
  <2>2. base.email[c] = NoAddress
    BY <2>1 DEF TakenIn
  <2> QED
    BY <1>4, <2>1, <2>2 DEF HeldOK, Mine
<1>7. Mine(next, held) \cap Mine(u, taken) = {}
  BY <1>2, <1>3, <1>6
<1>8. Frees(st, req) \cap u.entries = {}
  <2> SUFFICES ASSUME req.door = "confirm_email_change", Frees(st, req) \cap u.entries # {}
               PROVE  FALSE
    BY DEF Frees
  <2>1. PICK o \in Customer : o \in Owner(st, req)
    BY <1>2, OwnerIs DEF Accepts
  <2>2. TokenOf(st, req).owner = o /\ st.email[o] # NoAddress
    BY <1>2, <2>1, OwnerIs DEF TokenOf
  <2>3. <<"email", Fold(st.email[o])>> \in u.entries
    BY <2>2 DEF Frees
  <2>4. o \in held
    <3>1. Stages(req.door)[1] = "lock"
      BY DEF Stages
    <3> QED
      BY <1>5, <2>1, <3>1 DEF DoorOK
  <2>5. o \notin Mine(u, taken)
    BY <1>3, <2>4 DEF Mine
  <2>6. CASE st.email[o] = base.email[o]
    BY <1>4, <2>2, <2>3, <2>5, <2>6 DEF EntriesOK
  <2>7. CASE st.email[o] # base.email[o]
    <3>1. <<"email", Fold(st.email[o])>> \in t.entries
      BY <1>2, <2>7 DEF Adds
    <3> QED
      BY <1>3, <2>3, <3>1
  <2> QED
    BY <2>6, <2>7
<1>9. next.entries \cap u.entries = {}
  BY <1>2, <1>3, <1>8
<1>10. (LogKeys(next) \cup DoorKeys(next)) \cap (LogKeys(u) \cup DoorKeys(u)) = {}
  BY <1>2, <1>3
<1> QED
  BY <1>7, <1>9, <1>10 DEF Apart

-----------------------------------------------------------------------------
(* All the sessions.                                                       *)

\* The customers a session has locked.
Held(s) == {c \in Customer : rowLock[c] = s}

\* The committed tables keep every promise, and every transaction is as good over
\* them as if it were alone, for no two of them touch.
SerialOK ==
  /\ db \in Tables /\ Proved!Sound(db)
  /\ \A s \in Session : SessionOK(db, tx[s], Held(s))
  /\ \A s, q \in Session : s # q => Apart(tx[s], Held(s), tx[q], Held(q))

\* Two transactions are apart whichever is named first.
LEMMA ApartIsMutual ==
  ASSUME NEW t, NEW held, NEW u, NEW taken, Apart(t, held, u, taken)
  PROVE  Apart(u, taken, t, held)
BY DEF Apart

\* One session moves, the committed tables and the others stay.
LEMMA OneMoves ==
  ASSUME SerialOK, NEW s \in Session, db' = db,
         \A q \in Session \ {s} : tx'[q] = tx[q] /\ Held(q)' = Held(q),
         SessionOK(db, tx'[s], Held(s)'),
         \A q \in Session \ {s} : Apart(tx'[s], Held(s)', tx[q], Held(q))
  PROVE  SerialOK'
<1>1. db' \in Tables /\ Proved!Sound(db')
  BY DEF SerialOK
<1>2. ASSUME NEW q \in Session
      PROVE  SessionOK(db', tx'[q], Held(q)')
  <2>1. CASE q = s
    BY <2>1
  <2>2. CASE q # s
    <3>1. SessionOK(db, tx[q], Held(q)) /\ tx'[q] = tx[q] /\ Held(q)' = Held(q)
      BY <2>2 DEF SerialOK
    <3> QED
      BY <3>1
  <2> QED
    BY <2>1, <2>2
<1>3. ASSUME NEW q \in Session, NEW r \in Session, q # r
      PROVE  Apart(tx'[q], Held(q)', tx'[r], Held(r)')
  <2>1. CASE q = s
    <3>1. Apart(tx'[s], Held(s)', tx[r], Held(r)) /\ tx'[r] = tx[r] /\ Held(r)' = Held(r)
      BY <1>3, <2>1
    <3> QED
      BY <2>1, <3>1
  <2>2. CASE r = s
    <3>1. Apart(tx'[s], Held(s)', tx[q], Held(q)) /\ tx'[q] = tx[q] /\ Held(q)' = Held(q)
      BY <1>3, <2>2
    <3>2. Apart(tx[q], Held(q), tx'[s], Held(s)')
      BY <3>1, ApartIsMutual
    <3> QED
      BY <2>2, <3>1, <3>2
  <2>3. CASE q # s /\ r # s
    <3>1. /\ Apart(tx[q], Held(q), tx[r], Held(r))
          /\ tx'[q] = tx[q] /\ Held(q)' = Held(q) /\ tx'[r] = tx[r] /\ Held(r)' = Held(r)
      BY <1>3, <2>3 DEF SerialOK
    <3> QED
      BY <3>1
  <2> QED
    BY <2>1, <2>2, <2>3
<1> QED
  BY <1>1, <1>2, <1>3 DEF SerialOK

\* A door of a session ends without writing, or goes on within its locks.
LEMMA DoorOnly ==
  ASSUME SerialOK, NEW s \in Session, UNCHANGED <<db, rowLock>>,
         \A q \in Session \ {s} : tx'[q] = tx[q],
         SameWork(tx[s], tx'[s]), DoorKeys(tx'[s]) \subseteq DoorKeys(tx[s]),
         DoorOK(db, tx'[s], Held(s))
  PROVE  SerialOK'
<1>1. \A q \in Session : Held(q)' = Held(q)
  BY DEF Held
<1>2. SessionOK(db, tx[s], Held(s))
  BY DEF SerialOK
<1>3. /\ SessionOK(db, tx'[s], Held(s))
      /\ \A u, taken : Apart(tx[s], Held(s), u, taken) => Apart(tx'[s], Held(s), u, taken)
  BY <1>2, DoorMoves
<1>4. \A q \in Session \ {s} : Apart(tx'[s], Held(s), tx[q], Held(q))
  BY <1>3 DEF SerialOK
<1>5. /\ SessionOK(db, tx'[s], Held(s)')
      /\ \A q \in Session \ {s} : Apart(tx'[s], Held(s)', tx[q], Held(q))
  BY <1>1, <1>3, <1>4
<1> QED
  BY <1>1, <1>5, OneMoves

\* The session's record after its door has ended without writing.
LEMMA DoorIsOver ==
  ASSUME NEW base, NEW t, NEW next, NEW held, next.req = NoRequest
  PROVE  DoorKeys(next) \subseteq DoorKeys(t) /\ DoorOK(base, next, held)
BY DEF DoorKeys, DoorOK, StageOf

\* A door begins with a fresh key.
LEMMA BeginKeepsSerial ==
  ASSUME LocksOK, SerialOK, NEW s \in Session, NEW req \in Call, Begin(s, req)
  PROVE  SerialOK'
<1>1. /\ \A q \in Session \ {s} : tx'[q] = tx[q]
      /\ tx'[s].req = req /\ tx'[s].next = 1 /\ SameWork(tx[s], tx'[s])
      /\ UNCHANGED <<db, rowLock>> /\ Fresh(req)
  BY DEF Begin, LocksOK, Fields, SameWork
<1>2. req \in Requests /\ req # NoRequest
  BY CallsAreRequests, RequestFields DEF NoRequest, Door
<1>3. Keys(req) \subseteq Drawn(req)
  BY <1>2, KeysAreDrawn
<1>4. NewKeys(db, req)
  BY <1>1, <1>3 DEF NewKeys, Fresh
<1>5. ASSUME NEW q \in Session
      PROVE  /\ LogKeys(tx[q]) \cap Keys(req) = {}
             /\ Keys(req) \cap (LogKeys(tx[q]) \cup DoorKeys(tx[q])) = {}
  <2>1. tx[q].log \in Seq(Requests) /\ tx[q].req \in Requests \cup {NoRequest}
    BY DEF SerialOK, SessionOK, RunOK, DoorOK
  <2>2. ASSUME NEW i \in 1..Len(tx[q].log)
        PROVE  Keys(tx[q].log[i]) \cap Keys(req) = {}
    <3>1. tx[q].log[i] \in Requests /\ i \in DOMAIN tx[q].log
      BY <2>1
    <3>2. Keys(tx[q].log[i]) \subseteq Drawn(tx[q].log[i])
      BY <3>1, KeysAreDrawn
    <3> QED
      BY <1>1, <1>3, <3>1, <3>2 DEF Fresh
  <2>3. DoorKeys(tx[q]) \cap Keys(req) = {}
    <3>1. CASE tx[q].req = NoRequest
      BY <3>1 DEF DoorKeys
    <3>2. CASE tx[q].req # NoRequest
      <4>1. Keys(tx[q].req) \subseteq Drawn(tx[q].req) /\ DoorKeys(tx[q]) = Keys(tx[q].req)
        BY <2>1, <3>2, KeysAreDrawn DEF DoorKeys
      <4> QED
        BY <1>1, <1>3, <3>2, <4>1 DEF Fresh, InDoor
    <3> QED
      BY <3>1, <3>2
  <2>4. LogKeys(tx[q]) \cap Keys(req) = {}
    BY <2>2 DEF LogKeys
  <2> QED
    BY <2>3, <2>4
<1>6. \A q \in Session : Held(q)' = Held(q)
  BY <1>1 DEF Held
<1>7. /\ SessionOK(db, tx'[s], Held(s))
      /\ \A u, taken : /\ Apart(tx[s], Held(s), u, taken)
                       /\ Keys(req) \cap (LogKeys(u) \cup DoorKeys(u)) = {}
                       => Apart(tx'[s], Held(s), u, taken)
  <2>1. SessionOK(db, tx[s], Held(s))
    BY DEF SerialOK
  <2> QED
    BY <1>1, <1>2, <1>4, <1>5, <2>1, DoorBegins
<1>8. \A q \in Session \ {s} : Apart(tx'[s], Held(s), tx[q], Held(q))
  BY <1>5, <1>7 DEF SerialOK
<1> QED
  BY <1>1, <1>6, <1>7, <1>8, OneMoves

\* What a session reads and where its door stands, by its record alone.
LEMMA ByTheRecord ==
  ASSUME NEW s \in Session
  PROVE  /\ View(s) = Seen(db, tx[s]) /\ Stage(s) = StageOf(tx[s])
         /\ InDoor(s) <=> tx[s].req # NoRequest
BY DEF View, Seen, Stage, StageOf, InDoor

\* A caught refusal.
LEMMA RefusedKeepsSerial ==
  ASSUME LocksOK, SerialOK, NEW s \in Session, Refused(s), UNCHANGED <<db, rowLock>>
  PROVE  SerialOK'
<1>1. /\ \A q \in Session \ {s} : tx'[q] = tx[q]
      /\ tx'[s].req = NoRequest /\ SameWork(tx[s], tx'[s])
  BY DEF Refused, LocksOK, Fields, SameWork
<1> QED
  BY <1>1, DoorOnly, DoorIsOver

\* Advancing, on the record.
LEMMA Advanced ==
  ASSUME LocksOK, NEW s \in Session, Advance(s)
  PROVE  /\ \A q \in Session \ {s} : tx'[q] = tx[q]
         /\ tx'[s].req = tx[s].req /\ tx'[s].next = tx[s].next + 1 /\ SameWork(tx[s], tx'[s])
         /\ DoorKeys(tx'[s]) = DoorKeys(tx[s])
BY DEF Advance, LocksOK, Fields, SameWork, DoorKeys

\* A door past its checks.
LEMMA AdvanceKeepsSerial ==
  ASSUME LocksOK, SerialOK, NEW s \in Session, Advance(s), UNCHANGED <<db, rowLock>>,
         InDoor(s), Stage(s) # "lock",
         Owner(View(s), tx[s].req) # {}, Admits(View(s), tx[s].req)
  PROVE  SerialOK'
<1>1. /\ \A q \in Session \ {s} : tx'[q] = tx[q]
      /\ tx'[s].req = tx[s].req /\ SameWork(tx[s], tx'[s]) /\ DoorKeys(tx'[s]) = DoorKeys(tx[s])
  BY Advanced
<1>2. Seen(db, tx'[s]) = View(s)
  BY <1>1, WorkStays, ByTheRecord
<1>3. DoorOK(db, tx[s], Held(s)) /\ tx[s].req # NoRequest /\ StageOf(tx[s]) # "lock"
  BY ByTheRecord DEF SerialOK, SessionOK
<1>4. DoorOK(db, tx'[s], Held(s))
  BY <1>1, <1>2, <1>3, ByTheRecord DEF DoorOK
<1> QED
  BY <1>1, <1>4, DoorOnly

\* load_customer, FOR UPDATE.
LEMMA LockCustomerKeepsSerial ==
  ASSUME LocksOK, SerialOK, NEW s \in Session, LockCustomer(s)
  PROVE  SerialOK'
<1> DEFINE owner == Owner(View(s), tx[s].req)
<1>1. Stage(s) = "lock" /\ InDoor(s) /\ db' = db
  BY InADoor DEF LockCustomer
<1>2. CASE Refused(s) /\ UNCHANGED rowLock
  BY <1>1, <1>2, RefusedKeepsSerial
<1>3. CASE \E c \in owner : /\ rowLock[c] \in {NoSession, s}
                            /\ rowLock' = [rowLock EXCEPT ![c] = s]
                            /\ Advance(s)
  <2>1. PICK c \in owner : /\ rowLock[c] \in {NoSession, s}
                           /\ rowLock' = [rowLock EXCEPT ![c] = s]
                           /\ Advance(s)
    BY <1>3
  <2>2. c \in Owner(Seen(db, tx[s]), tx[s].req) /\ c \in Customer
    BY <2>1, ByTheRecord DEF Owner
  <2>3. /\ \A q \in Session \ {s} : tx'[q] = tx[q]
        /\ tx'[s].req = tx[s].req /\ tx'[s].next = tx[s].next + 1 /\ SameWork(tx[s], tx'[s])
    BY <2>1, Advanced
  <2>4. /\ StageOf(tx[s]) = "lock" /\ tx[s].req # NoRequest /\ tx[s].req \in Requests
        /\ tx[s].next \in 1..Len(Stages(tx[s].req.door))
        /\ db \in Tables /\ Proved!Sound(db) /\ SessionOK(db, tx[s], Held(s))
    BY <1>1, ByTheRecord DEF LocksOK, InDoor, SerialOK
  <2>5. /\ Held(s)' = Held(s) \cup {c}
        /\ \A q \in Session \ {s} : Held(q)' = Held(q) /\ c \notin Held(q)
    BY <2>1, <2>2, NoSessionIsNone DEF Held, LocksOK
  <2>6. /\ SessionOK(db, tx'[s], Held(s) \cup {c})
        /\ \A u, taken :
             /\ SessionOK(db, u, taken) /\ Apart(tx[s], Held(s), u, taken) /\ c \notin taken
             => Apart(tx'[s], Held(s) \cup {c}, u, taken)
    BY <2>2, <2>3, <2>4, LockMoves
  <2>7. \A q \in Session \ {s} : Apart(tx'[s], Held(s) \cup {c}, tx[q], Held(q))
    BY <2>5, <2>6 DEF SerialOK
  <2> QED
    BY <1>1, <2>3, <2>5, <2>6, <2>7, OneMoves
<1> QED
  BY <1>2, <1>3 DEF LockCustomer

\* The check of the foreign key.
LEMMA ShareCustomerKeepsSerial ==
  ASSUME LocksOK, SerialOK, NEW s \in Session, ShareCustomer(s)
  PROVE  SerialOK'
<1>1. Stage(s) = "share" /\ InDoor(s) /\ UNCHANGED <<db, rowLock>> /\ Advance(s)
  BY InADoor DEF ShareCustomer
<1>2. Owner(View(s), tx[s].req) # {} /\ Admits(View(s), tx[s].req)
  BY <1>1, ByTheRecord DEF SerialOK, SessionOK, DoorOK
<1> QED
  BY <1>1, <1>2, AdvanceKeepsSerial

\* The reads that refuse.
LEMMA CheckKeepsSerial ==
  ASSUME LocksOK, SerialOK, NEW s \in Session, Check(s)
  PROVE  SerialOK'
<1>1. Stage(s) = "check" /\ InDoor(s) /\ UNCHANGED <<db, rowLock>>
  BY InADoor DEF Check
<1>2. CASE Refused(s)
  BY <1>1, <1>2, RefusedKeepsSerial
<1>3. CASE Accepts(View(s), tx[s].req) /\ Advance(s)
  BY <1>1, <1>3, AdvanceKeepsSerial DEF Accepts
<1> QED
  BY <1>2, <1>3 DEF Check

\* The writes, accepted or failed by a constraint.
LEMMA WriteKeepsSerial ==
  ASSUME LocksOK, SerialOK, NEW s \in Session, Write(s)
  PROVE  SerialOK'
<1>1. Stage(s) = "write" /\ InDoor(s) /\ UNCHANGED <<db, rowLock>> /\ InDoubt(s) = {}
  BY InADoor DEF Write
<1>2. CASE Indexed(View(s), tx[s].req) /\ Accepted(s)
  <2>1. /\ \A q \in Session \ {s} : tx'[q] = tx[q]
        /\ tx'[s].req = NoRequest /\ tx'[s].log = Append(tx[s].log, tx[s].req)
        /\ tx'[s].staged = Staging(s, Effect(View(s), tx[s].req))
        /\ tx'[s].entries = tx[s].entries \cup Enters(View(s), tx[s].req)
                                          \cup Frees(View(s), tx[s].req)
    <3> DEFINE log == Append(tx[s].log, tx[s].req)
               staged == Staging(s, Effect(View(s), tx[s].req))
               entries == tx[s].entries \cup Enters(View(s), tx[s].req)
                                        \cup Frees(View(s), tx[s].req)
    <3>1. tx' = [tx EXCEPT ![s].req = NoRequest, ![s].log = log, ![s].staged = staged,
                           ![s].entries = entries]
      BY <1>2 DEF Accepted
    <3> HIDE DEF log, staged, entries
    <3>2. /\ \A q \in Session \ {s} : tx'[q] = tx[q]
          /\ tx'[s].req = NoRequest /\ tx'[s].log = log /\ tx'[s].staged = staged
          /\ tx'[s].entries = entries
      BY <3>1 DEF LocksOK, Fields
    <3> QED
      BY <3>2 DEF log, staged, entries
  <2>2. /\ tx[s].req \in Requests /\ tx[s].req # NoRequest /\ StageOf(tx[s]) = "write"
        /\ Free(Seen(db, tx[s]), tx[s].req)
    BY <1>1, <1>2, ByTheRecord DEF LocksOK, InDoor, Indexed
  <2>3. Staging(s, Effect(View(s), tx[s].req)) =
          StagedFor(Seen(db, tx[s]), tx[s].staged, Effect(Seen(db, tx[s]), tx[s].req))
    BY ByTheRecord DEF Staging, StagedFor
  <2>4. Writes(db, tx[s], tx'[s])
    BY <2>1, <2>2, <2>3, ByTheRecord DEF Writes
  <2>5. \A q \in Session : Held(q)' = Held(q)
    BY <1>1 DEF Held
  <2>6. db \in Tables /\ Proved!Sound(db) /\ SessionOK(db, tx[s], Held(s))
    BY DEF SerialOK
  <2>7. SessionOK(db, tx'[s], Held(s))
    BY <2>4, <2>6, WriteMoves
  <2>8. ASSUME NEW q \in Session \ {s}
        PROVE  Apart(tx'[s], Held(s), tx[q], Held(q))
    <3>1. SessionOK(db, tx[q], Held(q)) /\ Apart(tx[s], Held(s), tx[q], Held(q))
      BY DEF SerialOK
    <3>2. Enters(Seen(db, tx[s]), tx[s].req) \cap tx[q].entries = {}
      BY <1>1, ByTheRecord DEF InDoubt
    <3> QED
      BY <2>4, <2>6, <3>1, <3>2, WriteStaysApart
  <2> QED
    BY <1>1, <2>1, <2>5, <2>7, <2>8, OneMoves
<1>3. CASE FailTransaction(s)
  <2>1. /\ \A q \in Session \ {s} : tx'[q] = tx[q]
        /\ tx'[s].req = NoRequest /\ SameWork(tx[s], tx'[s])
    BY <1>3 DEF FailTransaction, LocksOK, Fields, SameWork
  <2> QED
    BY <1>1, <2>1, DoorOnly, DoorIsOver
<1> QED
  BY <1>2, <1>3 DEF Write

\* A transaction ends; the others are as they were.
LEMMA Ended ==
  ASSUME LocksOK, NEW s \in Session, End(s)
  PROVE  /\ tx'[s] = Closed /\ Held(s)' = {}
         /\ \A q \in Session \ {s} : tx'[q] = tx[q] /\ Held(q)' = Held(q)
<1>1. tx'[s] = Closed /\ \A q \in Session \ {s} : tx'[q] = tx[q]
  BY DEF End, LocksOK
<1>2. \A c \in Customer : /\ rowLock'[c] # s
                         /\ \A q \in Session \ {s} : rowLock'[c] = q <=> rowLock[c] = q
  BY NoSessionIsNone DEF End
<1> QED
  BY <1>1, <1>2 DEF Held

\* Its rows are dropped.
LEMMA RollbackKeepsSerial ==
  ASSUME LocksOK, SerialOK, NEW s \in Session, End(s), db' = db
  PROVE  SerialOK'
<1>1. /\ tx'[s] = Closed /\ Held(s)' = {}
      /\ \A q \in Session \ {s} : tx'[q] = tx[q] /\ Held(q)' = Held(q)
  BY Ended
<1>2. SessionOK(db, Closed, {}) /\ \A u, taken : Apart(Closed, {}, u, taken)
  BY ClosedIsGood DEF SerialOK
<1> QED
  BY <1>1, <1>2, OneMoves

\* Its rows are committed: what it saw is now committed, and keeps every promise.
LEMMA CommitKeepsSerial ==
  ASSUME LocksOK, SerialOK, NEW s \in Session, Commit(s)
  PROVE  SerialOK'
<1>1. CASE tx[s].failed
  BY <1>1, RollbackKeepsSerial DEF Commit
<1>2. CASE ~tx[s].failed
  <2>1. End(s) /\ db' = Seen(db, tx[s])
    BY <1>2, ByTheRecord DEF Commit
  <2>2. /\ tx'[s] = Closed /\ Held(s)' = {}
        /\ \A q \in Session \ {s} : tx'[q] = tx[q] /\ Held(q)' = Held(q)
    BY <2>1, Ended
  <2>3. db \in Tables /\ Proved!Sound(db) /\ SessionOK(db, tx[s], Held(s))
    BY DEF SerialOK
  <2>4. db' \in Tables /\ Proved!Sound(db')
    BY <2>1, <2>3, SeenIsSound DEF SessionOK
  <2>5. /\ SessionOK(db', Closed, {})
        /\ \A u, taken : Apart(Closed, {}, u, taken) /\ Apart(u, taken, Closed, {})
    BY <2>4, ClosedIsGood
  <2>6. ASSUME NEW q \in Session
        PROVE  SessionOK(db', tx'[q], Held(q)')
    <3>1. CASE q = s
      BY <2>2, <2>5, <3>1
    <3>2. CASE q # s
      <4>1. SessionOK(db, tx[q], Held(q)) /\ Apart(tx[q], Held(q), tx[s], Held(s))
        BY <3>2 DEF SerialOK
      <4>2. SessionOK(Seen(db, tx[s]), tx[q], Held(q))
        BY <2>3, <4>1, SessionStays
      <4> QED
        BY <2>1, <2>2, <3>2, <4>2
    <3> QED
      BY <3>1, <3>2
  <2>7. ASSUME NEW q \in Session, NEW r \in Session, q # r
        PROVE  Apart(tx'[q], Held(q)', tx'[r], Held(r)')
    <3>1. CASE q = s
      BY <2>2, <2>5, <3>1
    <3>2. CASE r = s
      BY <2>2, <2>5, <3>2
    <3>3. CASE q # s /\ r # s
      <4>1. Apart(tx[q], Held(q), tx[r], Held(r))
        BY <2>7 DEF SerialOK
      <4> QED
        BY <2>2, <3>3, <4>1
    <3> QED
      BY <3>1, <3>2, <3>3
  <2> QED
    BY <2>4, <2>6, <2>7 DEF SerialOK
<1> QED
  BY <1>1, <1>2

\* No transaction is open, and the tables are what a seed left.
LEMMA InitIsSerial == Init => SerialOK
<1> SUFFICES ASSUME Init
             PROVE  SerialOK
  OBVIOUS
<1>1. db \in Tables /\ Proved!Sound(db)
  BY SeedsAreSound
<1>2. \A s \in Session : tx[s] = Closed /\ Held(s) = {}
  BY NoSessionIsNone DEF Init, Held
<1>3. /\ SessionOK(db, Closed, {})
      /\ Apart(Closed, {}, Closed, {})
  BY <1>1, ClosedIsGood
<1> QED
  BY <1>1, <1>2, <1>3 DEF SerialOK

\* Every step keeps it.
LEMMA NextKeepsSerial == LocksOK /\ SerialOK /\ [Next]_vars => SerialOK'
<1> SUFFICES ASSUME LocksOK, SerialOK, [Next]_vars
             PROVE  SerialOK'
  OBVIOUS
<1>1. CASE UNCHANGED vars
  <2>1. db' = db /\ tx' = tx /\ \A s \in Session : Held(s)' = Held(s)
    BY <1>1 DEF vars, Held
  <2> QED
    BY <2>1 DEF SerialOK
<1>2. ASSUME NEW s \in Session, NEW req \in Call, Begin(s, req)
      PROVE  SerialOK'
  BY <1>2, BeginKeepsSerial
<1>3. ASSUME NEW s \in Session, Step(s)
      PROVE  SerialOK'
  BY <1>3, LockCustomerKeepsSerial, ShareCustomerKeepsSerial, CheckKeepsSerial, WriteKeepsSerial,
     CommitKeepsSerial DEF Step
<1>4. ASSUME NEW s \in Session, Rollback(s)
      PROVE  SerialOK'
  BY <1>4, RollbackKeepsSerial DEF Rollback
<1> QED
  BY <1>1, <1>2, <1>3, <1>4 DEF Next

-----------------------------------------------------------------------------
(* The theorems on what is committed.                                      *)

\* Whatever the sessions call, in whatever order their statements run, the committed
\* tables keep every promise and the open transactions do not touch one another.
THEOREM SerialInvariance == Spec => [](LocksOK /\ SerialOK)
<1>1. Init => SerialOK
  BY InitIsSerial
<1>2. LocksOK /\ SerialOK /\ [Next]_vars => SerialOK'
  BY NextKeepsSerial
<1>3. Spec => []LocksOK
  BY LocksInvariance
<1> QED
  BY <1>1, <1>2, <1>3, PTL DEF Spec

\* What a transaction sees, its log leaves: committing it is running its doors
\* one after another on the committed tables, and a failed one commits nothing.
LEMMA CommitIsSerial ==
  ASSUME LocksOK, SerialOK, NEW s \in Session, Commit(s)
  PROVE  LET log == IF tx[s].failed THEN << >> ELSE tx[s].log
         IN  Replays(db, log) /\ db' = Replay(db, log)
<1>1. CASE tx[s].failed
  <2>1. << >> \in Seq(Requests) /\ Len(<< >>) = 0
    OBVIOUS
  <2>2. Replay(db, << >>) = db
    BY <2>1, AfterIsTheRun DEF Replay
  <2>3. Replays(db, << >>)
    BY <2>1 DEF Replays
  <2> QED
    BY <1>1, <2>2, <2>3 DEF Commit
<1>2. CASE ~tx[s].failed
  <2>1. RunOK(db, tx[s], Held(s))
    BY DEF SerialOK, SessionOK
  <2>2. Replays(db, tx[s].log) /\ Seen(db, tx[s]) = Replay(db, tx[s].log)
    BY <2>1 DEF RunOK, TookAt, Replays
  <2>3. db' = Seen(db, tx[s])
    BY <1>2, ByTheRecord DEF Commit
  <2> QED
    BY <1>2, <2>2, <2>3
<1> QED
  BY <1>1, <1>2

\* A commit does what its accepted doors would do alone, one after another, on the
\* tables as they are at that moment: what the other sessions committed since the
\* doors ran changes none of their answers.
THEOREM CommitsSerially == Spec => CommitsAreSerial
<1> DEFINE Serially ==
      \A s \in Session : Commit(s) =>
        LET log == IF tx[s].failed THEN << >> ELSE tx[s].log
        IN  Replays(db, log) /\ db' = Replay(db, log)
<1>1. LocksOK /\ SerialOK => Serially
  BY CommitIsSerial
<1>2. Spec => [](LocksOK /\ SerialOK)
  BY SerialInvariance
<1> QED
  BY <1>1, <1>2, PTL DEF CommitsAreSerial

\* Tables that keep every promise of AccountProofs keep those the commits are held to.
LEMMA SoundIsCommitted ==
  ASSUME Proved!Sound(db)
  PROVE  CommittedTablesAreSound
<1>1. Committed!OneAccountPerAddress
  BY DEF Proved!Sound, Proved!AddressesApart, Committed!OneAccountPerAddress, Committed!Exists
<1>2. /\ Committed!OneLiveTokenOfEachKind
      /\ Committed!LiveResetGoesToCurrentAddress
      /\ Committed!LiveChangeIsUnderCurrentCredential
      /\ Committed!LiveChangeMovesTheAddress
  BY DEF Proved!Sound, Proved!NewestAlone, Proved!ResetsAtTheAddress,
     Proved!ChangesUnderTheCredential, Proved!ChangesMove, Proved!Live,
     Committed!OneLiveTokenOfEachKind, Committed!LiveResetGoesToCurrentAddress,
     Committed!LiveChangeIsUnderCurrentCredential, Committed!LiveChangeMovesTheAddress,
     Committed!LiveChange, Committed!LiveReset
<1>3. Committed!HistoryIsAChain
  BY DEF Proved!Sound, Proved!HistoryChains, Proved!Chain, Committed!HistoryIsAChain
<1>4. Committed!RedeemedChangesAreTheHistory
  BY DEF Proved!Sound, Proved!RedeemedInHistory, Proved!Records, Proved!Agrees, Proved!Recorded,
     Committed!RedeemedChangesAreTheHistory
<1> QED
  BY <1>1, <1>2, <1>3, <1>4 DEF CommittedTablesAreSound

\* Whatever the callers put into one transaction and whichever refusals they catch,
\* the committed tables keep every promise of Account.
THEOREM TablesStaySound == Spec => []CommittedTablesAreSound
<1>1. SerialOK => CommittedTablesAreSound
  BY SoundIsCommitted DEF SerialOK
<1> QED
  BY <1>1, SerialInvariance, PTL
=============================================================================
