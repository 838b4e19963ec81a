---------------------------- MODULE AccountReads ----------------------------
(***************************************************************************)
(* Reading an account back: show_account, one SELECT after another at READ *)
(* COMMITTED while the doors of Account commit between them, and the order *)
(* in which the email history is read.                                     *)
(*                                                                         *)
(* A history row carries the instant at which its transaction opened       *)
(* (created_at defaults to now()).  The command line opens its transaction *)
(* before it reads the token from standard input, so a confirmation may    *)
(* commit long after the instant its row carries.                          *)
(***************************************************************************)
EXTENDS Account, FiniteSets

CONSTANTS
  Confirmer,   \* invocations of confirm-email-change, one transaction each
  NoReading    \* no show_account is under way

ASSUME ConfirmersAreFinite == IsFiniteSet(Confirmer)

VARIABLES
  openedAt,    \* when each confirmer's transaction opened, 0 before it has
  spent,       \* the confirmers whose change took effect
  createdAt,   \* created_at of each history row, in commit order
  reading      \* the show_account under way, and what it has read so far

readVars == <<openedAt, spent, createdAt, reading>>
allVars == <<vars, readVars>>

Opened == {s \in Confirmer : openedAt[s] # 0}

\* Mutants: the statements in another order.
HistoryFirst == <<"history", "customer", "credential", "pending">>
PendingLast == <<"customer", "credential", "history", "pending">>

\* The SELECTs of show_account that can tear, in the order they run.
ShowOrder == <<"customer", "credential", "pending", "history">>

Reading ==
  [c : Customer, next : 1..(Len(ShowOrder) + 1), liveAtStart : SUBSET ChangeId,
   email : Address \cup {NoAddress}, hasCredential : BOOLEAN,
   pending : SUBSET ChangeId, history : Seq(HistoryRow)]

ReadsTypeOK ==
  /\ TypeOK
  /\ openedAt \in [Confirmer -> 0..Cardinality(Confirmer)]
  /\ spent \subseteq Opened
  /\ createdAt \in [Customer -> Seq(1..Cardinality(Confirmer))]
  /\ \A c \in Customer : Len(createdAt[c]) = Len(history[c])
  /\ reading \in Reading \cup {NoReading}

ReadsInit ==
  /\ Init
  /\ openedAt = [s \in Confirmer |-> 0]
  /\ spent = {}
  /\ createdAt = [c \in Customer |-> << >>]
  /\ reading = NoReading

-----------------------------------------------------------------------------
(* The confirmations, with the instant their transaction opened at.        *)

\* tenant(connection, ...): the first statement fixes the transaction's now().
Open(s) ==
  /\ openedAt[s] = 0
  /\ openedAt' = [openedAt EXCEPT ![s] = Cardinality(Opened) + 1]
  /\ UNCHANGED <<vars, spent, createdAt, reading>>

\* The token arrives on standard input and the change takes effect.
Confirm(s, k, at) ==
  /\ s \in Opened \ spent
  /\ ConfirmEmailChange(k, at)
  /\ spent' = spent \cup {s}
  /\ createdAt' = [createdAt EXCEPT ![changes[k].owner] = Append(@, openedAt[s])]
  /\ UNCHANGED <<openedAt, reading>>

-----------------------------------------------------------------------------
(* show_account, statement by statement.                                   *)

\* load_customer is the first: an unknown customer is refused and nothing read.
Show(c) ==
  /\ reading = NoReading
  /\ Exists(c)
  /\ reading' = [c |-> c, next |-> 1, liveAtStart |-> Outstanding(changes, c),
                 email |-> NoAddress, hasCredential |-> FALSE, pending |-> {},
                 history |-> << >>]
  /\ UNCHANGED <<vars, openedAt, spent, createdAt>>

Reads(statement) ==
  /\ reading # NoReading
  /\ reading.next <= Len(ShowOrder)
  /\ ShowOrder[reading.next] = statement

Select ==
  /\ \/ Reads("customer")
        /\ reading' = [reading EXCEPT !.next = @ + 1, !.email = email[reading.c]]
     \/ Reads("credential")
        /\ reading' = [reading EXCEPT !.next = @ + 1,
                                      !.hasCredential = HasCredential(credential[reading.c])]
     \/ Reads("pending")
        /\ reading' = [reading EXCEPT !.next = @ + 1,
                                      !.pending = Outstanding(changes, reading.c)]
     \/ Reads("history")
        /\ reading' = [reading EXCEPT !.next = @ + 1, !.history = history[reading.c]]
  /\ UNCHANGED <<vars, openedAt, spent, createdAt>>

Shown == reading # NoReading /\ reading.next > Len(ShowOrder)

\* The account is printed.
Render ==
  /\ Shown
  /\ reading' = NoReading
  /\ UNCHANGED <<vars, openedAt, spent, createdAt>>

-----------------------------------------------------------------------------

\* The doors that write no history.  A change is authorised by the caller's
\* name here: by which of the two ways is nothing a read of the order tells.  To
\* what is read here the doors of a reset are SetPassword: consuming one writes a
\* secret and closes the changes of its customer, starting one touches neither.
OtherDoor ==
  /\ \/ \E c \in Customer, a \in Address, r \in Reference \cup {NoReference} :
          CreateAccount(c, a, r)
     \/ \E c \in Customer, p \in Secret, salt \in Salt : SetPassword(c, p, salt)
     \/ \E c \in Customer, k \in ChangeId, a \in Address,
           at \in Instant, window \in Window :
          StartEmailChange(c, k, a, ByCaller, at, window)
  /\ UNCHANGED readVars

ReadsNext ==
  \/ \E s \in Confirmer : Open(s)
  \/ \E s \in Confirmer, k \in ChangeId, at \in Instant : Confirm(s, k, at)
  \/ \E c \in Customer : Show(c)
  \/ Select
  \/ Render
  \/ OtherDoor

ReadsSpec == ReadsInit /\ [][ReadsNext]_allVars

-----------------------------------------------------------------------------
(* What a reader may rely on.                                              *)

\* The history shown is never behind the address shown: whatever commits while
\* the account is being read, the address is the one the account was created
\* with or one that a history row of the same answer set.
ShownAddressIsInTheShownHistory ==
  Shown =>
    LET original == IF history[reading.c] = << >> THEN email[reading.c]
                    ELSE history[reading.c][1].from
    IN  \/ reading.email = original
        \/ \E i \in DOMAIN reading.history : reading.history[i].to = reading.email

\* A change that was pending when the read began is somewhere in the answer,
\* pending or in the history, unless it was cancelled: a confirmation between
\* two statements shows it twice and never not at all.
NoChangeVanishesFromTheAnswer ==
  Shown =>
    \A k \in reading.liveAtStart :
      \/ k \in reading.pending
      \/ \E i \in DOMAIN reading.history : reading.history[i].change = k
      \/ changes[k].state = "cancelled"

\* EMAIL_CHANGE_ORDER: changed_at, then created_at.  The last of the tuple, id,
\* decides only between rows of one transaction, and the command line writes
\* one row in each.
ReadAfter(c, i, j) ==
  \/ history[c][i].changedAt > history[c][j].changedAt
  \/ /\ history[c][i].changedAt = history[c][j].changedAt
     /\ createdAt[c][i] > createdAt[c][j]

\* The row the history is read with last.
LastRead(c) ==
  CHOOSE i \in DOMAIN history[c] : \A j \in DOMAIN history[c] \ {i} : ReadAfter(c, i, j)

\* Where one row is later than every other by changed_at, it is read last and
\* names the address in effect.
LatestRowIsTheAddress ==
  \A c \in Customer : \A i \in DOMAIN history[c] :
    (\A j \in DOMAIN history[c] \ {i} : history[c][j].changedAt < history[c][i].changedAt)
      => LastRead(c) = i /\ history[c][i].to = email[c]
=============================================================================
