---------------------------- MODULE ReadsProofs ----------------------------
(***************************************************************************)
(* Theorems about AccountReads, for any number of confirmations and any    *)
(* tables: what show_account answers while doors commit between its        *)
(* statements, and which row of the email history is read last.  The       *)
(* invariant of the account's tables is the one proved in AccountProofs.   *)
(***************************************************************************)
EXTENDS AccountReads, AccountProofs, FiniteSetTheorems

-----------------------------------------------------------------------------
(* The inductive invariant.                                                *)

\* The address an account was created with.
Original(c) == IF history[c] = << >> THEN email[c] ELSE history[c][1].from

NamesAddress(rows, a) == \E i \in DOMAIN rows : rows[i].to = a

NamesChange(rows, k) == \E i \in DOMAIN rows : rows[i].change = k

\* The address read is on record for good, and so in a history read after it.
AddressRead ==
  reading # NoReading =>
    /\ Exists(reading.c)
    /\ reading.next > 1 =>
         reading.email = Original(reading.c) \/ NamesAddress(history[reading.c], reading.email)
    /\ reading.next > 4 =>
         reading.email = Original(reading.c) \/ NamesAddress(reading.history, reading.email)

\* A change that was live when the read began is closed by the time the pending
\* changes no longer show it, and if it was redeemed the history read later does.
ChangesRead ==
  reading # NoReading =>
    \A k \in reading.liveAtStart :
      /\ changes[k] # NoRow /\ changes[k].owner = reading.c
      /\ reading.next > 3 =>
           k \in reading.pending \/ changes[k].state \in {"redeemed", "cancelled"}
      /\ reading.next > 4 =>
           \/ k \in reading.pending
           \/ NamesChange(reading.history, k)
           \/ changes[k].state = "cancelled"

ReadsIInv ==
  /\ IInv
  /\ ReadsTypeOK
  /\ AddressRead
  /\ ChangesRead

-----------------------------------------------------------------------------
(* What a door does to what was read.                                      *)

\* A door of these is a step of the account.
LEMMA DoorsAreSteps ==
  ReadsNext => [Next]_vars
<1> SUFFICES ASSUME ReadsNext
             PROVE  [Next]_vars
  OBVIOUS
<1>1. ASSUME NEW s \in Confirmer, NEW k \in ChangeId, NEW at \in Instant, Confirm(s, k, at)
      PROVE  Next
  BY <1>1 DEF Confirm, Next
<1>2. CASE OtherDoor
  BY <1>2 DEF OtherDoor, Next
<1>3. ASSUME UNCHANGED vars
      PROVE  [Next]_vars
  BY <1>3
<1> QED
  BY <1>1, <1>2, <1>3 DEF ReadsNext, Open, Show, Select, Render

\* An account keeps the address it was created with and every row of its
\* history, at its place.
LEMMA HistoryOnlyGrows ==
  ASSUME IInv, [Next]_vars, NEW c \in Customer, Exists(c)
  PROVE  /\ Exists(c)' /\ Original(c)' = Original(c)
         /\ DOMAIN history[c] \subseteq DOMAIN history'[c]
         /\ \A i \in DOMAIN history[c] : history'[c][i] = history[c][i]
<1> DEFINE Grows == /\ Exists(c)' /\ Original(c)' = Original(c)
                    /\ DOMAIN history[c] \subseteq DOMAIN history'[c]
                    /\ \A i \in DOMAIN history[c] : history'[c][i] = history[c][i]
<1>0. /\ email \in [Customer -> Address \cup {NoAddress}]
      /\ history \in [Customer -> Seq(HistoryRow)]
      /\ changes \in [ChangeId -> ChangeRow \cup {NoRow}]
  BY DEF IInv, TypeOK
<1>1. ASSUME NEW d \in Customer, NEW a \in Address, NEW r \in Reference \cup {NoReference},
             CreateAccount(d, a, r)
      PROVE  Grows
  <2>1. d # c /\ email' = [email EXCEPT ![d] = a] /\ history' = history
    BY <1>1 DEF CreateAccount
  <2>2. email'[c] = email[c]
    BY <1>0, <2>1
  <2> QED
    BY <2>1, <2>2 DEF Exists, Original
<1>2. ASSUME NEW k \in ChangeId, NEW at \in Instant, ConfirmEmailChange(k, at)
      PROVE  Grows
  <2> DEFINE d == changes[k].owner
             row == NewHistory(email[d], changes[k], at, k)
  <2>1. changes[k] \in ChangeRow /\ d \in Customer /\ changes[k].to \in Address
    BY <1>0, <1>2 DEF ConfirmEmailChange, Presentable, ChangeRow
  <2>2. email' = [email EXCEPT ![d] = changes[k].to]
        /\ history' = [history EXCEPT ![d] = Append(@, row)]
    BY <1>2 DEF ConfirmEmailChange
  <2>3. CASE d # c
    <3>1. email'[c] = email[c] /\ history'[c] = history[c]
      BY <1>0, <2>2, <2>3
    <3> QED
      BY <3>1 DEF Exists, Original
  <2>4. CASE d = c
    <3>1. row.from = email[c]
      BY <2>4 DEF NewHistory
    <3>2. email'[c] = changes[k].to /\ email'[c] # NoAddress
      BY <1>0, <2>1, <2>2, <2>4, NullsAreApart
    <3> HIDE DEF row
    <3>3. history'[c] = Append(history[c], row)
      BY <1>0, <2>2, <2>4
    <3>4. history[c] \in Seq(HistoryRow)
      BY <1>0
    <3> DEFINE h == history[c]
    <3>5. /\ DOMAIN h \subseteq DOMAIN Append(h, row)
          /\ \A i \in DOMAIN h : Append(h, row)[i] = h[i]
          /\ Append(h, row) # << >>
          /\ h = << >> => Append(h, row)[1] = row
          /\ h # << >> => 1 \in DOMAIN h
      BY <3>4
    <3>6. Original(c)' = Original(c)
      BY <3>1, <3>2, <3>3, <3>5 DEF Original
    <3> QED
      BY <3>2, <3>3, <3>5, <3>6 DEF Exists
  <2> QED
    BY <2>3, <2>4
<1>3. ASSUME email' = email, history' = history
      PROVE  Grows
  BY <1>3 DEF Exists, Original
<1> QED
  BY <1>1, <1>2, <1>3
  DEF Next, vars, SetPassword, StartEmailChange, StartPasswordReset, ConsumePasswordReset

\* A row that was closed stays as it was closed, and every row stays its
\* customer's.
LEMMA ClosedStaysClosed ==
  ASSUME IInv, [Next]_vars, NEW k \in ChangeId, changes[k] # NoRow
  PROVE  /\ changes'[k] # NoRow /\ changes'[k].owner = changes[k].owner
         /\ changes[k].state # "issued" => changes'[k] = changes[k]
<1>1. KeptOrClosed(changes[k], changes'[k])
  <2>1. CASE UNCHANGED vars
    BY <2>1 DEF vars, KeptOrClosed
  <2>2. CASE ~UNCHANGED vars
    BY <2>2, StepsClose
  <2> QED
    BY <2>1, <2>2
<1>2. changes[k] \in ChangeRow
  BY DEF IInv, TypeOK
<1> QED
  BY <1>1, <1>2 DEF KeptOrClosed, SameIssue, ChangeRow

\* What a read has and will have of the answer stands when a door commits
\* between two of its statements.
LEMMA DoorsKeepWhatWasRead ==
  ASSUME ReadsIInv, [Next]_vars, ReadsTypeOK', reading' = reading
  PROVE  ReadsIInv'
<1>1. IInv'
  BY NextKeepsIInv DEF ReadsIInv
<1>2. ASSUME reading # NoReading
      PROVE  reading.c \in Customer /\ reading.liveAtStart \subseteq ChangeId
  BY <1>2 DEF ReadsIInv, ReadsTypeOK, Reading
<1>3. AddressRead'
  <2> SUFFICES ASSUME reading # NoReading
               PROVE  AddressRead'
    BY DEF AddressRead
  <2> DEFINE c == reading.c
  <2>1. c \in Customer /\ Exists(c) /\ IInv
    BY <1>2 DEF ReadsIInv, AddressRead
  <2>2. /\ Exists(c)' /\ Original(c)' = Original(c)
        /\ DOMAIN history[c] \subseteq DOMAIN history'[c]
        /\ \A i \in DOMAIN history[c] : history'[c][i] = history[c][i]
    BY <2>1, HistoryOnlyGrows
  <2>3. \A a : NamesAddress(history[c], a) => NamesAddress(history'[c], a)
    BY <2>2 DEF NamesAddress
  <2> QED
    BY <2>2, <2>3 DEF ReadsIInv, AddressRead
<1>4. ChangesRead'
  <2> SUFFICES ASSUME reading # NoReading, NEW k \in reading.liveAtStart
               PROVE  /\ changes'[k] # NoRow /\ changes'[k].owner = reading.c
                      /\ reading.next > 3 =>
                           \/ k \in reading.pending
                           \/ changes'[k].state \in {"redeemed", "cancelled"}
                      /\ reading.next > 4 =>
                           \/ k \in reading.pending
                           \/ NamesChange(reading.history, k)
                           \/ changes'[k].state = "cancelled"
    BY DEF ChangesRead
  <2>1. k \in ChangeId /\ changes[k] # NoRow /\ IInv
    BY <1>2 DEF ReadsIInv, ChangesRead
  <2>2. /\ changes'[k] # NoRow /\ changes'[k].owner = changes[k].owner
        /\ changes[k].state # "issued" => changes'[k] = changes[k]
    BY <2>1, ClosedStaysClosed
  <2> QED
    BY <2>2 DEF ReadsIInv, ChangesRead
<1> QED
  BY <1>1, <1>3, <1>4 DEF ReadsIInv

-----------------------------------------------------------------------------
(* The steps.                                                              *)

\* Nothing is read at the start.
LEMMA ReadsInitIInv == ReadsInit => ReadsIInv
<1> SUFFICES ASSUME ReadsInit
             PROVE  ReadsIInv
  OBVIOUS
<1>1. IInv
  BY InitIInv DEF ReadsInit
<1>2. Cardinality(Confirmer) \in Nat
  BY ConfirmersAreFinite, FS_CardinalityType
<1>3. openedAt \in [Confirmer -> 0..Cardinality(Confirmer)]
  BY <1>2 DEF ReadsInit
<1>4. ReadsTypeOK
  BY <1>1, <1>3 DEF ReadsInit, Init, ReadsTypeOK, IInv
<1> QED
  BY <1>1, <1>4 DEF ReadsInit, ReadsIInv, AddressRead, ChangesRead

\* The instant a transaction opens at is one of as many as there are confirmers.
LEMMA OpenStep ==
  ASSUME ReadsIInv, NEW s \in Confirmer, Open(s)
  PROVE  ReadsIInv'
<1>1. openedAt[s] = 0 /\ openedAt' = [openedAt EXCEPT ![s] = Cardinality(Opened) + 1]
      /\ UNCHANGED <<vars, spent, createdAt, reading>>
  BY DEF Open
<1>2. ReadsTypeOK /\ openedAt \in [Confirmer -> 0..Cardinality(Confirmer)]
  BY DEF ReadsIInv, ReadsTypeOK
<1>3. Cardinality(Opened) + 1 \in 1..Cardinality(Confirmer)
  <2>1. Opened \subseteq Confirmer \ {s}
    BY <1>1 DEF Opened
  <2>2. /\ IsFiniteSet(Confirmer \ {s})
        /\ Cardinality(Confirmer \ {s}) = Cardinality(Confirmer) - 1
        /\ Cardinality(Confirmer) \in Nat
    BY ConfirmersAreFinite, FS_CardinalityType, FS_RemoveElement
  <2>3. Cardinality(Opened) <= Cardinality(Confirmer \ {s}) /\ Cardinality(Opened) \in Nat
    BY <2>1, <2>2, FS_Subset, FS_CardinalityType
  <2> QED
    BY <2>2, <2>3
<1>4. openedAt' \in [Confirmer -> 0..Cardinality(Confirmer)] /\ Opened \subseteq Opened'
  BY <1>1, <1>2, <1>3 DEF Opened
<1>5. ReadsTypeOK'
  BY <1>1, <1>2, <1>4 DEF ReadsTypeOK, TypeOK, vars, Reading
<1>6. [Next]_vars
  BY <1>1
<1> QED
  BY <1>1, <1>5, <1>6, DoorsKeepWhatWasRead

\* A confirmation writes one history row and the instant of its transaction.
LEMMA ConfirmStep ==
  ASSUME ReadsIInv, NEW s \in Confirmer, NEW k \in ChangeId, NEW at \in Instant,
         Confirm(s, k, at)
  PROVE  ReadsIInv'
<1> DEFINE d == changes[k].owner
           row == NewHistory(email[d], changes[k], at, k)
<1>1. [Next]_vars
  BY DoorsAreSteps DEF ReadsNext
<1>2. IInv /\ ReadsTypeOK /\ IInv'
  BY <1>1, NextKeepsIInv DEF ReadsIInv
<1>3. s \in Opened \ spent /\ ConfirmEmailChange(k, at) /\ spent' = spent \cup {s}
      /\ createdAt' = [createdAt EXCEPT ![d] = Append(@, openedAt[s])]
      /\ UNCHANGED <<openedAt, reading>>
  BY DEF Confirm
<1>4. history' = [history EXCEPT ![d] = Append(@, row)] /\ d \in Customer
      /\ history \in [Customer -> Seq(HistoryRow)]
  BY <1>2, <1>3 DEF IInv, TypeOK, ConfirmEmailChange, Presentable, ChangeRow
<1>5. openedAt[s] \in 1..Cardinality(Confirmer)
  BY <1>2, <1>3 DEF ReadsTypeOK, Opened
<1>6. createdAt \in [Customer -> Seq(1..Cardinality(Confirmer))]
      /\ \A c \in Customer : Len(createdAt[c]) = Len(history[c])
  BY <1>2 DEF ReadsTypeOK
<1> HIDE DEF row, d
<1>7. createdAt' \in [Customer -> Seq(1..Cardinality(Confirmer))]
  BY <1>3, <1>4, <1>5, <1>6
<1>8. ASSUME NEW c \in Customer
      PROVE  Len(createdAt'[c]) = Len(history'[c])
  <2>1. CASE c # d
    BY <1>3, <1>4, <1>6, <2>1
  <2>2. CASE c = d
    <3>1. createdAt'[c] = Append(createdAt[c], openedAt[s]) /\ history'[c] = Append(history[c], row)
      BY <1>3, <1>4, <1>6, <2>2
    <3>2. createdAt[c] \in Seq(1..Cardinality(Confirmer)) /\ history[c] \in Seq(HistoryRow)
      BY <1>4, <1>6
    <3>3. Len(createdAt'[c]) = Len(createdAt[c]) + 1 /\ Len(history'[c]) = Len(history[c]) + 1
      BY <3>1, <3>2
    <3> QED
      BY <1>6, <3>3
  <2> QED
    BY <2>1, <2>2
<1>9. ReadsTypeOK'
  BY <1>2, <1>3, <1>7, <1>8 DEF ReadsTypeOK, IInv, Opened, Reading
<1> QED
  BY <1>1, <1>3, <1>9, DoorsKeepWhatWasRead

\* The other doors write no history.
LEMMA OtherDoorStep ==
  ASSUME ReadsIInv, OtherDoor
  PROVE  ReadsIInv'
<1>1. [Next]_vars
  BY DoorsAreSteps DEF ReadsNext
<1>2. IInv'
  BY <1>1, NextKeepsIInv DEF ReadsIInv
<1>3. history' = history /\ UNCHANGED readVars
  BY DEF OtherDoor, CreateAccount, SetPassword, StartEmailChange
<1>4. ReadsTypeOK'
  BY <1>2, <1>3 DEF ReadsIInv, ReadsTypeOK, IInv, readVars, Opened, Reading
<1> QED
  BY <1>1, <1>3, <1>4, DoorsKeepWhatWasRead DEF readVars

\* The read starts at a customer who exists, with what is pending there.
LEMMA ShowStep ==
  ASSUME ReadsIInv, NEW c \in Customer, Show(c)
  PROVE  ReadsIInv'
<1> DEFINE r == [c |-> c, next |-> 1, liveAtStart |-> Outstanding(changes, c),
                 email |-> NoAddress, hasCredential |-> FALSE, pending |-> {},
                 history |-> << >>]
<1>1. reading' = r /\ Exists(c) /\ UNCHANGED <<vars, openedAt, spent, createdAt>>
  BY DEF Show
<1>2. IInv /\ ReadsTypeOK /\ changes \in [ChangeId -> ChangeRow \cup {NoRow}]
  BY DEF ReadsIInv, IInv, TypeOK
<1>3. IInv'
  BY <1>1, <1>2, NextKeepsIInv
<1>4. Outstanding(changes, c) \subseteq ChangeId
      /\ \A k \in Outstanding(changes, c) : changes[k] # NoRow /\ changes[k].owner = c
  BY <1>2 DEF Outstanding
<1>5. r \in Reading /\ r.c = c /\ r.next = 1 /\ r.liveAtStart = Outstanding(changes, c)
  BY <1>4 DEF Reading, ShowOrder
<1> HIDE DEF r
<1>6. ReadsTypeOK'
  BY <1>1, <1>2, <1>3, <1>5 DEF ReadsTypeOK, IInv, vars, Opened, Reading
<1>7. AddressRead' /\ ChangesRead'
  BY <1>1, <1>4, <1>5 DEF AddressRead, ChangesRead, Exists, vars
<1> QED
  BY <1>3, <1>6, <1>7 DEF ReadsIInv

\* Nothing is under way once the account is printed.
LEMMA RenderStep ==
  ASSUME ReadsIInv, Render
  PROVE  ReadsIInv'
<1>1. reading' = NoReading /\ UNCHANGED <<vars, openedAt, spent, createdAt>>
  BY DEF Render
<1>2. IInv'
  BY <1>1, NextKeepsIInv DEF ReadsIInv
<1>3. ReadsTypeOK'
  BY <1>1, <1>2 DEF ReadsIInv, ReadsTypeOK, IInv, vars, Opened, Reading
<1> QED
  BY <1>1, <1>2, <1>3 DEF ReadsIInv, AddressRead, ChangesRead

\* The address in effect is the original one or the last the history names.
LEMMA AddressIsOnRecord ==
  ASSUME IInv, NEW c \in Customer
  PROVE  email[c] = Original(c) \/ NamesAddress(history[c], email[c])
<1> DEFINE h == history[c]
<1>1. h \in Seq(HistoryRow)
  BY DEF IInv, TypeOK
<1>2. CASE h = << >>
  BY <1>2 DEF Original
<1>3. CASE h # << >>
  <2>1. Len(h) \in 1..Len(h) /\ Len(h) \in DOMAIN h
    BY <1>1, <1>3
  <2>2. h[Len(h)].to = email[c]
    BY <2>1 DEF IInv, HistoryIsAChain
  <2> QED
    BY <2>1, <2>2 DEF NamesAddress
<1> QED
  BY <1>2, <1>3

\* What was live when the read began and is redeemed is in the history by then.
LEMMA RedeemedIsOnRecord ==
  ASSUME IInv, NEW k \in ChangeId, changes[k] # NoRow, changes[k].state = "redeemed"
  PROVE  NamesChange(history[changes[k].owner], k)
<1> DEFINE h == history[changes[k].owner]
<1>1. PICK i \in 1..Len(h) : h[i].change = k
  BY DEF IInv, RedeemedChangesAreTheHistory
<1>2. h \in Seq(HistoryRow)
  BY DEF IInv, TypeOK, ChangeRow
<1> QED
  BY <1>1, <1>2 DEF NamesChange

\* The read takes four statements.
LEMMA FourStatements ==
  /\ Len(ShowOrder) = 4
  /\ ShowOrder[1] = "customer" /\ ShowOrder[2] = "credential"
  /\ ShowOrder[3] = "pending" /\ ShowOrder[4] = "history"
  /\ Reading = [c : Customer, next : 1..5, liveAtStart : SUBSET ChangeId,
                email : Address \cup {NoAddress}, hasCredential : BOOLEAN,
                pending : SUBSET ChangeId, history : Seq(HistoryRow)]
<1>1. Len(ShowOrder) = 4
  BY DEF ShowOrder
<1>2. ShowOrder[1] = "customer" /\ ShowOrder[2] = "credential"
      /\ ShowOrder[3] = "pending" /\ ShowOrder[4] = "history"
  BY DEF ShowOrder
<1>3. 1..(Len(ShowOrder) + 1) = 1..5
  BY <1>1
<1> QED
  BY <1>1, <1>2, <1>3 DEF Reading

\* One statement of the read: what it reads is of the tables as they are now.
LEMMA SelectStep ==
  ASSUME ReadsIInv, Select
  PROVE  ReadsIInv'
<1>1. UNCHANGED <<vars, openedAt, spent, createdAt>> /\ IInv /\ ReadsTypeOK
  BY DEF Select, ReadsIInv
<1>2. IInv'
  BY <1>1, NextKeepsIInv
<1>3. reading # NoReading /\ reading \in Reading /\ reading.next \in 1..4
  BY <1>1, FourStatements DEF Select, Reads, ReadsTypeOK, Reading
<1> DEFINE c == reading.c
<1>4. c \in Customer /\ reading.liveAtStart \subseteq ChangeId
  BY <1>3 DEF Reading
<1>5. ASSUME reading' \in Reading, reading'.c = reading.c,
             reading'.liveAtStart = reading.liveAtStart, AddressRead', ChangesRead'
      PROVE  ReadsIInv'
  <2>1. ReadsTypeOK'
    BY <1>1, <1>2, <1>5 DEF ReadsTypeOK, IInv, vars, Opened, Reading
  <2> QED
    BY <1>2, <1>5, <2>1 DEF ReadsIInv
<1>6. /\ Exists(c)
      /\ reading.next > 1 =>
           reading.email = Original(c) \/ NamesAddress(history[c], reading.email)
      /\ \A k \in reading.liveAtStart :
           /\ changes[k] # NoRow /\ changes[k].owner = c
           /\ reading.next > 3 =>
                k \in reading.pending \/ changes[k].state \in {"redeemed", "cancelled"}
  BY <1>3 DEF ReadsIInv, AddressRead, ChangesRead
<1>7. email' = email /\ history' = history /\ changes' = changes
  BY <1>1 DEF vars
<1>8. /\ changes \in [ChangeId -> ChangeRow \cup {NoRow}]
      /\ email[c] \in Address \cup {NoAddress}
      /\ HasCredential(credential[c]) \in BOOLEAN
      /\ history[c] \in Seq(HistoryRow)
  BY <1>1, <1>4 DEF IInv, TypeOK, HasCredential
<1> DEFINE n == [reading EXCEPT !.next = @ + 1]
<1>9. /\ n \in Reading /\ n.c = c /\ n.next = reading.next + 1
      /\ n.liveAtStart = reading.liveAtStart /\ n.email = reading.email
      /\ n.pending = reading.pending
  BY <1>3, FourStatements
<1>10. CASE Reads("customer")
  <2> DEFINE r == [n EXCEPT !.email = email[c]]
  <2>1. reading.next = 1 /\ reading' = r
    BY <1>3, <1>10, FourStatements DEF Select, Reads
  <2> HIDE DEF n
  <2>2. r \in Reading /\ r.c = c /\ r.liveAtStart = reading.liveAtStart /\ r.next = 2
        /\ r.email = email[c]
    BY <1>8, <1>9, <2>1, FourStatements
  <2> HIDE DEF r
  <2>3. email[c] = Original(c) \/ NamesAddress(history[c], email[c])
    BY <1>1, <1>4, AddressIsOnRecord
  <2>4. AddressRead'
    BY <1>6, <1>7, <2>1, <2>2, <2>3 DEF AddressRead, Exists, Original, NamesAddress
  <2>5. ChangesRead'
    BY <1>6, <1>7, <2>1, <2>2 DEF ChangesRead
  <2> QED
    BY <1>5, <2>1, <2>2, <2>4, <2>5
<1>11. CASE Reads("credential")
  <2> DEFINE r == [n EXCEPT !.hasCredential = HasCredential(credential[c])]
  <2>1. reading.next = 2 /\ reading' = r
    BY <1>3, <1>11, FourStatements DEF Select, Reads
  <2> HIDE DEF n
  <2>2. r \in Reading /\ r.c = c /\ r.liveAtStart = reading.liveAtStart /\ r.next = 3
        /\ r.email = reading.email
    BY <1>8, <1>9, <2>1, FourStatements
  <2> HIDE DEF r
  <2>3. AddressRead'
    BY <1>6, <1>7, <2>1, <2>2 DEF AddressRead, Exists, Original, NamesAddress
  <2>4. ChangesRead'
    BY <1>6, <1>7, <2>1, <2>2 DEF ChangesRead
  <2> QED
    BY <1>5, <2>1, <2>2, <2>3, <2>4
<1>12. CASE Reads("pending")
  <2> DEFINE r == [n EXCEPT !.pending = Outstanding(changes, c)]
  <2>1. reading.next = 3 /\ reading' = r
    BY <1>3, <1>12, FourStatements DEF Select, Reads
  <2> HIDE DEF n
  <2>2. Outstanding(changes, c) \subseteq ChangeId
    BY <1>8 DEF Outstanding
  <2>3. r \in Reading /\ r.c = c /\ r.liveAtStart = reading.liveAtStart /\ r.next = 4
        /\ r.email = reading.email /\ r.pending = Outstanding(changes, c)
    BY <1>9, <2>1, <2>2, FourStatements
  <2> HIDE DEF r
  <2>4. AddressRead'
    BY <1>6, <1>7, <2>1, <2>3 DEF AddressRead, Exists, Original, NamesAddress
  <2>5. ASSUME NEW k \in reading.liveAtStart, k \notin Outstanding(changes, c)
        PROVE  changes[k].state \in {"redeemed", "cancelled"}
    <3>1. k \in ChangeId /\ changes[k] \in ChangeRow /\ changes[k].owner = c
          /\ changes[k] # NoRow
      BY <1>4, <1>6, <1>8
    <3> QED
      BY <1>8, <2>5, <3>1 DEF Outstanding, ChangeRow, TokenState
  <2>6. ChangesRead'
    BY <1>6, <1>7, <2>1, <2>3, <2>5 DEF ChangesRead
  <2> QED
    BY <1>5, <2>1, <2>3, <2>4, <2>6
<1>13. CASE Reads("history")
  <2> DEFINE r == [n EXCEPT !.history = history[c]]
  <2>1. reading.next = 4 /\ reading' = r
    BY <1>3, <1>13, FourStatements DEF Select, Reads
  <2> HIDE DEF n
  <2>2. r \in Reading /\ r.c = c /\ r.liveAtStart = reading.liveAtStart /\ r.next = 5
        /\ r.email = reading.email /\ r.pending = reading.pending /\ r.history = history[c]
    BY <1>8, <1>9, <2>1, FourStatements
  <2> HIDE DEF r
  <2>3. AddressRead'
    BY <1>6, <1>7, <2>1, <2>2 DEF AddressRead, Exists, Original, NamesAddress
  <2>4. \A k \in reading.liveAtStart :
          changes[k].state = "redeemed" => NamesChange(history[c], k)
    BY <1>1, <1>4, <1>6, RedeemedIsOnRecord
  <2>5. ChangesRead'
    BY <1>6, <1>7, <2>1, <2>2, <2>4 DEF ChangesRead, NamesChange
  <2> QED
    BY <1>5, <2>1, <2>2, <2>3, <2>5
<1> QED
  BY <1>10, <1>11, <1>12, <1>13 DEF Select

\* Every step of the doors and of the read keeps the invariant.
LEMMA ReadsNextKeepsIInv == ReadsIInv /\ [ReadsNext]_allVars => ReadsIInv'
<1> SUFFICES ASSUME ReadsIInv, [ReadsNext]_allVars
             PROVE  ReadsIInv'
  OBVIOUS
<1>1. ASSUME NEW s \in Confirmer, Open(s)
      PROVE  ReadsIInv'
  BY <1>1, OpenStep
<1>2. ASSUME NEW s \in Confirmer, NEW k \in ChangeId, NEW at \in Instant, Confirm(s, k, at)
      PROVE  ReadsIInv'
  BY <1>2, ConfirmStep
<1>3. ASSUME NEW c \in Customer, Show(c)
      PROVE  ReadsIInv'
  BY <1>3, ShowStep
<1>4. CASE Select
  BY <1>4, SelectStep
<1>5. CASE Render
  BY <1>5, RenderStep
<1>6. CASE OtherDoor
  BY <1>6, OtherDoorStep
<1>7. CASE UNCHANGED allVars
  <2>1. UNCHANGED vars /\ UNCHANGED readVars
    BY <1>7 DEF allVars
  <2>2. ReadsTypeOK'
    BY <2>1 DEF ReadsIInv, ReadsTypeOK, TypeOK, vars, readVars, Opened, Reading
  <2> QED
    BY <2>1, <2>2, DoorsKeepWhatWasRead DEF readVars
<1> QED
  BY <1>1, <1>2, <1>3, <1>4, <1>5, <1>6, <1>7 DEF ReadsNext

-----------------------------------------------------------------------------
(* What follows from it.                                                   *)

\* The invariant holds in every reachable state of the doors and the read.
THEOREM ReadsInvariance == ReadsSpec => []ReadsIInv
<1> QED
  BY ReadsInitIInv, ReadsNextKeepsIInv, PTL DEF ReadsSpec

\* The read, the instants and the histories they stamp stay of their types: no
\* transaction opens at more instants than there are confirmers.
THEOREM ReadsTypeCorrect == ReadsSpec => []ReadsTypeOK
<1>1. ReadsIInv => ReadsTypeOK
  BY DEF ReadsIInv
<1> QED
  BY <1>1, ReadsInvariance, PTL

\* show_account reads the customer first and the history last: the address it
\* prints is the original one or one the history it prints names.
THEOREM TheAddressIsInTheAnswer == ReadsSpec => []ShownAddressIsInTheShownHistory
<1>1. ReadsIInv => ShownAddressIsInTheShownHistory
  BY DEF ReadsIInv, ReadsTypeOK, AddressRead, ShownAddressIsInTheShownHistory, Shown, ShowOrder,
     Reading, Original, NamesAddress
<1> QED
  BY <1>1, ReadsInvariance, PTL

\* show_account reads the pending changes before the history: a change confirmed
\* between the two statements is not lost from the answer.
THEOREM NoChangeVanishes == ReadsSpec => []NoChangeVanishesFromTheAnswer
<1>1. ReadsIInv => NoChangeVanishesFromTheAnswer
  BY DEF ReadsIInv, ReadsTypeOK, ChangesRead, NoChangeVanishesFromTheAnswer, Shown, ShowOrder,
     Reading, NamesChange
<1> QED
  BY <1>1, ReadsInvariance, PTL

\* ORDER BY changed_at, created_at, id puts a row that is later than all others
\* by changed_at last, and the confirmations never go back in time: that row
\* names the address in effect.
THEOREM TheLatestRowIsInEffect == ReadsSpec => []LatestRowIsTheAddress
<1>1. ReadsIInv => LatestRowIsTheAddress
  <2> SUFFICES ASSUME IInv, NEW c \in Customer, NEW i \in DOMAIN history[c],
                      \A j \in DOMAIN history[c] \ {i} :
                        history[c][j].changedAt < history[c][i].changedAt
               PROVE  LastRead(c) = i /\ history[c][i].to = email[c]
    BY DEF ReadsIInv, LatestRowIsTheAddress
  <2> DEFINE h == history[c]
  <2>1. h \in Seq(HistoryRow) /\ DOMAIN h = 1..Len(h) /\ Len(h) \in Nat
    BY DEF IInv, TypeOK
  <2>2. \A j \in DOMAIN h : h[j].changedAt \in Int
    <3>1. \A j \in DOMAIN h : h[j] \in HistoryRow
      BY <2>1
    <3> QED
      BY <3>1, InstantsAreWhole DEF HistoryRow
  <2>3. i = Len(h)
    <3> SUFFICES ASSUME i # Len(h)
                 PROVE  FALSE
      OBVIOUS
    <3>1. i + 1 \in DOMAIN h \ {i}
      BY <2>1
    <3>2. h[i].changedAt <= h[i + 1].changedAt
      BY <2>1 DEF IInv, HistoryIsAChain
    <3> QED
      BY <2>2, <3>1, <3>2
  <2>4. h[i].to = email[c]
    BY <2>1, <2>3 DEF IInv, HistoryIsAChain
  <2>5. \A j \in DOMAIN h \ {i} : ReadAfter(c, i, j) /\ ~ReadAfter(c, j, i)
    BY <2>2 DEF ReadAfter
  <2>6. LastRead(c) = i
    BY <2>5 DEF LastRead
  <2> QED
    BY <2>4, <2>6
<1> QED
  BY <1>1, ReadsInvariance, PTL
=============================================================================
