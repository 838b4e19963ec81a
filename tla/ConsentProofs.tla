---------------------------- MODULE ConsentProofs ----------------------------
(***************************************************************************)
(* Theorems about Consent, for any number of sessions, customers, channels *)
(* and --channel options: the record of consent is what the customer was   *)
(* shown, and the read of it tears nowhere.                                *)
(***************************************************************************)
EXTENDS Consent, TLAPS

-----------------------------------------------------------------------------
(* The inductive invariant.                                                *)

Transaction ==
  [c : Customer \cup {NoCustomer}, id : AcceptanceId \cup {NoAcceptance},
   new : BOOLEAN, next : {"customer", "acceptance", "channels"},
   left : SUBSET ChannelRow, wrote : SUBSET ChannelRow]

RowsFor(rows, a) == {row \in rows : row.acceptance = a}

\* The rows of an acceptance are those of the options it was made from, and no
\* option was given twice.
MadeFrom(rows, a) ==
  ~Repeated(given[a]) /\ rows = RowsOf(a, Collapsed(given[a]))

\* What a door under way has written and what it has left are what it was given;
\* nothing of it is committed, and its key is its own.
DoorOK(s) ==
  LET a == tx[s].id
  IN  Running(s) =>
        /\ tx[s].c \in Customer
        /\ acceptances[a] = NoCustomer
        /\ RowsFor(channels, a) = {}
        /\ MadeFrom(tx[s].left \cup tx[s].wrote, a)
        /\ tx[s].next = "channels" => CustomerFound(s)

KeysAreApart ==
  \A s, q \in Session : s # q /\ Running(s) => tx[s].id # tx[q].id

RecordOK ==
  \A a \in AcceptanceId :
    IF acceptances[a] # NoCustomer THEN MadeFrom(RowsFor(channels, a), a)
                                   ELSE RowsFor(channels, a) = {}

\* What a read has listed is committed for good, and what it has read of it is
\* all there is.
ReadingOK ==
  /\ reading.left \subseteq reading.listed
  /\ \A a \in reading.listed : acceptances[a] # NoCustomer
  /\ \A a \in reading.listed \ reading.left :
       RowsFor(reading.shown, a) = RowsFor(channels, a)
  /\ \A a \in reading.left : RowsFor(reading.shown, a) = {}

IInv ==
  /\ TypeOK
  /\ tx \in [Session -> Transaction]
  /\ \A s \in Session : DoorOK(s)
  /\ KeysAreApart
  /\ AccountsAreThoseWithTerms
  /\ RecordOK
  /\ ReadingOK

-----------------------------------------------------------------------------
(* The options and the rows.                                               *)

\* Where no name is given twice the dict holds every option.
LEMMA NothingCollapses ==
  ASSUME NEW pairs \in Pairs, ~Repeated(pairs)
  PROVE  Collapsed(pairs) = {pairs[i] : i \in DOMAIN pairs}
<1>1. PICK m \in 0..MaxPairs : pairs \in [1..m -> Pair]
  BY DEF Pairs, SeqOf
<1>2. DOMAIN pairs = 1..m
  BY <1>1
<1>3. \A j, k \in 1..m : pairs[k].name = pairs[j].name => k = j
  BY <1>2 DEF Repeated
<1>4. {j \in 1..m : \A k \in 1..m : pairs[k].name = pairs[j].name => k <= j} = 1..m
  BY <1>3
<1> QED
  BY <1>2, <1>4 DEF Collapsed

\* Rows made from options given once each are what was given.
LEMMA MadeFromIsWhatWasGiven ==
  ASSUME NEW a \in AcceptanceId, NEW rows, given[a] \in Pairs, MadeFrom(rows, a)
  PROVE  AreWhatWasGiven(rows, a)
<1> DEFINE pairs == given[a]
<1>1. Collapsed(pairs) = {pairs[i] : i \in DOMAIN pairs}
  BY NothingCollapses DEF MadeFrom
<1>2. PICK m \in 0..MaxPairs : pairs \in [1..m -> Pair]
  BY DEF Pairs, SeqOf
<1>3. \A i \in DOMAIN pairs : pairs[i] \in Pair
  BY <1>2
<1>4. \A i \in DOMAIN pairs :
        [acceptance |-> a, channel |-> pairs[i].name, text |-> pairs[i].text] \in rows
  BY <1>1 DEF MadeFrom, RowsOf
<1>5. ASSUME NEW row \in rows
      PROVE  [name |-> row.channel, text |-> row.text] \in ToSet(pairs)
  <2>1. PICK i \in DOMAIN pairs :
          row = [acceptance |-> a, channel |-> pairs[i].name, text |-> pairs[i].text]
    BY <1>1, <1>5 DEF MadeFrom, RowsOf
  <2>2. pairs[i] \in Pair
    BY <1>3
  <2>3. [name |-> row.channel, text |-> row.text] = pairs[i]
    BY <2>1, <2>2 DEF Pair
  <2> QED
    BY <2>3 DEF ToSet
<1> QED
  BY <1>4, <1>5 DEF AreWhatWasGiven

\* Rows made from the options of an acceptance are that acceptance's.
LEMMA MadeFromIsOfOne ==
  ASSUME NEW a, NEW rows, MadeFrom(rows, a)
  PROVE  RowsFor(rows, a) = rows /\ \A b : b # a => RowsFor(rows, b) = {}
<1>1. \A row \in rows : row.acceptance = a
  BY DEF MadeFrom, RowsOf
<1> QED
  BY <1>1 DEF RowsFor

-----------------------------------------------------------------------------
(* The steps.                                                              *)

\* Nothing is on record at the start.
LEMMA InitIInv == Init => IInv
<1> SUFFICES ASSUME Init
             PROVE  IInv
  OBVIOUS
<1>1. << >> \in Pairs
  BY PairsAreBounded DEF Pairs, SeqOf
<1>2. Idle \in Transaction
  BY DEF Idle, Transaction
<1>3. tx \in [Session -> Transaction]
  BY <1>2 DEF Init
<1>4. TypeOK
  BY <1>1, <1>3 DEF Init, TypeOK, NoReading, Transaction
<1>5. \A s \in Session : ~Running(s)
  BY DEF Init, Running, Idle
<1>6. (\A s \in Session : DoorOK(s)) /\ KeysAreApart
  BY <1>5 DEF DoorOK, KeysAreApart
<1>7. AccountsAreThoseWithTerms /\ RecordOK
  BY DEF Init, AccountsAreThoseWithTerms, RecordOK, RowsFor
<1>8. ReadingOK
  BY DEF Init, ReadingOK, NoReading
<1> QED
  BY <1>3, <1>4, <1>6, <1>7, <1>8 DEF IInv

\* A step of one door that commits nothing keeps the invariant when the door
\* fits it, and the options it changes belong to no acceptance and no other door.
LEMMA OneDoorMoves ==
  ASSUME IInv, NEW s \in Session, TypeOK', NEW t \in Transaction, tx' = [tx EXCEPT ![s] = t],
         UNCHANGED <<customers, acceptances, channels, reading>>,
         \A a \in AcceptanceId : given'[a] # given[a] =>
           acceptances[a] = NoCustomer /\ \A q \in Session \ {s} : tx[q].id # a,
         DoorOK(s)',
         t.id # NoAcceptance => \A q \in Session \ {s} : tx[q].id # t.id
  PROVE  IInv'
<1>1. tx' \in [Session -> Transaction]
  BY DEF IInv
<1>2. tx'[s] = t /\ \A q \in Session \ {s} : tx'[q] = tx[q]
  BY DEF IInv
<1>3. ASSUME NEW q \in Session
      PROVE  DoorOK(q)'
  <2>1. CASE q = s
    BY <2>1
  <2>2. CASE q # s
    <3> SUFFICES ASSUME Running(q)'
                 PROVE  DoorOK(q)'
      BY DEF DoorOK
    <3>1. tx'[q] = tx[q] /\ tx[q].id # NoAcceptance
      BY <1>2, <2>2 DEF Running
    <3>2. tx[q].id \in AcceptanceId
      BY <3>1 DEF IInv, Transaction
    <3>3. given'[tx[q].id] = given[tx[q].id]
      BY <2>2, <3>2
    <3> QED
      BY <3>1, <3>3 DEF IInv, DoorOK, Running, MadeFrom, CustomerFound
  <2> QED
    BY <2>1, <2>2
<1>4. KeysAreApart'
  <2> SUFFICES ASSUME NEW q \in Session, NEW r \in Session, q # r, Running(q)'
               PROVE  tx'[q].id # tx'[r].id
    BY DEF KeysAreApart
  <2>1. CASE q = s
    BY <1>2, <2>1 DEF Running
  <2>2. CASE r = s
    BY <1>2, <2>2 DEF Running
  <2>3. CASE q # s /\ r # s
    BY <1>2, <2>3 DEF IInv, KeysAreApart, Running
  <2> QED
    BY <2>1, <2>2, <2>3
<1>5. AccountsAreThoseWithTerms'
  BY DEF IInv, AccountsAreThoseWithTerms
<1>6. RecordOK'
  <2> SUFFICES ASSUME NEW a \in AcceptanceId
               PROVE  IF acceptances[a] # NoCustomer THEN MadeFrom(RowsFor(channels, a), a)'
                                                     ELSE RowsFor(channels, a) = {}
    BY DEF RecordOK, RowsFor
  <2>1. acceptances[a] # NoCustomer => given'[a] = given[a]
    OBVIOUS
  <2> QED
    BY <2>1 DEF IInv, RecordOK, MadeFrom, RowsFor
<1>7. ReadingOK'
  BY DEF IInv, ReadingOK, RowsFor
<1> QED
  BY <1>1, <1>3, <1>4, <1>5, <1>6, <1>7 DEF IInv

\* A door begins only with options that nothing collapses, for a key of its own.
LEMMA BeginStep ==
  ASSUME IInv, NEW s \in Session, NEW c \in Customer, NEW a \in AcceptanceId,
         NEW pairs \in Pairs, NEW first \in {"customer", "acceptance"}, NEW new \in BOOLEAN,
         Begin(s, first, new, c, a, pairs)
  PROVE  IInv'
<1> DEFINE rows == RowsOf(a, Collapsed(pairs))
           t == [Idle EXCEPT !.c = c, !.id = a, !.new = new, !.next = first, !.left = rows]
<1>1. given' = [given EXCEPT ![a] = pairs] /\ UNCHANGED <<customers, acceptances, channels, reading>>
  BY DEF Begin
<1>2. tx' = [tx EXCEPT ![s] = t]
  BY DEF Begin
<1>3. rows \in SUBSET ChannelRow
  <2>1. Collapsed(pairs) = {pairs[i] : i \in DOMAIN pairs}
    BY NothingCollapses DEF Begin
  <2>2. PICK m \in 0..MaxPairs : pairs \in [1..m -> Pair]
    BY DEF Pairs, SeqOf
  <2>3. \A pair \in Collapsed(pairs) : pair \in Pair /\ pair.name \in Channel /\ pair.text # BlankText
    BY <2>1, <2>2 DEF Begin, Buildable
  <2> QED
    BY <2>3 DEF RowsOf, ChannelRow, Pair
<1>4. t \in Transaction
  <2> HIDE DEF rows
  <2> QED
    BY <1>3 DEF Transaction, Idle
<1>5. TypeOK /\ given \in [AcceptanceId -> Pairs] /\ tx \in [Session -> Transaction]
  BY DEF IInv, TypeOK
<1>6. given'[a] = pairs /\ \A b \in AcceptanceId \ {a} : given'[b] = given[b]
  BY <1>1, <1>5
<1>7. tx'[s] = t
  BY <1>2, <1>5
<1>8. acceptances[a] = NoCustomer /\ \A q \in Session : tx[q].id # a
  BY DEF Begin, Drawn
<1>9. TypeOK'
  <2>1. given' \in [AcceptanceId -> Pairs]
    BY <1>1, <1>5
  <2>2. tx' \in [Session -> Transaction]
    BY <1>2, <1>4, <1>5
  <2> QED
    BY <1>1, <1>5, <2>1, <2>2 DEF TypeOK, Transaction
<1>10. DoorOK(s)'
  <2>1. t.c = c /\ t.id = a /\ t.left \cup t.wrote = rows /\ t.next # "channels"
    BY DEF Idle
  <2>2. MadeFrom(rows, a)'
    BY <1>6 DEF MadeFrom, Begin, Repeated, RowsOf, Collapsed
  <2>3. RowsFor(channels, a) = {}
    BY <1>8 DEF IInv, RecordOK
  <2> HIDE DEF t
  <2> QED
    BY <1>1, <1>7, <1>8, <2>1, <2>2, <2>3 DEF DoorOK, RowsFor
<1>11. t.id = a
  BY DEF Idle
<1> HIDE DEF t
<1> QED
  BY <1>1, <1>2, <1>4, <1>6, <1>8, <1>9, <1>10, <1>11, OneDoorMoves

\* A door that goes on, with the same rows to write and the same customer.
LEMMA OneDoorGoesOn ==
  ASSUME IInv, NEW s \in Session, Running(s), NEW t \in Transaction, tx' = [tx EXCEPT ![s] = t],
         UNCHANGED <<customers, acceptances, channels, given, reading>>,
         t.c = tx[s].c, t.id = tx[s].id, t.new = tx[s].new,
         t.left \cup t.wrote = tx[s].left \cup tx[s].wrote,
         t.next = "channels" => CustomerFound(s)
  PROVE  IInv'
<1>1. tx' \in [Session -> Transaction] /\ tx'[s] = t
  BY DEF IInv
<1>2. TypeOK'
  BY <1>1 DEF IInv, TypeOK, Transaction
<1>3. DoorOK(s)'
  BY <1>1 DEF IInv, DoorOK, Running, MadeFrom, CustomerFound, RowsFor
<1>4. t.id # NoAcceptance /\ \A q \in Session \ {s} : tx[q].id # t.id
  BY DEF IInv, KeysAreApart, Running
<1> QED
  BY <1>2, <1>3, <1>4, OneDoorMoves

\* Each statement moves its door on to the next.
LEMMA InsertCustomerStep ==
  ASSUME IInv, NEW s \in Session, InsertCustomer(s)
  PROVE  IInv'
<1> DEFINE t == [tx[s] EXCEPT !.next = "acceptance"]
<1>1. tx[s] \in Transaction /\ Running(s)
  BY DEF IInv, InsertCustomer, NextIs
<1>2. t \in Transaction /\ t.c = tx[s].c /\ t.id = tx[s].id /\ t.new = tx[s].new
      /\ t.left = tx[s].left /\ t.wrote = tx[s].wrote /\ t.next # "channels"
  BY <1>1 DEF Transaction
<1>3. tx' = [tx EXCEPT ![s] = t] /\ UNCHANGED <<customers, acceptances, channels, given, reading>>
  BY DEF InsertCustomer
<1> HIDE DEF t
<1> QED
  BY <1>1, <1>2, <1>3, OneDoorGoesOn

\* The acceptance is inserted only for a customer who was found.
LEMMA InsertAcceptanceStep ==
  ASSUME IInv, NEW s \in Session, InsertAcceptance(s)
  PROVE  IInv'
<1> DEFINE t == [tx[s] EXCEPT !.next = "channels"]
<1>1. tx[s] \in Transaction /\ Running(s) /\ CustomerFound(s)
  BY DEF IInv, InsertAcceptance, NextIs
<1>2. t \in Transaction /\ t.c = tx[s].c /\ t.id = tx[s].id /\ t.new = tx[s].new
      /\ t.left = tx[s].left /\ t.wrote = tx[s].wrote
  BY <1>1 DEF Transaction
<1>3. tx' = [tx EXCEPT ![s] = t] /\ UNCHANGED <<customers, acceptances, channels, given, reading>>
  BY DEF InsertAcceptance
<1> HIDE DEF t
<1> QED
  BY <1>1, <1>2, <1>3, OneDoorGoesOn

\* A channel row goes from what is left to what is written.
LEMMA InsertChannelStep ==
  ASSUME IInv, NEW s \in Session, InsertChannel(s)
  PROVE  IInv'
<1>1. PICK row \in tx[s].left :
        tx' = [tx EXCEPT ![s].left = @ \ {row}, ![s].wrote = @ \cup {row}]
  BY DEF InsertChannel
<1> DEFINE t == [tx[s] EXCEPT !.left = @ \ {row}, !.wrote = @ \cup {row}]
<1>2. tx[s] \in Transaction /\ tx \in [Session -> Transaction] /\ Running(s)
      /\ tx[s].next = "channels"
  BY DEF IInv, InsertChannel, NextIs
<1>3. row \in ChannelRow
  BY <1>2 DEF Transaction
<1>4. t \in Transaction /\ t.c = tx[s].c /\ t.id = tx[s].id /\ t.new = tx[s].new
      /\ t.left = tx[s].left \ {row} /\ t.wrote = tx[s].wrote \cup {row}
  BY <1>2, <1>3 DEF Transaction
<1>5. tx' = [tx EXCEPT ![s] = t] /\ UNCHANGED <<customers, acceptances, channels, given, reading>>
  BY <1>1, <1>2 DEF InsertChannel
<1>6. CustomerFound(s)
  BY <1>2 DEF IInv, DoorOK
<1> HIDE DEF t
<1>7. t.left \cup t.wrote = tx[s].left \cup tx[s].wrote
  BY <1>4
<1> QED
  BY <1>2, <1>4, <1>5, <1>6, <1>7, OneDoorGoesOn

\* A door that ends without a commit leaves nothing behind.
LEMMA AbortStep ==
  ASSUME IInv, NEW s \in Session, Abort(s)
  PROVE  IInv'
<1>1. Idle \in Transaction /\ Idle.id = NoAcceptance
  BY DEF Idle, Transaction
<1>2. tx' = [tx EXCEPT ![s] = Idle] /\ UNCHANGED <<customers, acceptances, channels, given, reading>>
  BY DEF Abort
<1>3. tx' \in [Session -> Transaction] /\ tx'[s] = Idle
  BY <1>1, <1>2 DEF IInv
<1>4. TypeOK'
  BY <1>2, <1>3 DEF IInv, TypeOK, Transaction
<1>5. DoorOK(s)'
  BY <1>1, <1>3 DEF DoorOK, Running
<1> QED
  BY <1>1, <1>2, <1>4, <1>5, OneDoorMoves

\* A commit puts the acceptance on record with every row of it, and with its
\* account if it is new.
LEMMA CommitStep ==
  ASSUME IInv, NEW s \in Session, Commit(s)
  PROVE  IInv'
<1> DEFINE a == tx[s].id
           c == tx[s].c
<1>1. tx \in [Session -> Transaction] /\ tx[s] \in Transaction /\ DoorOK(s) /\ TypeOK
      /\ acceptances \in [AcceptanceId -> Customer \cup {NoCustomer}]
  BY DEF IInv, TypeOK
<1>2. Running(s) /\ tx[s].next = "channels" /\ tx[s].left = {}
  BY DEF Commit, Finished
<1>3. a \in AcceptanceId /\ c \in Customer /\ c # NoCustomer /\ tx[s].wrote \subseteq ChannelRow
  BY <1>1, <1>2, NullsAreApart DEF Transaction, Running, DoorOK
<1>4. acceptances[a] = NoCustomer /\ RowsFor(channels, a) = {} /\ MadeFrom(tx[s].wrote, a)
  BY <1>1, <1>2 DEF DoorOK
<1>5. customers' = customers \cup (IF tx[s].new THEN {c} ELSE {})
      /\ acceptances' = [acceptances EXCEPT ![a] = c]
      /\ channels' = channels \cup tx[s].wrote
      /\ tx' = [tx EXCEPT ![s] = Idle]
      /\ UNCHANGED <<given, reading>>
  BY <1>2 DEF Commit
<1>6. Idle \in Transaction /\ Idle.id = NoAcceptance
  BY DEF Idle, Transaction
<1>7. tx' \in [Session -> Transaction] /\ tx'[s] = Idle
      /\ \A q \in Session \ {s} : tx'[q] = tx[q]
  BY <1>1, <1>5, <1>6
<1>8. acceptances'[a] = c /\ \A b \in AcceptanceId \ {a} : acceptances'[b] = acceptances[b]
  BY <1>1, <1>3, <1>5
<1>9. RowsFor(channels', a) = tx[s].wrote /\ \A b : b # a => RowsFor(channels', b) = RowsFor(channels, b)
  BY <1>4, <1>5, MadeFromIsOfOne DEF RowsFor
<1>10. tx[s].new \/ c \in customers
  BY <1>1, <1>2 DEF DoorOK, CustomerFound
<1> HIDE DEF a, c
<1>11. TypeOK'
  BY <1>1, <1>3, <1>5, <1>7 DEF TypeOK, Transaction
<1>12. ASSUME NEW q \in Session
       PROVE  DoorOK(q)'
  <2>1. CASE q = s
    BY <1>6, <1>7, <2>1 DEF DoorOK, Running
  <2>2. CASE q # s
    <3> SUFFICES ASSUME Running(q)'
                 PROVE  DoorOK(q)'
      BY DEF DoorOK
    <3>1. tx'[q] = tx[q] /\ Running(q)
      BY <1>7, <2>2 DEF Running
    <3>2. tx[q].id \in AcceptanceId /\ tx[q].id # a
      BY <1>2, <1>1, <2>2, <3>1 DEF IInv, KeysAreApart, Transaction, Running, a
    <3>3. DoorOK(q)
      BY DEF IInv
    <3>4. acceptances'[tx[q].id] = acceptances[tx[q].id]
          /\ RowsFor(channels', tx[q].id) = RowsFor(channels, tx[q].id)
      BY <1>8, <1>9, <3>2
    <3>5. MadeFrom(tx[q].left \cup tx[q].wrote, tx[q].id)'
      BY <1>5, <3>1, <3>3 DEF DoorOK, MadeFrom
    <3> QED
      BY <1>5, <3>1, <3>3, <3>4, <3>5 DEF DoorOK, CustomerFound
  <2> QED
    BY <2>1, <2>2
<1>13. KeysAreApart'
  BY <1>6, <1>7 DEF IInv, KeysAreApart, Running
<1>14. AccountsAreThoseWithTerms'
  <2>1. \A b \in AcceptanceId : acceptances[b] # NoCustomer => b # a
    BY <1>4 DEF a
  <2>2. {acceptances'[b] : b \in AcceptanceId} \ {NoCustomer}
        = ({acceptances[b] : b \in AcceptanceId} \ {NoCustomer}) \cup {c}
    BY <1>3, <1>8, <2>1
  <2>3. customers' = customers \cup {c}
    BY <1>5, <1>10
  <2> QED
    BY <2>2, <2>3 DEF IInv, AccountsAreThoseWithTerms
<1>15. RecordOK'
  <2> SUFFICES ASSUME NEW b \in AcceptanceId
               PROVE  IF acceptances'[b] # NoCustomer THEN MadeFrom(RowsFor(channels, b), b)'
                                                      ELSE RowsFor(channels', b) = {}
    BY DEF RecordOK, RowsFor
  <2>1. CASE b = a
    <3>1. MadeFrom(tx[s].wrote, a)
      BY <1>4 DEF a
    <3> QED
      BY <1>3, <1>5, <1>8, <1>9, <2>1, <3>1 DEF MadeFrom, RowsFor
  <2>2. CASE b # a
    BY <1>5, <1>8, <1>9, <2>2 DEF IInv, RecordOK, MadeFrom, RowsFor
  <2> QED
    BY <2>1, <2>2
<1>16. ReadingOK'
  <2>1. \A b \in reading.listed : b \in AcceptanceId /\ acceptances[b] # NoCustomer /\ b # a
    BY <1>4 DEF IInv, ReadingOK, TypeOK, a
  <2>2. \A b \in reading.listed : acceptances'[b] = acceptances[b]
                                  /\ RowsFor(channels', b) = RowsFor(channels, b)
    BY <1>8, <1>9, <2>1
  <2> QED
    BY <1>5, <2>1, <2>2 DEF IInv, ReadingOK, RowsFor
<1> QED
  BY <1>7, <1>11, <1>12, <1>13, <1>14, <1>15, <1>16 DEF IInv

\* The read lists acceptances that are committed, and those stay.
LEMMA ShowStep ==
  ASSUME IInv, NEW c \in Customer, Show(c)
  PROVE  IInv'
<1> DEFINE listed == {a \in AcceptanceId : acceptances[a] = c}
<1>1. reading' = [c |-> c, listed |-> listed, left |-> listed, shown |-> {}]
      /\ UNCHANGED <<customers, acceptances, channels, given, tx>>
  BY DEF Show
<1>2. TypeOK'
  BY <1>1 DEF IInv, TypeOK
<1>3. ReadingOK'
  BY <1>1, NullsAreApart DEF ReadingOK, RowsFor
<1> QED
  BY <1>1, <1>2, <1>3 DEF IInv, DoorOK, Running, KeysAreApart, AccountsAreThoseWithTerms,
     RecordOK, MadeFrom, RowsFor, CustomerFound

\* The channels of a listed acceptance are all there is of it.
LEMMA ShowChannelsStep ==
  ASSUME IInv, NEW a \in AcceptanceId, ShowChannels(a)
  PROVE  IInv'
<1> DEFINE r == [reading EXCEPT !.left = @ \ {a}, !.shown = @ \cup RowsFor(channels, a)]
<1>1. reading' = r /\ UNCHANGED <<customers, acceptances, channels, given, tx>>
  BY DEF ShowChannels, RowsFor
<1>2. TypeOK /\ ReadingOK /\ a \in reading.left
  BY DEF IInv, ShowChannels
<1>3. r.c = reading.c /\ r.listed = reading.listed /\ r.left = reading.left \ {a}
      /\ r.shown = reading.shown \cup RowsFor(channels, a)
      /\ r \in [c : Customer \cup {NoCustomer}, listed : SUBSET AcceptanceId,
                left : SUBSET AcceptanceId, shown : SUBSET ChannelRow]
  BY <1>2 DEF TypeOK, RowsFor
<1> HIDE DEF r
<1>4. TypeOK'
  BY <1>1, <1>2, <1>3 DEF TypeOK
<1>5. ReadingOK'
  BY <1>1, <1>2, <1>3 DEF ReadingOK, RowsFor
<1> QED
  BY <1>1, <1>4, <1>5 DEF IInv, DoorOK, Running, KeysAreApart, AccountsAreThoseWithTerms,
     RecordOK, MadeFrom, RowsFor, CustomerFound

\* Nothing is under way once the answer is printed.
LEMMA RenderStep ==
  ASSUME IInv, Render
  PROVE  IInv'
<1>1. reading' = NoReading /\ UNCHANGED <<customers, acceptances, channels, given, tx>>
  BY DEF Render
<1>2. TypeOK'
  BY <1>1 DEF IInv, TypeOK, NoReading
<1>3. ReadingOK'
  BY <1>1 DEF ReadingOK, NoReading
<1> QED
  BY <1>1, <1>2, <1>3 DEF IInv, DoorOK, Running, KeysAreApart, AccountsAreThoseWithTerms,
     RecordOK, MadeFrom, RowsFor, CustomerFound

\* Every step of the doors and of the read keeps the invariant.
LEMMA NextKeepsIInv == IInv /\ [Next]_vars => IInv'
<1> SUFFICES ASSUME IInv, [Next]_vars
             PROVE  IInv'
  OBVIOUS
<1>1. ASSUME NEW s \in Session, NEW c \in Customer, NEW a \in AcceptanceId, NEW pairs \in Pairs,
             BeginCreate(s, c, a, pairs)
      PROVE  IInv'
  BY <1>1, BeginStep DEF BeginCreate
<1>2. ASSUME NEW s \in Session, NEW c \in Customer, NEW a \in AcceptanceId, NEW pairs \in Pairs,
             BeginRecord(s, c, a, pairs)
      PROVE  IInv'
  BY <1>2, BeginStep DEF BeginRecord
<1>3. ASSUME NEW s \in Session, InsertCustomer(s)
      PROVE  IInv'
  BY <1>3, InsertCustomerStep
<1>4. ASSUME NEW s \in Session, InsertAcceptance(s)
      PROVE  IInv'
  BY <1>4, InsertAcceptanceStep
<1>5. ASSUME NEW s \in Session, InsertChannel(s)
      PROVE  IInv'
  BY <1>5, InsertChannelStep
<1>6. ASSUME NEW s \in Session, Commit(s)
      PROVE  IInv'
  BY <1>6, CommitStep
<1>7. ASSUME NEW s \in Session, Abort(s)
      PROVE  IInv'
  BY <1>7, AbortStep
<1>8. ASSUME NEW c \in Customer, Show(c)
      PROVE  IInv'
  BY <1>8, ShowStep
<1>9. ASSUME NEW a \in AcceptanceId, ShowChannels(a)
      PROVE  IInv'
  BY <1>9, ShowChannelsStep
<1>10. CASE Render
  BY <1>10, RenderStep
<1>11. CASE UNCHANGED vars
  BY <1>11 DEF vars, IInv, TypeOK, DoorOK, Running, KeysAreApart, AccountsAreThoseWithTerms,
     RecordOK, ReadingOK, MadeFrom, RowsFor, CustomerFound
<1> QED
  BY <1>1, <1>2, <1>3, <1>4, <1>5, <1>6, <1>7, <1>8, <1>9, <1>10, <1>11 DEF Next

-----------------------------------------------------------------------------
(* What follows from it.                                                   *)

\* The invariant holds in every reachable state of the consent doors and the
\* read of what they wrote.
THEOREM Invariance == Spec => []IInv
<1> QED
  BY InitIInv, NextKeepsIInv, PTL DEF Spec

\* The tables and the sessions stay of their types: no row of an unknown channel
\* or a blank text is ever stored or shown.
THEOREM TypeCorrect == Spec => []TypeOK
<1>1. IInv => TypeOK
  BY DEF IInv
<1> QED
  BY <1>1, Invariance, PTL

\* create_account writes the account and its acceptance in one transaction, and
\* record_acceptance loads the customer first: the accounts are exactly those
\* who have accepted terms.
THEOREM AccountsAcceptedTerms == Spec => []AccountsAreThoseWithTerms
<1>1. IInv => AccountsAreThoseWithTerms
  BY DEF IInv
<1> QED
  BY <1>1, Invariance, PTL

\* Through the dict of _channels and an INSERT for each of its entries, the rows
\* on record for an acceptance are the --channel options it was made from.
THEOREM RecordIsWhatWasShown == Spec => []ConsentIsWhatWasShown
<1>1. IInv => ConsentIsWhatWasShown
  <2> SUFFICES ASSUME IInv, NEW a \in AcceptanceId, acceptances[a] # NoCustomer
               PROVE  AreWhatWasGiven(RowsFor(channels, a), a)
    BY DEF ConsentIsWhatWasShown, RowsFor
  <2>1. given[a] \in Pairs /\ MadeFrom(RowsFor(channels, a), a)
    BY DEF IInv, TypeOK, RecordOK
  <2> QED
    BY <2>1, MadeFromIsWhatWasGiven
<1> QED
  BY <1>1, Invariance, PTL

\* show_acceptances asks for the channels of each acceptance by a statement of
\* its own, and doors commit between: what it shows of each is still all the
\* consents it was given with.
THEOREM TheReadIsWhole == Spec => []ShownAcceptancesAreWhole
<1>1. IInv => ShownAcceptancesAreWhole
  <2> SUFFICES ASSUME IInv, Shown, NEW a \in reading.listed
               PROVE  AreWhatWasGiven(RowsFor(reading.shown, a), a)
    BY DEF ShownAcceptancesAreWhole, RowsFor
  <2>1. a \in AcceptanceId /\ acceptances[a] # NoCustomer /\ a \notin reading.left
    BY DEF IInv, TypeOK, ReadingOK, Shown
  <2>2. RowsFor(reading.shown, a) = RowsFor(channels, a)
    BY <2>1 DEF IInv, ReadingOK
  <2>3. given[a] \in Pairs /\ MadeFrom(RowsFor(reading.shown, a), a)
    BY <2>1, <2>2 DEF IInv, TypeOK, RecordOK
  <2> QED
    BY <2>1, <2>3, MadeFromIsWhatWasGiven
<1> QED
  BY <1>1, Invariance, PTL
=============================================================================
