------------------------- MODULE AccountStoreProofs -------------------------
(***************************************************************************)
(* Theorems about AccountStore, for any number of sessions, customers and  *)
(* tokens: what a door read under its locks still holds when it commits,   *)
(* and every interleaving of the doors implements Account.                 *)
(*                                                                         *)
(* The promises of Account then hold of the committed tables, by the       *)
(* theorems of AccountProofs.                                              *)
(***************************************************************************)
EXTENDS AccountStore, SequenceTheorems, TLAPS

Proved == INSTANCE AccountProofs

-----------------------------------------------------------------------------
(* How far a session has come.                                             *)

Presents(s) == tx[s].req.door \in {"confirm_email_change", "consume_password_reset"}

HasLocated(s) == Presents(s) /\ tx[s].next > 1

HasLock(s) ==
  \/ /\ tx[s].req.door \in {"set_password", "start_email_change", "start_password_reset"}
     /\ tx[s].next > 1
  \/ Presents(s) /\ tx[s].next > 2

HasToken(s) == Presents(s) /\ tx[s].next > 3

HasAuthorised(s) == Runs(s, "start_email_change") /\ tx[s].next > 2

HasEntered(s) ==
  \/ Runs(s, "create_account") /\ tx[s].next > 2
  \/ Runs(s, "confirm_email_change") /\ tx[s].next > 6

HasSuperseded(s) ==
  \/ Runs(s, "set_password") /\ tx[s].next > 2
  \/ Runs(s, "start_email_change") /\ tx[s].next > 4
  \/ Runs(s, "confirm_email_change") /\ tx[s].next > 7
  \/ Runs(s, "start_password_reset") /\ tx[s].next > 3
  \/ Runs(s, "consume_password_reset") /\ tx[s].next > 5

\* The door that draws a salt for the credential it will write.
DrawsSalt(s) == tx[s].req.door \in {"set_password", "consume_password_reset"}

-----------------------------------------------------------------------------
(* The inductive invariant.                                                *)

Transaction ==
  [req : Requests \cup {NoRequest}, next : 1..8, c : Customer \cup {NoCustomer},
   seen : Address \cup {NoAddress}, under : Salt \cup {NoSalt}, entered : BOOLEAN,
   spent : SUBSET (ChangeId \cup ResetId), cancelled : SUBSET (ChangeId \cup ResetId)]

LockTypes ==
  /\ tx \in [Session -> Transaction]
  /\ rowLock \in [Customer -> Session \cup {NoSession}]
  /\ tokenLock \in [ChangeId \cup ResetId -> Session \cup {NoSession}]

\* A session stops at the end of its door's statements.
StaysOnItsRoute(s) == Running(s) => tx[s].next <= Len(Route[tx[s].req.door]) + 1

\* The customer a session works on: the one its request names, or the one the
\* token it was presented with belongs to.
KnowsItsCustomer(s) ==
  /\ Running(s) /\ ~Presents(s) => tx[s].c = tx[s].req.c
  /\ HasLocated(s) => TokenRow(s) # NoRow /\ TokenRow(s).owner = tx[s].c

\* What a session has read under its locks is still so.
ReadsHold(s) ==
  LET c == tx[s].c
  IN  /\ HasLock(s) => rowLock[c] = s /\ Exists(c) /\ tx[s].seen = email[c]
      /\ HasAuthorised(s) =>
           /\ tx[s].under = credential[c].salt
           /\ tx[s].req.proof # ByCaller => Verified(credential[c], tx[s].req.proof)
      /\ HasToken(s) => Presentable(TokenRow(s), tx[s].req.at)
      /\ HasSuperseded(s) => tx[s].cancelled = ToCancel(s)

\* So is what the checks of its door found.
ChecksHold(s) ==
  LET req == tx[s].req
      c   == tx[s].c
  IN  /\ Runs(s, "start_email_change") /\ tx[s].next > 3 =>
           ~SameAddress(email[c], req.a) /\ Readable(Expiry(req.at, req.window))
      /\ Runs(s, "confirm_email_change") /\ tx[s].next > 4 =>
           ~BeforeLatestChange(history[c], req.at)
      /\ Runs(s, "start_password_reset") /\ tx[s].next > 2 =>
           HasCredential(credential[c]) /\ Readable(Expiry(req.at, req.window))

\* The keys and the salt a session drew are still nobody's.
DrawsAreFresh(s) ==
  LET req == tx[s].req
  IN  /\ Runs(s, "create_account") => ~Exists(req.c)
      /\ Runs(s, "start_email_change") => changes[req.k] = NoRow
      /\ Runs(s, "start_password_reset") => resets[req.r] = NoRow
      /\ DrawsSalt(s) =>
           /\ \A c \in Customer : credential[c].salt # req.salt
           /\ \A k \in ChangeId : changes[k] # NoRow => changes[k].under # req.salt

\* An entry on customers that was made meets no other row of the index.
EntryIsUnique(s) ==
  /\ tx[s].entered <=> HasEntered(s)
  /\ tx[s].entered =>
       /\ Holders(email, EntryAddress(s)) \subseteq {tx[s].c}
       /\ Runs(s, "create_account") => ~ReferenceTaken(tx[s].req.ref)

SessionOK(s) ==
  /\ StaysOnItsRoute(s)
  /\ KnowsItsCustomer(s)
  /\ ReadsHold(s)
  /\ ChecksHold(s)
  /\ DrawsAreFresh(s)
  /\ EntryIsUnique(s)

\* No two sessions drew the same key or salt.
DrawsAreApart(s, q) ==
  /\ Runs(s, "create_account") /\ Runs(q, "create_account") => tx[s].req.c # tx[q].req.c
  /\ Runs(s, "start_email_change") /\ Runs(q, "start_email_change") =>
       tx[s].req.k # tx[q].req.k
  /\ Runs(s, "start_password_reset") /\ Runs(q, "start_password_reset") =>
       tx[s].req.r # tx[q].req.r
  /\ DrawsSalt(s) /\ DrawsSalt(q) => tx[s].req.salt # tx[q].req.salt

\* No two uncommitted entries meet: one of them would have waited.
EntriesAreApart(s, q) ==
  tx[s].entered /\ tx[q].entered =>
    /\ ~SameAddress(EntryAddress(s), EntryAddress(q))
    /\ Runs(s, "create_account") /\ Runs(q, "create_account") /\ tx[s].req.ref # NoReference =>
         tx[s].req.ref # tx[q].req.ref

PairsApart == \A s, q \in Session : s # q => DrawsAreApart(s, q) /\ EntriesAreApart(s, q)

\* Whoever holds a token row is working on the customer it belongs to, and has
\* that customer's row.
TokenLockOK(row, holder) ==
  holder # NoSession => HasLock(holder) /\ row # NoRow /\ row.owner = tx[holder].c

TokenLocksOK ==
  /\ \A k \in ChangeId : TokenLockOK(changes[k], tokenLock[k])
  /\ \A r \in ResetId : TokenLockOK(resets[r], tokenLock[r])

IInv ==
  /\ Proved!IInv
  /\ LockTypes
  /\ \A s \in Session : SessionOK(s)
  /\ PairsApart
  /\ TokenLocksOK

-----------------------------------------------------------------------------
(* Requests and routes.                                                    *)

\* What a request holds, by its door.
LEMMA RequestShape ==
  ASSUME NEW req \in Requests
  PROVE  /\ req.door \in DOMAIN Route
         /\ req \in Request(req.door)
         /\ req # NoRequest
<1>1. PICK door \in DOMAIN Route : req \in Request(door)
  BY DEF Requests
<1>2. door \in {"create_account", "set_password", "start_email_change", "confirm_email_change",
                "start_password_reset", "consume_password_reset"}
  BY <1>1 DEF Route
<1>3. req.door = door
  BY <1>1, <1>2 DEF Request
<1>4. req # NoRequest
  BY <1>2, <1>3 DEF NoRequest
<1> QED
  BY <1>1, <1>3, <1>4

\* The doors this model has.
LEMMA Doors ==
  DOMAIN Route = {"create_account", "set_password", "start_email_change", "confirm_email_change",
                  "start_password_reset", "consume_password_reset"}
BY DEF Route

Word == {"locate", "lock", "token", "check", "spend", "rewrite", "supersede"}

\* What comes after the statements that reach a presented token.
LEMMA PresentedThen ==
  ASSUME NEW rest \in Seq(Word)
  PROVE  /\ Presented \o rest \in Seq(Word)
         /\ Len(Presented \o rest) = 3 + Len(rest)
         /\ \A i \in 1..3 + Len(rest) :
              (Presented \o rest)[i] = IF i <= 3 THEN Presented[i] ELSE rest[i - 3]
<1>1. Presented \in Seq(Word) /\ Len(Presented) = 3
  BY DEF Presented, Word
<1>2. /\ Presented \o rest \in Seq(Word)
      /\ Len(Presented \o rest) = Len(Presented) + Len(rest)
      /\ \A i \in 1..Len(Presented) + Len(rest) : (Presented \o rest)[i] =
           IF i <= Len(Presented) THEN Presented[i] ELSE rest[i - Len(Presented)]
  <2>1. Presented \in Seq(Word)
    BY <1>1
  <2> QED
    BY <2>1, ConcatProperties, Zenon
<1> QED
  BY <1>1, <1>2, Zenon

\* The statements of each door, spelled out.
LEMMA Routes ==
  /\ Route["create_account"] = <<"check", "insert">>
  /\ Route["set_password"] = <<"lock", "supersede">>
  /\ Route["start_email_change"] = <<"lock", "authorise", "check", "supersede">>
  /\ Route["confirm_email_change"] =
       <<"locate", "lock", "token", "check", "spend", "rewrite", "supersede">>
  /\ Route["start_password_reset"] = <<"lock", "check", "supersede">>
  /\ Route["consume_password_reset"] = <<"locate", "lock", "token", "spend", "supersede">>
<1> DEFINE rest1  == <<"check", "spend", "rewrite", "supersede">>
           rest2  == <<"spend", "supersede">>
           route1 == <<"locate", "lock", "token", "check", "spend", "rewrite", "supersede">>
           route2 == <<"locate", "lock", "token", "spend", "supersede">>
<1>1. Presented \o rest1 = route1
  <2>1. rest1 \in Seq(Word) /\ route1 \in Seq(Word) /\ Len(rest1) = 4 /\ Len(route1) = 7
    BY DEF Word
  <2>2. \A i \in 1..7 : (IF i <= 3 THEN Presented[i] ELSE rest1[i - 3]) = route1[i]
    BY DEF Presented
  <2> HIDE DEF rest1, route1
  <2>3. /\ Presented \o rest1 \in Seq(Word)
        /\ Len(Presented \o rest1) = 7
        /\ \A i \in 1..7 : (Presented \o rest1)[i] = route1[i]
    <3>1. 3 + Len(rest1) = 7
      BY <2>1
    <3> QED
      BY <3>1, <2>1, <2>2, PresentedThen, Zenon
  <2> QED
    BY <2>1, <2>3, SeqEqual
<1>2. Presented \o rest2 = route2
  <2>1. rest2 \in Seq(Word) /\ route2 \in Seq(Word) /\ Len(rest2) = 2 /\ Len(route2) = 5
    BY DEF Word
  <2>2. \A i \in 1..5 : (IF i <= 3 THEN Presented[i] ELSE rest2[i - 3]) = route2[i]
    BY DEF Presented
  <2> HIDE DEF rest2, route2
  <2>3. /\ Presented \o rest2 \in Seq(Word)
        /\ Len(Presented \o rest2) = 5
        /\ \A i \in 1..5 : (Presented \o rest2)[i] = route2[i]
    <3>1. 3 + Len(rest2) = 5
      BY <2>1
    <3> QED
      BY <3>1, <2>1, <2>2, PresentedThen, Zenon
  <2> QED
    BY <2>1, <2>3, SeqEqual
<1>3. Route["create_account"] = <<"check", "insert">>
  BY DEF Route
<1>4. Route["set_password"] = <<"lock", "supersede">>
  BY DEF Route
<1>5. Route["start_email_change"] = <<"lock", "authorise", "check", "supersede">>
  BY DEF Route
<1>6. Route["confirm_email_change"] = Presented \o <<"check", "spend", "rewrite", "supersede">>
  BY DEF Route
<1>7. Route["start_password_reset"] = <<"lock", "check", "supersede">>
  BY DEF Route
<1>8. Route["consume_password_reset"] = Presented \o <<"spend", "supersede">>
  BY DEF Route
<1> QED
  BY <1>1, <1>2, <1>3, <1>4, <1>5, <1>6, <1>7, <1>8

\* The statement a session is about to issue, by its door and its place.
LEMMA Statements ==
  ASSUME LockTypes, NEW s \in Session
  PROVE  /\ Statement(s) = "locate" => Presents(s) /\ tx[s].next = 1
         /\ Statement(s) = "lock" =>
              \/ /\ tx[s].req.door \in {"set_password", "start_email_change", "start_password_reset"}
                 /\ tx[s].next = 1
              \/ Presents(s) /\ tx[s].next = 2
         /\ Statement(s) = "token" => Presents(s) /\ tx[s].next = 3
         /\ Statement(s) = "authorise" => Runs(s, "start_email_change") /\ tx[s].next = 2
         /\ Statement(s) = "check" =>
              \/ Runs(s, "create_account") /\ tx[s].next = 1
              \/ Runs(s, "start_email_change") /\ tx[s].next = 3
              \/ Runs(s, "confirm_email_change") /\ tx[s].next = 4
              \/ Runs(s, "start_password_reset") /\ tx[s].next = 2
         /\ Statement(s) \in {"insert", "rewrite"} =>
              \/ Runs(s, "create_account") /\ tx[s].next = 2
              \/ Runs(s, "confirm_email_change") /\ tx[s].next = 6
         /\ Statement(s) = "spend" =>
              \/ Runs(s, "confirm_email_change") /\ tx[s].next = 5
              \/ Runs(s, "consume_password_reset") /\ tx[s].next = 4
         /\ Statement(s) = "supersede" =>
              \/ Runs(s, "set_password") /\ tx[s].next = 2
              \/ Runs(s, "start_email_change") /\ tx[s].next = 4
              \/ Runs(s, "confirm_email_change") /\ tx[s].next = 7
              \/ Runs(s, "start_password_reset") /\ tx[s].next = 3
              \/ Runs(s, "consume_password_reset") /\ tx[s].next = 5
         /\ Statement(s) = "commit" =>
              \/ Runs(s, "create_account") /\ tx[s].next > 2
              \/ Runs(s, "set_password") /\ tx[s].next > 2
              \/ Runs(s, "start_email_change") /\ tx[s].next > 4
              \/ Runs(s, "confirm_email_change") /\ tx[s].next > 7
              \/ Runs(s, "start_password_reset") /\ tx[s].next > 3
              \/ Runs(s, "consume_password_reset") /\ tx[s].next > 5
         /\ Statement(s) # "none" => Running(s)
<1>1. CASE ~Running(s)
  BY <1>1 DEF Statement
<1>2. CASE Running(s)
  <2>1. tx[s].req \in Requests
    BY <1>2 DEF Running, LockTypes, Transaction
  <2>2. tx[s].next \in 1..8 /\ tx[s].next \in Nat
    BY DEF LockTypes, Transaction
  <2>3. tx[s].req.door \in DOMAIN Route
    BY <2>1, RequestShape
  <2>4. CASE tx[s].req.door = "create_account"
    BY <1>2, <2>2, <2>4, Routes DEF Statement, Runs, Presents
  <2>5. CASE tx[s].req.door = "set_password"
    BY <1>2, <2>2, <2>5, Routes DEF Statement, Runs, Presents
  <2>6. CASE tx[s].req.door = "start_email_change"
    BY <1>2, <2>2, <2>6, Routes DEF Statement, Runs, Presents
  <2>7. CASE tx[s].req.door = "confirm_email_change"
    BY <1>2, <2>2, <2>7, Routes DEF Statement, Runs, Presents
  <2>8. CASE tx[s].req.door = "start_password_reset"
    BY <1>2, <2>2, <2>8, Routes DEF Statement, Runs, Presents
  <2>9. CASE tx[s].req.door = "consume_password_reset"
    BY <1>2, <2>2, <2>9, Routes DEF Statement, Runs, Presents
  <2> QED
    BY <2>3, <2>4, <2>5, <2>6, <2>7, <2>8, <2>9, Doors
<1> QED
  BY <1>1, <1>2

\* Which statements a session has issued, by its door and its place.
LEMMA PastStatements ==
  ASSUME LockTypes, NEW s \in Session, Running(s), StaysOnItsRoute(s)
  PROVE  /\ Past(s, "lock") => HasLock(s)
         /\ Past(s, "authorise") => HasAuthorised(s)
         /\ Past(s, "token") => HasToken(s)
         /\ Past(s, "supersede") => HasSuperseded(s)
<1>1. tx[s].req \in Requests
  BY DEF Running, LockTypes, Transaction
<1>2. tx[s].next \in 1..8 /\ tx[s].next \in Nat
  BY DEF LockTypes, Transaction
<1>3. tx[s].req.door \in DOMAIN Route
  BY <1>1, RequestShape
<1> USE DEF StaysOnItsRoute, Past, HasLock, HasAuthorised, HasToken, HasSuperseded, Runs, Presents
<1>4. CASE tx[s].req.door = "create_account"
  BY <1>2, <1>4, Routes
<1>5. CASE tx[s].req.door = "set_password"
  BY <1>2, <1>5, Routes
<1>6. CASE tx[s].req.door = "start_email_change"
  BY <1>2, <1>6, Routes
<1>7. CASE tx[s].req.door = "confirm_email_change"
  BY <1>2, <1>7, Routes
<1>8. CASE tx[s].req.door = "start_password_reset"
  BY <1>2, <1>8, Routes
<1>9. CASE tx[s].req.door = "consume_password_reset"
  BY <1>2, <1>9, Routes
<1> QED
  BY <1>3, <1>4, <1>5, <1>6, <1>7, <1>8, <1>9, Doors

\* What the fields of a request hold, by its door.
LEMMA RequestFields ==
  ASSUME NEW req \in Requests
  PROVE  /\ req.door = "create_account" =>
              req.c \in Customer /\ req.a \in Address /\ req.ref \in Reference \cup {NoReference}
         /\ req.door = "set_password" =>
              req.c \in Customer /\ req.p \in Secret /\ req.salt \in Salt
         /\ req.door = "start_email_change" =>
              /\ req.c \in Customer /\ req.k \in ChangeId /\ req.a \in Address
              /\ req.proof \in Secret \cup {ByCaller} /\ req.at \in Instant
              /\ req.window \in Window
         /\ req.door = "confirm_email_change" => req.k \in ChangeId /\ req.at \in Instant
         /\ req.door = "start_password_reset" =>
              /\ req.c \in Customer /\ req.r \in ResetId /\ req.at \in Instant
              /\ req.window \in Window
         /\ req.door = "consume_password_reset" =>
              /\ req.r \in ResetId /\ req.p \in Secret /\ req.salt \in Salt
              /\ req.at \in Instant
         /\ "c" \in DOMAIN req <=>
              req.door \notin {"confirm_email_change", "consume_password_reset"}
<1>1. req.door \in DOMAIN Route /\ req \in Request(req.door)
  BY RequestShape
<1>2. CASE req.door = "create_account"
  BY <1>1, <1>2 DEF Request
<1>3. CASE req.door = "set_password"
  BY <1>1, <1>3 DEF Request
<1>4. CASE req.door = "start_email_change"
  BY <1>1, <1>4 DEF Request
<1>5. CASE req.door = "confirm_email_change"
  BY <1>1, <1>5 DEF Request
<1>6. CASE req.door = "start_password_reset"
  BY <1>1, <1>6 DEF Request
<1>7. CASE req.door = "consume_password_reset"
  BY <1>1, <1>7 DEF Request
<1> QED
  BY <1>1, <1>2, <1>3, <1>4, <1>5, <1>6, <1>7, Doors

-----------------------------------------------------------------------------
(* The committed tables.                                                   *)

\* The assumptions of AccountProofs, in its own names.
LEMMA Assumptions ==
  /\ Instant \subseteq Int /\ Window \subseteq Nat \ {0}
  /\ FirstReadable \in Int /\ LastReadable \in Int
  /\ NoAddress \notin Address
  /\ NoReference \notin Reference
  /\ NoSecret \notin Secret /\ NoSalt \notin Salt
  /\ NoInstant \notin Int
  /\ NoRow \notin Proved!ChangeRow /\ NoRow \notin Proved!ResetRow
  /\ Proved!ByCaller \notin Secret
<1>1. Proved!ChangeRow = ChangeRow
  BY DEF Proved!ChangeRow, ChangeRow, Proved!TokenState, TokenState, Proved!Reason, Reason,
     Proved!ByPassword, ByPassword, Proved!ByCaller, ByCaller, Proved!Superseded, Superseded,
     Proved!PasswordSet, PasswordSet, Proved!EmailChanged, EmailChanged, Proved!NotCancelled,
     NotCancelled
<1>2. Proved!ResetRow = ResetRow
  BY DEF Proved!ResetRow, ResetRow, Proved!TokenState, TokenState, Proved!Reason, Reason,
     Proved!Superseded, Superseded, Proved!PasswordSet, PasswordSet, Proved!EmailChanged,
     EmailChanged, Proved!NotCancelled, NotCancelled
<1> QED
  BY <1>1, <1>2, InstantsAreWhole, BoundsAreWhole, NullsAreApart, NoRowIsApart,
     ByCallerIsNoPassword DEF Proved!ByCaller, ByCaller

TableTypes ==
  /\ email \in [Customer -> Address \cup {NoAddress}]
  /\ reference \in [Customer -> Reference \cup {NoReference}]
  /\ credential \in [Customer -> Credential]
  /\ changes \in [ChangeId -> ChangeRow \cup {NoRow}]
  /\ resets \in [ResetId -> ResetRow \cup {NoRow}]
  /\ history \in [Customer -> Seq(HistoryRow)]

\* The tables are well typed under the invariant of AccountProofs, before and
\* after a step.
LEMMA TypesOfTables == (Proved!IInv => TableTypes) /\ (Proved!IInv' => TableTypes')
BY DEF Proved!IInv, Proved!TypeOK, TableTypes, Proved!Credential, Credential,
   Proved!HistoryRow, HistoryRow,
   Proved!ChangeRow, ChangeRow, Proved!ResetRow, ResetRow, Proved!TokenState, TokenState,
   Proved!Reason, Reason, Proved!ByPassword, ByPassword, Proved!ByCaller, ByCaller,
   Proved!Superseded, Superseded, Proved!PasswordSet, PasswordSet, Proved!EmailChanged,
   EmailChanged, Proved!NotCancelled, NotCancelled

\* The row of a presented token, and the customer it belongs to.
LEMMA TokenRows ==
  ASSUME LockTypes, TableTypes, NEW s \in Session, Presents(s)
  PROVE  /\ tx[s].req \in Requests
         /\ Runs(s, "confirm_email_change") =>
              Token(s) = tx[s].req.k /\ Token(s) \in ChangeId /\ TokenRow(s) = changes[Token(s)]
         /\ Runs(s, "consume_password_reset") =>
              Token(s) = tx[s].req.r /\ Token(s) \in ResetId /\ TokenRow(s) = resets[Token(s)]
         /\ TokenRow(s) # NoRow => TokenRow(s).owner \in Customer
         /\ Token(s) \in ChangeId \cup ResetId
<1>1. tx[s].req \in Requests
  BY DEF LockTypes, Transaction, Presents, NoRequest
<1>2. CASE Runs(s, "confirm_email_change")
  BY <1>1, <1>2, RequestFields
     DEF Runs, Token, TokenRow, PresentsChange, TableTypes, ChangeRow
<1>3. CASE Runs(s, "consume_password_reset")
  BY <1>1, <1>3, RequestFields
     DEF Runs, Token, TokenRow, PresentsChange, TableTypes, ResetRow
<1> QED
  BY <1>1, <1>2, <1>3 DEF Presents, Runs

-----------------------------------------------------------------------------
(* What a step leaves to the other sessions.                               *)

\* A session whose transaction, customer's row and tables are as they were.
LEMMA SessionKept ==
  ASSUME NEW q \in Session, SessionOK(q), UNCHANGED tables, tx'[q] = tx[q],
         HasLock(q) => rowLock'[tx[q].c] = rowLock[tx[q].c]
  PROVE  SessionOK(q)'
<1> USE DEF tables, Running, Runs, Presents
<1>1. StaysOnItsRoute(q)'
  BY DEF SessionOK, StaysOnItsRoute
<1>2. KnowsItsCustomer(q)'
  BY DEF SessionOK, KnowsItsCustomer, HasLocated, TokenRow, PresentsChange
<1>3. ReadsHold(q)'
  BY DEF SessionOK, ReadsHold, HasLock, HasAuthorised, HasToken, HasSuperseded, Exists, TokenRow,
     PresentsChange, ToCancel, CancelsResets
<1>4. ChecksHold(q)'
  BY DEF SessionOK, ChecksHold
<1>5. DrawsAreFresh(q)'
  BY DEF SessionOK, DrawsAreFresh, DrawsSalt, Exists
<1>6. EntryIsUnique(q)'
  BY DEF SessionOK, EntryIsUnique, HasEntered, EntryAddress, TokenRow, PresentsChange,
     ReferenceTaken
<1> QED
  BY <1>1, <1>2, <1>3, <1>4, <1>5, <1>6 DEF SessionOK

\* Two sessions whose transactions and tables are as they were.
LEMMA PairKept ==
  ASSUME NEW p \in Session, NEW q \in Session, DrawsAreApart(p, q), EntriesAreApart(p, q),
         UNCHANGED tables, tx'[p] = tx[p], tx'[q] = tx[q]
  PROVE  DrawsAreApart(p, q)' /\ EntriesAreApart(p, q)'
BY DEF tables, Runs, DrawsAreApart, DrawsSalt, EntriesAreApart, EntryAddress, TokenRow,
   PresentsChange

\* Being the same address goes both ways.
LEMMA SameAddressBothWays ==
  \A a, b : SameAddress(a, b) <=> SameAddress(b, a)
BY DEF SameAddress

\* Pairs are apart both ways round.
LEMMA ApartBothWays ==
  ASSUME NEW p \in Session, NEW q \in Session
  PROVE  /\ DrawsAreApart(p, q) <=> DrawsAreApart(q, p)
         /\ EntriesAreApart(p, q) <=> EntriesAreApart(q, p)
BY SameAddressBothWays DEF DrawsAreApart, EntriesAreApart

-----------------------------------------------------------------------------
(* The end of a transaction, and the steps that write nothing.             *)

\* No door has more than seven statements.
LEMMA RoutesEnd ==
  \A door \in DOMAIN Route : Len(Route[door]) \in Nat /\ Len(Route[door]) <= 7
<1>1. Len(Route["create_account"]) = 2 /\ Len(Route["set_password"]) = 2
  BY Routes
<1>2. Len(Route["start_email_change"]) = 4 /\ Len(Route["confirm_email_change"]) = 7
  BY Routes
<1>3. Len(Route["start_password_reset"]) = 3 /\ Len(Route["consume_password_reset"]) = 5
  BY Routes
<1>4. /\ 2 \in Nat /\ 2 <= 7 /\ 3 \in Nat /\ 3 <= 7 /\ 4 \in Nat /\ 4 <= 7
      /\ 5 \in Nat /\ 5 <= 7 /\ 7 \in Nat /\ 7 <= 7
  OBVIOUS
<1> QED
  BY <1>1, <1>2, <1>3, <1>4, Doors, Zenon

\* The invariant of the tables is kept by a step that writes to none of them.
LEMMA TablesKept == Proved!IInv /\ UNCHANGED tables => Proved!IInv'
<1>1. Proved!IInv /\ [Proved!Next]_(Proved!vars) => Proved!IInv'
  BY Assumptions, Proved!NextKeepsIInv
<1> QED
  BY <1>1 DEF tables, Proved!vars

\* What going on to the next statement does to a session, and to no other.
LEMMA AdvanceFacts ==
  ASSUME LockTypes, NEW s \in Session, NEW new \in Transaction, StaysOnItsRoute(s),
         Statement(s) \notin {"none", "commit"},
         new.req = tx[s].req, new.next = tx[s].next, Advance(s, new)
  PROVE  /\ tx' \in [Session -> Transaction]
         /\ \A q \in Session : q # s => tx'[q] = tx[q]
         /\ tx'[s].req = tx[s].req
         /\ tx'[s].next = tx[s].next + 1
         /\ tx'[s].c = new.c
         /\ tx'[s].seen = new.seen
         /\ tx'[s].under = new.under
         /\ tx'[s].entered = new.entered
         /\ tx'[s].cancelled = new.cancelled
         /\ tx[s].next \in Nat
         /\ Running(s)
         /\ tx[s].req \in Requests
         /\ StaysOnItsRoute(s)'
<1>1. Running(s) /\ tx[s].req \in Requests
  BY DEF Statement, Running, LockTypes, Transaction
<1>2. tx[s].req.door \in DOMAIN Route
  BY <1>1, RequestShape
<1>3. Len(Route[tx[s].req.door]) \in Nat /\ Len(Route[tx[s].req.door]) <= 7
  BY <1>2, RoutesEnd
<1>4. tx[s].next \in 1..8
  BY DEF LockTypes, Transaction
<1>5. tx[s].next <= Len(Route[tx[s].req.door])
  BY <1>1, <1>3, <1>4 DEF Statement
<1>6. tx[s].next + 1 \in 1..8
  BY <1>3, <1>4, <1>5
<1>7. tx' = [tx EXCEPT ![s] = [new EXCEPT !.next = tx[s].next + 1]]
  BY DEF Advance
<1>8. [new EXCEPT !.next = tx[s].next + 1] \in Transaction
  BY <1>6 DEF Transaction
<1>9. tx'[s] = [new EXCEPT !.next = tx[s].next + 1]
  BY <1>7 DEF LockTypes
<1>10. tx' \in [Session -> Transaction] /\ \A q \in Session : q # s => tx'[q] = tx[q]
  BY <1>7, <1>8 DEF LockTypes
<1>11. /\ tx'[s].req = tx[s].req /\ tx'[s].next = tx[s].next + 1 /\ tx'[s].c = new.c
       /\ tx'[s].seen = new.seen /\ tx'[s].under = new.under /\ tx'[s].entered = new.entered
       /\ tx'[s].cancelled = new.cancelled
  BY <1>9 DEF Transaction
<1>12. tx[s].next + 1 <= Len(Route[tx[s].req.door]) + 1
  <2> DEFINE last == Len(Route[tx[s].req.door])
  <2> HIDE DEF last
  <2>1. last \in Nat /\ tx[s].next <= last
    BY <1>3, <1>5 DEF last
  <2>2. tx[s].next + 1 <= last + 1
    BY <2>1, <1>4
  <2> QED
    BY <2>2 DEF last
<1>13. StaysOnItsRoute(s)'
  BY <1>11, <1>12, Zenon DEF StaysOnItsRoute
<1> QED
  BY <1>1, <1>4, <1>10, <1>11, <1>13

\* Whoever has its customer's row knows which customer that is.
LEMMA LockedCustomer ==
  ASSUME LockTypes, TableTypes, NEW q \in Session, SessionOK(q), HasLock(q)
  PROVE  /\ tx[q].c \in Customer
         /\ rowLock[tx[q].c] = q
         /\ Exists(tx[q].c)
         /\ tx[q].seen = email[tx[q].c]
<1>1. tx[q].req \in Requests /\ Running(q)
  BY DEF LockTypes, Transaction, HasLock, Presents, NoRequest, Running
<1>2. CASE Presents(q)
  <2>1. HasLocated(q)
    BY <1>2 DEF HasLock, HasLocated, Presents, LockTypes, Transaction
  <2> QED
    BY <1>2, <2>1, TokenRows DEF SessionOK, KnowsItsCustomer, ReadsHold
<1>3. CASE ~Presents(q)
  <2>1. tx[q].c = tx[q].req.c
    BY <1>1, <1>3 DEF SessionOK, KnowsItsCustomer
  <2>2. tx[q].req.c \in Customer
    BY <1>1, <1>3, RequestFields DEF HasLock, Presents
  <2> QED
    BY <2>1, <2>2 DEF SessionOK, ReadsHold
<1> QED
  BY <1>2, <1>3

\* A session that goes on, with locks that were free, leaves the others as they
\* were.
LEMMA SessionGoesOn ==
  ASSUME IInv, NEW s \in Session, UNCHANGED tables, LockTypes',
         \A q \in Session : q # s => tx'[q] = tx[q],
         \A c \in Customer : rowLock'[c] # rowLock[c] => rowLock[c] = NoSession,
         \A t \in ChangeId \cup ResetId : tokenLock'[t] # tokenLock[t] => tokenLock'[t] = s,
         \A k \in ChangeId : tokenLock'[k] # tokenLock[k] =>
           HasLock(s)' /\ changes[k] # NoRow /\ changes[k].owner = tx'[s].c,
         \A r \in ResetId : tokenLock'[r] # tokenLock[r] =>
           HasLock(s)' /\ resets[r] # NoRow /\ resets[r].owner = tx'[s].c,
         HasLock(s) => HasLock(s)' /\ tx'[s].c = tx[s].c,
         SessionOK(s)',
         \A q \in Session : q # s => DrawsAreApart(s, q)' /\ EntriesAreApart(s, q)'
  PROVE  IInv'
<1>1. Proved!IInv'
  BY TablesKept DEF IInv
<1>2. ASSUME NEW q \in Session
      PROVE  SessionOK(q)'
  <2>1. CASE q = s
    BY <2>1
  <2>2. CASE q # s
    <3>1. HasLock(q) => rowLock[tx[q].c] = q /\ tx[q].c \in Customer
      BY TypesOfTables, LockedCustomer DEF IInv
    <3>2. HasLock(q) => rowLock'[tx[q].c] = rowLock[tx[q].c]
      BY <3>1, NoSessionIsApart
    <3> QED
      BY <2>2, <3>2, SessionKept DEF IInv
  <2> QED
    BY <2>1, <2>2
<1>3. ASSUME NEW p \in Session, NEW q \in Session, p # q
      PROVE  DrawsAreApart(p, q)' /\ EntriesAreApart(p, q)'
  <2>1. CASE p = s
    BY <2>1, <1>3
  <2>2. CASE q = s
    <3>1. DrawsAreApart(q, p)' /\ EntriesAreApart(q, p)'
      BY <2>2, <1>3
    <3>2. /\ DrawsAreApart(p, q)' <=> DrawsAreApart(q, p)'
          /\ EntriesAreApart(p, q)' <=> EntriesAreApart(q, p)'
      BY SameAddressBothWays DEF DrawsAreApart, EntriesAreApart
    <3> QED
      BY <3>1, <3>2
  <2>3. CASE p # s /\ q # s
    BY <2>3, <1>3, PairKept DEF IInv, PairsApart
  <2> QED
    BY <2>1, <2>2, <2>3
<1>4. TokenLocksOK'
  <2>1. ASSUME NEW t \in ChangeId \cup ResetId, tokenLock'[t] = tokenLock[t],
               tokenLock[t] # NoSession, HasLock(tokenLock[t])
        PROVE  HasLock(tokenLock[t])' /\ tx'[tokenLock[t]].c = tx[tokenLock[t]].c
    <3>1. tokenLock[t] \in Session
      BY <2>1 DEF IInv, LockTypes
    <3>2. CASE tokenLock[t] = s
      BY <2>1, <3>2 DEF HasLock, Presents
    <3>3. CASE tokenLock[t] # s
      <4>1. tx'[tokenLock[t]] = tx[tokenLock[t]]
        BY <3>1, <3>3
      <4> QED
        BY <2>1, <4>1 DEF HasLock, Presents
    <3> QED
      BY <3>2, <3>3
  <2>2. ASSUME NEW k \in ChangeId
        PROVE  TokenLockOK(changes[k], tokenLock[k])'
    <3>1. CASE tokenLock'[k] = tokenLock[k]
      <4>1. TokenLockOK(changes[k], tokenLock[k])
        BY DEF IInv, TokenLocksOK
      <4> QED
        BY <3>1, <4>1, <2>1 DEF TokenLockOK, tables
    <3>2. CASE tokenLock'[k] # tokenLock[k]
      <4>1. tokenLock'[k] = s
        BY <3>2
      <4> QED
        BY <3>2, <4>1 DEF TokenLockOK, tables, HasLock, Presents
    <3> QED
      BY <3>1, <3>2
  <2>3. ASSUME NEW r \in ResetId
        PROVE  TokenLockOK(resets[r], tokenLock[r])'
    <3>1. CASE tokenLock'[r] = tokenLock[r]
      <4>1. TokenLockOK(resets[r], tokenLock[r])
        BY DEF IInv, TokenLocksOK
      <4> QED
        BY <3>1, <4>1, <2>1 DEF TokenLockOK, tables
    <3>2. CASE tokenLock'[r] # tokenLock[r]
      <4>1. tokenLock'[r] = s
        BY <3>2
      <4> QED
        BY <3>2, <4>1 DEF TokenLockOK, tables, HasLock, Presents
    <3> QED
      BY <3>1, <3>2
  <2> QED
    BY <2>2, <2>3 DEF TokenLocksOK
<1> QED
  BY <1>1, <1>2, <1>3, <1>4 DEF IInv, PairsApart

\* An idle session runs nothing.
LEMMA IdleIsTyped == Idle \in Transaction /\ ~(Idle.req # NoRequest)
BY DEF Idle, Transaction, NoRequest

\* What the end of a transaction does to its session, and to no other.
LEMMA EndFacts ==
  ASSUME LockTypes, NEW s \in Session, End(s)
  PROVE  /\ LockTypes'
         /\ tx'[s] = Idle
         /\ \A q \in Session : q # s => tx'[q] = tx[q]
         /\ \A c \in Customer : rowLock[c] # s => rowLock'[c] = rowLock[c]
         /\ \A t \in ChangeId \cup ResetId :
              tokenLock'[t] = IF tokenLock[t] = s THEN NoSession ELSE tokenLock[t]
<1>1. tx' \in [Session -> Transaction] /\ tx'[s] = Idle
  BY IdleIsTyped DEF End, LockTypes
<1>2. rowLock' \in [Customer -> Session \cup {NoSession}]
  BY DEF End, LockTypes
<1>3. tokenLock' \in [ChangeId \cup ResetId -> Session \cup {NoSession}]
  BY DEF End, LockTypes
<1>4. \A q \in Session : q # s => tx'[q] = tx[q]
  BY DEF End, LockTypes
<1>5. \A c \in Customer : rowLock[c] # s => rowLock'[c] = rowLock[c]
  BY DEF End, LockTypes
<1>6. \A t \in ChangeId \cup ResetId :
        tokenLock'[t] = IF tokenLock[t] = s THEN NoSession ELSE tokenLock[t]
  BY DEF End, LockTypes
<1> QED
  BY <1>1, <1>2, <1>3, <1>4, <1>5, <1>6 DEF LockTypes

\* A session that is idle owes nothing to anybody.
LEMMA IdleIsOK ==
  ASSUME NEW s \in Session, tx'[s] = Idle
  PROVE  /\ SessionOK(s)'
         /\ ~HasLock(s)'
         /\ \A q \in Session : DrawsAreApart(s, q)' /\ EntriesAreApart(s, q)'
         /\ \A q \in Session : DrawsAreApart(q, s)' /\ EntriesAreApart(q, s)'
<1>1. tx'[s].req.door = "none" /\ tx'[s].entered = FALSE /\ tx'[s].req = NoRequest
  BY DEF Idle, NoRequest
<1>2. ~Running(s)' /\ ~Presents(s)' /\ ~HasLock(s)' /\ ~HasLocated(s)' /\ ~HasToken(s)'
  BY <1>1 DEF Running, Presents, HasLock, HasLocated, HasToken
<1>3. /\ ~HasAuthorised(s)' /\ ~HasEntered(s)' /\ ~HasSuperseded(s)' /\ ~DrawsSalt(s)'
      /\ \A door \in DOMAIN Route : ~Runs(s, door)'
  BY <1>1, Doors DEF HasAuthorised, HasEntered, HasSuperseded, DrawsSalt, Runs
<1>4. /\ ~Runs(s, "create_account")' /\ ~Runs(s, "start_email_change")'
      /\ ~Runs(s, "confirm_email_change")' /\ ~Runs(s, "start_password_reset")'
  BY <1>3, Doors
<1>5. StaysOnItsRoute(s)' /\ KnowsItsCustomer(s)' /\ ReadsHold(s)'
  BY <1>2, <1>3 DEF StaysOnItsRoute, KnowsItsCustomer, ReadsHold
<1>6. ChecksHold(s)' /\ DrawsAreFresh(s)' /\ EntryIsUnique(s)'
  BY <1>1, <1>3, <1>4 DEF ChecksHold, DrawsAreFresh, EntryIsUnique
<1>7. \A q \in Session : /\ DrawsAreApart(s, q)' /\ DrawsAreApart(q, s)'
                         /\ EntriesAreApart(s, q)' /\ EntriesAreApart(q, s)'
  BY <1>1, <1>3, <1>4 DEF DrawsAreApart, EntriesAreApart
<1> QED
  BY <1>2, <1>5, <1>6, <1>7 DEF SessionOK

\* The end of a transaction keeps the invariant when what it publishes suits
\* the sessions that go on.
LEMMA SessionEnds ==
  ASSUME IInv, NEW s \in Session, End(s), Proved!IInv',
         \A q \in Session : q # s => SessionOK(q)',
         \A p, q \in Session : p # s /\ q # s /\ p # q =>
           DrawsAreApart(p, q)' /\ EntriesAreApart(p, q)',
         \A k \in ChangeId : changes[k] # NoRow =>
           changes'[k] # NoRow /\ changes'[k].owner = changes[k].owner,
         \A r \in ResetId : resets[r] # NoRow =>
           resets'[r] # NoRow /\ resets'[r].owner = resets[r].owner
  PROVE  IInv'
<1>1. LockTypes' /\ tx'[s] = Idle
  BY EndFacts DEF IInv
<1>2. \A q \in Session : SessionOK(q)'
  BY <1>1, IdleIsOK
<1>3. PairsApart'
  BY <1>1, IdleIsOK DEF PairsApart
<1>4. ASSUME NEW t \in ChangeId \cup ResetId, tokenLock'[t] # NoSession,
             HasLock(tokenLock[t])
      PROVE  /\ tokenLock'[t] = tokenLock[t]
             /\ HasLock(tokenLock[t])' /\ tx'[tokenLock[t]].c = tx[tokenLock[t]].c
  <2>1. tokenLock'[t] = tokenLock[t] /\ tokenLock[t] # s
    BY <1>4, EndFacts DEF IInv
  <2>2. tokenLock[t] \in Session
    BY <1>4, <2>1 DEF IInv, LockTypes
  <2>3. tx'[tokenLock[t]] = tx[tokenLock[t]]
    BY <2>1, <2>2, EndFacts DEF IInv
  <2>4. HasLock(tokenLock[t])'
    BY <1>4, <2>1, <2>3 DEF HasLock, Presents
  <2> QED
    BY <2>1, <2>3, <2>4
<1>5. \A t \in ChangeId \cup ResetId : tokenLock'[t] # NoSession => tokenLock[t] # NoSession
  BY EndFacts DEF IInv
<1>6. ASSUME NEW k \in ChangeId
      PROVE  TokenLockOK(changes[k], tokenLock[k])'
  <2>1. TokenLockOK(changes[k], tokenLock[k])
    BY DEF IInv, TokenLocksOK
  <2> QED
    BY <2>1, <1>4, <1>5 DEF TokenLockOK
<1>7. ASSUME NEW r \in ResetId
      PROVE  TokenLockOK(resets[r], tokenLock[r])'
  <2>1. TokenLockOK(resets[r], tokenLock[r])
    BY DEF IInv, TokenLocksOK
  <2> QED
    BY <2>1, <1>4, <1>5 DEF TokenLockOK
<1> QED
  BY <1>1, <1>2, <1>3, <1>6, <1>7 DEF IInv, TokenLocksOK

\* A refusal, a driver error, a crash, a lost connection.
LEMMA RefuseKeepsIInv ==
  ASSUME IInv, NEW s \in Session, Refuse(s)
  PROVE  IInv'
<1>1. End(s) /\ UNCHANGED tables
  BY DEF Refuse
<1>2. Proved!IInv'
  BY <1>1, TablesKept DEF IInv
<1>3. ASSUME NEW q \in Session, q # s
      PROVE  SessionOK(q)' /\ tx'[q] = tx[q]
  <2>1. tx'[q] = tx[q]
    BY <1>1, <1>3, EndFacts DEF IInv
  <2>2. HasLock(q) => rowLock'[tx[q].c] = rowLock[tx[q].c]
    <3>1. HasLock(q) => rowLock[tx[q].c] = q /\ tx[q].c \in Customer
      BY TypesOfTables, LockedCustomer DEF IInv
    <3> QED
      BY <1>1, <1>3, <3>1, EndFacts DEF IInv
  <2> QED
    BY <1>1, <2>1, <2>2, SessionKept DEF IInv
<1>4. \A p, q \in Session : p # s /\ q # s /\ p # q =>
        DrawsAreApart(p, q)' /\ EntriesAreApart(p, q)'
  BY <1>1, <1>3, PairKept DEF IInv, PairsApart
<1> QED
  BY <1>1, <1>2, <1>3, <1>4, SessionEnds DEF tables

-----------------------------------------------------------------------------
(* The statements.                                                         *)

\* A statement that stages no entry on customers leaves it apart from the others.
LEMMA AdvanceStaysApart ==
  ASSUME IInv, NEW s \in Session, UNCHANGED tables,
         \A q \in Session : q # s => tx'[q] = tx[q],
         tx'[s].req = tx[s].req, tx'[s].entered = tx[s].entered
  PROVE  \A q \in Session : q # s => DrawsAreApart(s, q)' /\ EntriesAreApart(s, q)'
<1> SUFFICES ASSUME NEW q \in Session, q # s
             PROVE  DrawsAreApart(s, q)' /\ EntriesAreApart(s, q)'
  OBVIOUS
<1>1. tx'[q] = tx[q] /\ DrawsAreApart(s, q) /\ EntriesAreApart(s, q)
  BY DEF IInv, PairsApart
<1> QED
  BY <1>1 DEF tables, Runs, DrawsAreApart, DrawsSalt, EntriesAreApart, EntryAddress, TokenRow,
     PresentsChange

\* What a statement keeps for its own session whichever it is: the draws, and
\* the entry.
LEMMA AdvanceKeepsDraws ==
  ASSUME NEW s \in Session, SessionOK(s), UNCHANGED tables,
         tx'[s].req = tx[s].req, tx'[s].entered = tx[s].entered, tx'[s].c = tx[s].c,
         HasEntered(s)' <=> HasEntered(s)
  PROVE  DrawsAreFresh(s)' /\ EntryIsUnique(s)'
BY DEF SessionOK, DrawsAreFresh, DrawsSalt, EntryIsUnique, Exists, Runs, EntryAddress, TokenRow,
   PresentsChange, ReferenceTaken, tables

\* A session opens a door: nothing is read, and what it drew is fresh.
LEMMA BeginKeepsIInv ==
  ASSUME IInv, NEW s \in Session, NEW door \in Door, NEW req \in Request(door), Begin(s, req)
  PROVE  IInv'
<1> DEFINE new == [Idle EXCEPT !.req = req,
                               !.c = IF "c" \in DOMAIN req THEN req.c ELSE NoCustomer]
<1>1. req \in Requests
  BY DoorsAreKnown DEF Requests
<1>2. req.door \in DOMAIN Route /\ req # NoRequest
  BY <1>1, RequestShape
<1>3. tx' = [tx EXCEPT ![s] = new] /\ UNCHANGED tables /\ UNCHANGED <<rowLock, tokenLock>>
  BY DEF Begin
<1>4. "c" \in DOMAIN req => req.c \in Customer
  BY <1>1, <1>2, RequestFields, Doors
<1>5. new \in Transaction
  BY <1>1, <1>4, IdleIsTyped DEF Transaction, Idle
<1>6. /\ tx' \in [Session -> Transaction] /\ tx'[s] = new
      /\ \A q \in Session : q # s => tx'[q] = tx[q]
  BY <1>3, <1>5 DEF IInv, LockTypes
<1>7. /\ tx'[s].req = req /\ tx'[s].next = 1 /\ tx'[s].entered = FALSE
      /\ "c" \in DOMAIN req => tx'[s].c = req.c
  BY <1>6 DEF Idle
<1>8. ~HasLock(s)
  BY DEF Begin, Running, HasLock, Presents, NoRequest
<1>9. StaysOnItsRoute(s)'
  <2> DEFINE last == Len(Route[req.door])
  <2>1. last \in Nat
    BY <1>2, RoutesEnd
  <2> HIDE DEF last
  <2>2. 1 <= last + 1
    BY <2>1
  <2> QED
    BY <1>7, <2>2, Zenon DEF StaysOnItsRoute, last
<1>10. /\ ~HasLocated(s)' /\ ~HasLock(s)' /\ ~HasToken(s)' /\ ~HasAuthorised(s)'
       /\ ~HasEntered(s)' /\ ~HasSuperseded(s)'
  BY <1>7 DEF HasLocated, HasLock, HasToken, HasAuthorised, HasEntered, HasSuperseded
<1>11. KnowsItsCustomer(s)' /\ ReadsHold(s)' /\ ChecksHold(s)'
  <2>1. ~Presents(s)' => tx'[s].c = req.c
    BY <1>1, <1>7, RequestFields DEF Presents
  <2> QED
    BY <1>7, <1>10, <2>1 DEF KnowsItsCustomer, ReadsHold, ChecksHold
<1>12. DrawsAreFresh(s)'
  BY <1>3, <1>7 DEF Begin, Fresh, DrawsAreFresh, DrawsSalt, Runs, tables, Exists
<1>13. EntryIsUnique(s)'
  BY <1>7, <1>10 DEF EntryIsUnique
<1>14. ASSUME NEW q \in Session, q # s
       PROVE  DrawsAreApart(s, q)' /\ EntriesAreApart(s, q)'
  <2>1. tx'[q] = tx[q]
    BY <1>6, <1>14
  <2>2. Fresh(req)
    BY DEF Begin
  <2>3. DrawsAreApart(s, q)'
    <3>1. Runs(s, "create_account")' /\ Runs(q, "create_account")' => req.c # tx[q].req.c
      BY <1>7, <2>1, <2>2 DEF Fresh, Runs
    <3>2. Runs(s, "start_email_change")' /\ Runs(q, "start_email_change")' => req.k # tx[q].req.k
      BY <1>7, <2>1, <2>2 DEF Fresh, Runs
    <3>3. Runs(s, "start_password_reset")' /\ Runs(q, "start_password_reset")' =>
            req.r # tx[q].req.r
      BY <1>7, <2>1, <2>2 DEF Fresh, Runs
    <3>4. DrawsSalt(s)' /\ DrawsSalt(q)' => req.salt # tx[q].req.salt
      BY <1>7, <2>1, <2>2 DEF Fresh, DrawsSalt, DrawnSalts, Runs
    <3> QED
      BY <1>7, <2>1, <3>1, <3>2, <3>3, <3>4 DEF DrawsAreApart
  <2> QED
    BY <1>7, <2>3 DEF EntriesAreApart
<1>15. LockTypes'
  BY <1>3, <1>6 DEF IInv, LockTypes
<1>16. SessionOK(s)'
  BY <1>9, <1>11, <1>12, <1>13 DEF SessionOK
<1> QED
  BY <1>3, <1>6, <1>8, <1>14, <1>15, <1>16, SessionGoesOn

\* The customer of a presented token is looked up: a row keeps its owner.
LEMMA LocateTokenKeepsIInv ==
  ASSUME IInv, NEW s \in Session, LocateToken(s)
  PROVE  IInv'
<1>1. CASE Refuse(s)
  BY <1>1, RefuseKeepsIInv
<1>2. CASE /\ TokenRow(s) # NoRow
           /\ Advance(s, [tx[s] EXCEPT !.c = TokenRow(s).owner])
           /\ UNCHANGED <<tables, rowLock, tokenLock>>
  <2> DEFINE new == [tx[s] EXCEPT !.c = TokenRow(s).owner]
  <2>1. LockTypes /\ TableTypes /\ SessionOK(s)
    BY TypesOfTables DEF IInv
  <2>2. Statement(s) = "locate" /\ Presents(s) /\ tx[s].next = 1
    BY <2>1, Statements DEF LocateToken
  <2>3. TokenRow(s).owner \in Customer
    BY <1>2, <2>1, <2>2, TokenRows
  <2>4. new \in Transaction /\ new.req = tx[s].req /\ new.next = tx[s].next
        /\ new.c = TokenRow(s).owner /\ new.entered = tx[s].entered /\ Advance(s, new)
    BY <1>2, <2>1, <2>3 DEF LockTypes, Transaction
  <2>5. /\ tx' \in [Session -> Transaction]
        /\ \A q \in Session : q # s => tx'[q] = tx[q]
        /\ tx'[s].req = tx[s].req /\ tx'[s].next = 2 /\ tx'[s].c = TokenRow(s).owner
        /\ tx'[s].entered = tx[s].entered
        /\ StaysOnItsRoute(s)'
    <3> HIDE DEF new
    <3> QED
      BY <2>1, <2>2, <2>4, AdvanceFacts DEF SessionOK
  <2>6. LockTypes' /\ UNCHANGED tables
    BY <1>2, <2>1, <2>5 DEF LockTypes
  <2>7. ~HasLock(s) /\ ~HasLock(s)' /\ ~HasEntered(s) /\ ~HasEntered(s)'
    BY <2>2, <2>5 DEF HasLock, HasEntered, Presents, Runs
  <2>8. KnowsItsCustomer(s)' /\ ReadsHold(s)' /\ ChecksHold(s)'
    <3>1. ~HasAuthorised(s)' /\ ~HasToken(s)' /\ ~HasSuperseded(s)' /\ Presents(s)'
      BY <2>2, <2>5 DEF HasAuthorised, HasToken, HasSuperseded, Presents, Runs
    <3>2. TokenRow(s)' = TokenRow(s)
      BY <2>5, <2>6 DEF TokenRow, PresentsChange, Runs, tables
    <3>3. KnowsItsCustomer(s)'
      BY <1>2, <2>5, <3>1, <3>2 DEF KnowsItsCustomer
    <3>4. ReadsHold(s)' /\ ChecksHold(s)'
      BY <2>2, <2>5, <2>7, <3>1 DEF ReadsHold, ChecksHold, Runs, Presents
    <3> QED
      BY <3>3, <3>4
  <2>9. DrawsAreFresh(s)' /\ EntryIsUnique(s)'
    <3>1. ~tx[s].entered
      BY <2>1, <2>7 DEF SessionOK, EntryIsUnique
    <3>2. EntryIsUnique(s)'
      BY <2>5, <2>7, <3>1 DEF EntryIsUnique
    <3>3. DrawsAreFresh(s)'
      BY <2>1, <2>5, <2>6 DEF SessionOK, DrawsAreFresh, DrawsSalt, Exists, Runs, tables
    <3> QED
      BY <3>2, <3>3
  <2>10. SessionOK(s)'
    BY <2>5, <2>8, <2>9 DEF SessionOK
  <2>11. \A q \in Session : q # s => DrawsAreApart(s, q)' /\ EntriesAreApart(s, q)'
    BY <2>5, <2>6, AdvanceStaysApart
  <2> QED
    BY <1>2, <2>5, <2>6, <2>7, <2>10, <2>11, SessionGoesOn
<1> QED
  BY <1>1, <1>2 DEF LocateToken

\* A statement that makes no entry on customers keeps the invariant when what
\* its session knows by then is so.
LEMMA StatementKeepsIInv ==
  ASSUME IInv, NEW s \in Session, NEW new \in Transaction,
         Statement(s) \notin {"none", "commit"},
         new.req = tx[s].req, new.next = tx[s].next, new.c = tx[s].c,
         new.entered = tx[s].entered,
         Advance(s, new), UNCHANGED tables,
         rowLock' \in [Customer -> Session \cup {NoSession}],
         \A c \in Customer : rowLock'[c] # rowLock[c] => rowLock[c] = NoSession,
         tokenLock' \in [ChangeId \cup ResetId -> Session \cup {NoSession}],
         \A t \in ChangeId \cup ResetId : tokenLock'[t] # tokenLock[t] => tokenLock'[t] = s,
         \A k \in ChangeId : tokenLock'[k] # tokenLock[k] =>
           HasLock(s) /\ changes[k] # NoRow /\ changes[k].owner = tx[s].c,
         \A r \in ResetId : tokenLock'[r] # tokenLock[r] =>
           HasLock(s) /\ resets[r] # NoRow /\ resets[r].owner = tx[s].c,
         Presents(s) => HasLocated(s),
         HasEntered(s)' <=> HasEntered(s),
         ReadsHold(s)', ChecksHold(s)'
  PROVE  IInv'
<1>1. LockTypes /\ SessionOK(s)
  BY DEF IInv
<1>2. /\ tx' \in [Session -> Transaction]
      /\ \A q \in Session : q # s => tx'[q] = tx[q]
      /\ tx'[s].req = tx[s].req /\ tx'[s].next = tx[s].next + 1 /\ tx'[s].c = tx[s].c
      /\ tx'[s].entered = tx[s].entered /\ tx[s].next \in Nat
      /\ StaysOnItsRoute(s)'
  BY <1>1, AdvanceFacts DEF SessionOK
<1>3. LockTypes'
  BY <1>2 DEF LockTypes
<1>4. HasLock(s) => HasLock(s)' /\ tx'[s].c = tx[s].c
  BY <1>2 DEF HasLock, Presents
<1>5. KnowsItsCustomer(s)'
  <2>1. Presents(s)' <=> Presents(s)
    BY <1>2 DEF Presents
  <2>2. Running(s)' <=> Running(s)
    BY <1>2 DEF Running
  <2>3. TokenRow(s)' = TokenRow(s)
    BY <1>2 DEF TokenRow, PresentsChange, Runs, tables
  <2> QED
    BY <1>1, <1>2, <2>1, <2>2, <2>3 DEF SessionOK, KnowsItsCustomer, HasLocated
<1>6. DrawsAreFresh(s)' /\ EntryIsUnique(s)'
  BY <1>1, <1>2, AdvanceKeepsDraws
<1>7. SessionOK(s)'
  BY <1>2, <1>5, <1>6 DEF SessionOK
<1>8. \A q \in Session : q # s => DrawsAreApart(s, q)' /\ EntriesAreApart(s, q)'
  BY <1>2, AdvanceStaysApart
<1> QED
  BY <1>2, <1>3, <1>4, <1>7, <1>8, SessionGoesOn

\* The customer's row is locked and read.
LEMMA LockCustomerKeepsIInv ==
  ASSUME IInv, NEW s \in Session, LockCustomer(s)
  PROVE  IInv'
<1>1. CASE Refuse(s)
  BY <1>1, RefuseKeepsIInv
<1>2. CASE ~Refuse(s)
  <2> DEFINE c   == tx[s].c
             new == [tx[s] EXCEPT !.seen = email[c]]
  <2>1. LockTypes /\ TableTypes /\ SessionOK(s)
    BY TypesOfTables DEF IInv
  <2>2. /\ Statement(s) = "lock"
        /\ \/ /\ tx[s].req.door \in {"set_password", "start_email_change", "start_password_reset"}
              /\ tx[s].next = 1
           \/ Presents(s) /\ tx[s].next = 2
    BY <2>1, Statements DEF LockCustomer
  <2>3. /\ Exists(c) /\ rowLock[c] \in {NoSession, s}
        /\ rowLock' = [rowLock EXCEPT ![c] = s]
        /\ Advance(s, new)
        /\ UNCHANGED <<tables, tokenLock>>
    BY <1>2 DEF LockCustomer
  <2>4. Running(s) /\ tx[s].req \in Requests
    BY <2>2 DEF Statement, Running, LockTypes, Transaction, IInv
  <2>5. c \in Customer
    <3>1. CASE Presents(s)
      BY <2>1, <2>2, <3>1, TokenRows DEF SessionOK, KnowsItsCustomer, HasLocated, Presents
    <3>2. CASE ~Presents(s)
      BY <2>1, <2>2, <2>4, <3>2, RequestFields DEF SessionOK, KnowsItsCustomer
    <3> QED
      BY <3>1, <3>2
  <2>6. new \in Transaction /\ new.req = tx[s].req /\ new.next = tx[s].next
        /\ new.c = tx[s].c /\ new.entered = tx[s].entered /\ new.seen = email[c]
    BY <2>1, <2>5 DEF LockTypes, Transaction, TableTypes
  <2> HIDE DEF new
  <2>7. /\ tx'[s].req = tx[s].req /\ tx'[s].next = tx[s].next + 1 /\ tx'[s].c = tx[s].c
        /\ tx'[s].seen = email[c]
    BY <2>1, <2>2, <2>3, <2>6, AdvanceFacts DEF SessionOK
  <2>8. /\ rowLock' \in [Customer -> Session \cup {NoSession}]
        /\ \A d \in Customer : rowLock'[d] # rowLock[d] => rowLock[d] = NoSession
        /\ rowLock'[c] = s
    BY <2>1, <2>3, <2>5 DEF LockTypes
  <2>9. ~HasAuthorised(s)' /\ ~HasToken(s)' /\ ~HasSuperseded(s)' /\ ~HasEntered(s)'
        /\ ~HasEntered(s)
    BY <2>2, <2>7 DEF HasAuthorised, HasToken, HasSuperseded, HasEntered, Presents, Runs
  <2>10. ReadsHold(s)'
    BY <2>3, <2>7, <2>8, <2>9 DEF ReadsHold, Exists, tables
  <2>11. ChecksHold(s)'
    BY <2>2, <2>7 DEF ChecksHold, Runs, Presents
  <2>12. Presents(s) => HasLocated(s)
    BY <2>2 DEF Presents, HasLocated
  <2>13. tokenLock' = tokenLock /\ tokenLock \in [ChangeId \cup ResetId -> Session \cup {NoSession}]
    BY <2>1, <2>3 DEF LockTypes
  <2> QED
    BY <2>2, <2>3, <2>6, <2>8, <2>9, <2>10, <2>11, <2>12, <2>13, StatementKeepsIInv
<1> QED
  BY <1>1, <1>2

\* The token row is locked, read again and judged.
LEMMA LockTokenKeepsIInv ==
  ASSUME IInv, NEW s \in Session, LockToken(s)
  PROVE  IInv'
<1>1. CASE Refuse(s)
  BY <1>1, RefuseKeepsIInv
<1>2. CASE ~Refuse(s)
  <2>1. LockTypes /\ TableTypes /\ SessionOK(s)
    BY TypesOfTables DEF IInv
  <2>2. Statement(s) = "token" /\ Presents(s) /\ tx[s].next = 3
    BY <2>1, Statements DEF LockToken
  <2>3. /\ Presentable(TokenRow(s), tx[s].req.at)
        /\ tokenLock[Token(s)] \in {NoSession, s}
        /\ tokenLock' = [tokenLock EXCEPT ![Token(s)] = s]
        /\ Advance(s, tx[s])
        /\ UNCHANGED <<tables, rowLock>>
    BY <1>2 DEF LockToken
  <2>4. tx[s] \in Transaction
    BY <2>1 DEF LockTypes
  <2>5. HasLock(s) /\ HasLocated(s)
    BY <2>2 DEF HasLock, HasLocated
  <2>6. /\ tx'[s].req = tx[s].req /\ tx'[s].next = 4 /\ tx'[s].c = tx[s].c
        /\ tx'[s].seen = tx[s].seen
    BY <2>1, <2>2, <2>3, <2>4, AdvanceFacts DEF SessionOK
  <2>7. rowLock[tx[s].c] = s /\ Exists(tx[s].c) /\ tx[s].seen = email[tx[s].c]
    BY <2>1, <2>5, LockedCustomer
  <2>8. TokenRow(s)' = TokenRow(s)
    BY <2>3, <2>6 DEF TokenRow, PresentsChange, Runs, tables
  <2>9. ReadsHold(s)'
    <3>1. ~HasAuthorised(s)' /\ ~HasSuperseded(s)'
      BY <2>2, <2>6 DEF HasAuthorised, HasSuperseded, Runs, Presents
    <3> QED
      BY <2>3, <2>6, <2>7, <2>8, <3>1 DEF ReadsHold, Exists, tables
  <2>10. ChecksHold(s)'
    BY <2>2, <2>6 DEF ChecksHold, Runs, Presents
  <2>11. ~HasEntered(s)' /\ ~HasEntered(s)
    BY <2>2, <2>6 DEF HasEntered, Runs, Presents
  <2>12. TokenRow(s) # NoRow /\ TokenRow(s).owner = tx[s].c
    BY <2>1, <2>5 DEF SessionOK, KnowsItsCustomer
  <2>13. /\ tokenLock' \in [ChangeId \cup ResetId -> Session \cup {NoSession}]
         /\ \A t \in ChangeId \cup ResetId :
              tokenLock'[t] # tokenLock[t] => t = Token(s) /\ tokenLock'[t] = s
    BY <2>1, <2>3 DEF LockTypes
  <2>14. \/ Token(s) \in ChangeId /\ TokenRow(s) = changes[Token(s)]
         \/ Token(s) \in ResetId /\ TokenRow(s) = resets[Token(s)]
    BY <2>1, <2>2, TokenRows DEF Presents, Runs
  <2>15. /\ \A k \in ChangeId : tokenLock'[k] # tokenLock[k] =>
              changes[k] # NoRow /\ changes[k].owner = tx[s].c
         /\ \A r \in ResetId : tokenLock'[r] # tokenLock[r] =>
              resets[r] # NoRow /\ resets[r].owner = tx[s].c
    BY <2>12, <2>13, <2>14, TokenTablesAreApart
  <2>16. rowLock' = rowLock /\ rowLock \in [Customer -> Session \cup {NoSession}]
    BY <2>1, <2>3 DEF LockTypes
  <2> QED
    BY <2>2, <2>3, <2>4, <2>5, <2>9, <2>10, <2>11, <2>13, <2>15, <2>16, StatementKeepsIInv
<1> QED
  BY <1>1, <1>2

\* The credential that authorises a change is the one in force from then on.
LEMMA AuthoriseKeepsIInv ==
  ASSUME IInv, NEW s \in Session, Authorise(s)
  PROVE  IInv'
<1>1. CASE Refuse(s)
  BY <1>1, RefuseKeepsIInv
<1>2. CASE ~Refuse(s)
  <2> DEFINE stored == credential[tx[s].c]
             new    == [tx[s] EXCEPT !.under = stored.salt]
  <2>1. LockTypes /\ TableTypes /\ SessionOK(s)
    BY TypesOfTables DEF IInv
  <2>2. Statement(s) = "authorise" /\ Runs(s, "start_email_change") /\ tx[s].next = 2
    BY <2>1, Statements DEF Authorise
  <2>3. /\ tx[s].req.proof # ByCaller => Verified(stored, tx[s].req.proof)
        /\ Advance(s, new)
        /\ UNCHANGED <<tables, rowLock, tokenLock>>
    BY <1>2 DEF Authorise
  <2>4. HasLock(s) /\ ~Presents(s)
    BY <2>2 DEF HasLock, Presents, Runs
  <2>5. /\ tx[s].c \in Customer
        /\ rowLock[tx[s].c] = s /\ Exists(tx[s].c) /\ tx[s].seen = email[tx[s].c]
    BY <2>1, <2>4, LockedCustomer
  <2>6. stored.salt \in Salt \cup {NoSalt}
    BY <2>1, <2>5 DEF TableTypes, Credential
  <2>7. /\ new \in Transaction /\ new.req = tx[s].req /\ new.next = tx[s].next
        /\ new.c = tx[s].c /\ new.entered = tx[s].entered /\ new.seen = tx[s].seen
        /\ new.under = stored.salt
    BY <2>1, <2>6 DEF LockTypes, Transaction
  <2> HIDE DEF new
  <2>8. /\ tx'[s].req = tx[s].req /\ tx'[s].next = 3 /\ tx'[s].c = tx[s].c
        /\ tx'[s].seen = tx[s].seen /\ tx'[s].under = stored.salt
    BY <2>1, <2>2, <2>3, <2>7, AdvanceFacts DEF SessionOK
  <2>9. ReadsHold(s)'
    <3>1. ~HasToken(s)' /\ ~HasSuperseded(s)'
      BY <2>2, <2>8 DEF HasToken, HasSuperseded, Runs, Presents
    <3> QED
      BY <2>3, <2>5, <2>8, <3>1 DEF ReadsHold, Exists, tables
  <2>10. ChecksHold(s)'
    BY <2>2, <2>8 DEF ChecksHold, Runs
  <2>11. ~HasEntered(s)' /\ ~HasEntered(s)
    BY <2>2, <2>8 DEF HasEntered, Runs
  <2>12. /\ rowLock' = rowLock /\ rowLock \in [Customer -> Session \cup {NoSession}]
         /\ tokenLock' = tokenLock
         /\ tokenLock \in [ChangeId \cup ResetId -> Session \cup {NoSession}]
    BY <2>1, <2>3 DEF LockTypes
  <2> QED
    BY <2>2, <2>3, <2>4, <2>7, <2>9, <2>10, <2>11, <2>12, StatementKeepsIInv
<1> QED
  BY <1>1, <1>2

\* The checks of a door; what they find of its own customer stays so.
LEMMA CheckKeepsIInv ==
  ASSUME IInv, NEW s \in Session, Check(s)
  PROVE  IInv'
<1>1. CASE Refuse(s)
  BY <1>1, RefuseKeepsIInv
<1>2. CASE ~Refuse(s)
  <2>1. LockTypes /\ TableTypes /\ SessionOK(s)
    BY TypesOfTables DEF IInv
  <2>2. /\ Statement(s) = "check"
        /\ \/ Runs(s, "create_account") /\ tx[s].next = 1
           \/ Runs(s, "start_email_change") /\ tx[s].next = 3
           \/ Runs(s, "confirm_email_change") /\ tx[s].next = 4
           \/ Runs(s, "start_password_reset") /\ tx[s].next = 2
    BY <2>1, Statements DEF Check
  <2>3. ~Objection(s) /\ Advance(s, tx[s]) /\ UNCHANGED <<tables, rowLock, tokenLock>>
    BY <1>2 DEF Check
  <2>4. tx[s] \in Transaction
    BY <2>1 DEF LockTypes
  <2>5. /\ tx'[s].req = tx[s].req /\ tx'[s].next = tx[s].next + 1 /\ tx'[s].c = tx[s].c
        /\ tx'[s].seen = tx[s].seen /\ tx'[s].under = tx[s].under
    BY <2>1, <2>2, <2>3, <2>4, AdvanceFacts DEF SessionOK
  <2>6. TokenRow(s)' = TokenRow(s)
    BY <2>3, <2>5 DEF TokenRow, PresentsChange, Runs, tables
  <2>7. ReadsHold(s)'
    <3>1. ~HasSuperseded(s)'
      BY <2>2, <2>5 DEF HasSuperseded, Runs
    <3>2. /\ HasLock(s)' <=> HasLock(s)
          /\ HasAuthorised(s)' <=> HasAuthorised(s)
          /\ HasToken(s)' <=> HasToken(s)
      BY <2>2, <2>5 DEF HasLock, HasAuthorised, HasToken, Runs, Presents
    <3>3. ReadsHold(s)
      BY <2>1 DEF SessionOK
    <3> QED
      BY <2>3, <2>5, <2>6, <3>1, <3>2, <3>3 DEF ReadsHold, Exists, tables
  <2>8. ChecksHold(s)'
    <3>1. CASE Runs(s, "create_account")
      BY <2>5, <3>1 DEF ChecksHold, Runs
    <3>2. CASE Runs(s, "start_email_change")
      <4>1. HasLock(s)
        BY <2>2, <3>2 DEF HasLock, Runs
      <4>2. tx[s].c \in Customer /\ Exists(tx[s].c)
        BY <2>1, <4>1, LockedCustomer
      <4>3. /\ Holders(email, tx[s].req.a) = {}
            /\ Readable(Expiry(tx[s].req.at, tx[s].req.window))
        BY <2>3, <3>2 DEF Objection, Runs
      <4>4. ~SameAddress(email[tx[s].c], tx[s].req.a)
        BY <2>1, <4>2, <4>3 DEF Holders, Exists, TableTypes
      <4> QED
        BY <2>3, <2>5, <3>2, <4>3, <4>4 DEF ChecksHold, Runs, tables
    <3>3. CASE Runs(s, "confirm_email_change")
      <4>1. ~BeforeLatestChange(history[tx[s].c], tx[s].req.at)
        BY <2>3, <3>3 DEF Objection, Runs
      <4> QED
        BY <2>3, <2>5, <3>3, <4>1 DEF ChecksHold, Runs, tables
    <3>4. CASE Runs(s, "start_password_reset")
      <4>1. /\ HasCredential(credential[tx[s].c])
            /\ Readable(Expiry(tx[s].req.at, tx[s].req.window))
        BY <2>3, <3>4 DEF Objection, Runs
      <4> QED
        BY <2>3, <2>5, <3>4, <4>1 DEF ChecksHold, Runs, tables
    <3> QED
      BY <2>2, <3>1, <3>2, <3>3, <3>4
  <2>9. HasEntered(s)' <=> HasEntered(s)
    BY <2>2, <2>5 DEF HasEntered, Runs
  <2>10. Presents(s) => HasLocated(s)
    BY <2>2 DEF HasLocated, Presents, Runs
  <2>11. /\ rowLock' = rowLock /\ rowLock \in [Customer -> Session \cup {NoSession}]
         /\ tokenLock' = tokenLock
         /\ tokenLock \in [ChangeId \cup ResetId -> Session \cup {NoSession}]
    BY <2>1, <2>3 DEF LockTypes
  <2> QED
    BY <2>2, <2>3, <2>4, <2>7, <2>8, <2>9, <2>10, <2>11, StatementKeepsIInv
<1> QED
  BY <1>1, <1>2

\* The token row is spent, on the strength of its judgement.
LEMMA SpendTokenKeepsIInv ==
  ASSUME IInv, NEW s \in Session, SpendToken(s)
  PROVE  IInv'
<1>1. CASE Refuse(s)
  BY <1>1, RefuseKeepsIInv
<1>2. CASE ~Refuse(s)
  <2> DEFINE new == [tx[s] EXCEPT !.spent = {Token(s)}]
  <2>1. LockTypes /\ TableTypes /\ SessionOK(s)
    BY TypesOfTables DEF IInv
  <2>2. /\ Statement(s) = "spend"
        /\ \/ Runs(s, "confirm_email_change") /\ tx[s].next = 5
           \/ Runs(s, "consume_password_reset") /\ tx[s].next = 4
    BY <2>1, Statements DEF SpendToken
  <2>3. /\ tokenLock[Token(s)] \in {NoSession, s}
        /\ tokenLock' = [tokenLock EXCEPT ![Token(s)] = s]
        /\ Advance(s, new)
        /\ UNCHANGED <<tables, rowLock>>
    BY <1>2 DEF SpendToken
  <2>4. Presents(s) /\ HasLock(s) /\ HasLocated(s) /\ HasToken(s)
    BY <2>2 DEF HasLock, HasLocated, HasToken, Presents, Runs
  <2>5. Token(s) \in ChangeId \cup ResetId
    BY <2>1, <2>4, TokenRows
  <2>6. /\ new \in Transaction /\ new.req = tx[s].req /\ new.next = tx[s].next
        /\ new.c = tx[s].c /\ new.entered = tx[s].entered /\ new.seen = tx[s].seen
    BY <2>1, <2>5 DEF LockTypes, Transaction
  <2> HIDE DEF new
  <2>7. /\ tx'[s].req = tx[s].req /\ tx'[s].next = tx[s].next + 1 /\ tx'[s].c = tx[s].c
        /\ tx'[s].seen = tx[s].seen
    BY <2>1, <2>2, <2>3, <2>6, AdvanceFacts DEF SessionOK
  <2>8. TokenRow(s)' = TokenRow(s)
    BY <2>3, <2>7 DEF TokenRow, PresentsChange, Runs, tables
  <2>9. ReadsHold(s)'
    <3>1. ~HasAuthorised(s)' /\ ~HasSuperseded(s)'
      BY <2>2, <2>7 DEF HasAuthorised, HasSuperseded, Runs
    <3>2. ReadsHold(s)
      BY <2>1 DEF SessionOK
    <3> QED
      BY <2>3, <2>4, <2>7, <2>8, <3>1, <3>2 DEF ReadsHold, Exists, tables
  <2>10. ChecksHold(s)'
    <3>1. ChecksHold(s)
      BY <2>1 DEF SessionOK
    <3> QED
      BY <2>2, <2>3, <2>7, <3>1 DEF ChecksHold, Runs, tables
  <2>11. ~HasEntered(s)' /\ ~HasEntered(s)
    BY <2>2, <2>7 DEF HasEntered, Runs
  <2>12. TokenRow(s) # NoRow /\ TokenRow(s).owner = tx[s].c
    BY <2>1, <2>4 DEF SessionOK, KnowsItsCustomer
  <2>13. /\ tokenLock' \in [ChangeId \cup ResetId -> Session \cup {NoSession}]
         /\ \A t \in ChangeId \cup ResetId :
              tokenLock'[t] # tokenLock[t] => t = Token(s) /\ tokenLock'[t] = s
    BY <2>1, <2>3 DEF LockTypes
  <2>14. \/ Token(s) \in ChangeId /\ TokenRow(s) = changes[Token(s)]
         \/ Token(s) \in ResetId /\ TokenRow(s) = resets[Token(s)]
    BY <2>1, <2>4, TokenRows DEF Presents, Runs
  <2>15. /\ \A k \in ChangeId : tokenLock'[k] # tokenLock[k] =>
              changes[k] # NoRow /\ changes[k].owner = tx[s].c
         /\ \A r \in ResetId : tokenLock'[r] # tokenLock[r] =>
              resets[r] # NoRow /\ resets[r].owner = tx[s].c
    BY <2>12, <2>13, <2>14, TokenTablesAreApart
  <2>16. rowLock' = rowLock /\ rowLock \in [Customer -> Session \cup {NoSession}]
    BY <2>1, <2>3 DEF LockTypes
  <2> QED
    BY <2>2, <2>3, <2>4, <2>6, <2>9, <2>10, <2>11, <2>13, <2>15, <2>16, StatementKeepsIInv
<1> QED
  BY <1>1, <1>2

\* The rows a door cancels are its own customer's.
LEMMA RowsToCancel ==
  ASSUME TableTypes, NEW s \in Session
  PROVE  /\ ToCancel(s) \subseteq ChangeId \cup ResetId
         /\ \A k \in ChangeId : k \in ToCancel(s) => changes[k] # NoRow /\ changes[k].owner = tx[s].c
         /\ \A r \in ResetId : r \in ToCancel(s) => resets[r] # NoRow /\ resets[r].owner = tx[s].c
<1>1. CASE CancelsResets(s)
  BY <1>1, TokenTablesAreApart DEF ToCancel, Outstanding, TableTypes
<1>2. CASE ~CancelsResets(s)
  BY <1>2, TokenTablesAreApart DEF ToCancel, Outstanding, TableTypes
<1> QED
  BY <1>1, <1>2

\* The tokens a door cancels are the outstanding ones from then on.
LEMMA SupersedeTokensKeepsIInv ==
  ASSUME IInv, NEW s \in Session, SupersedeTokens(s)
  PROVE  IInv'
<1> DEFINE new == [tx[s] EXCEPT !.cancelled = ToCancel(s)]
<1>1. LockTypes /\ TableTypes /\ SessionOK(s)
  BY TypesOfTables DEF IInv
<1>2. /\ Statement(s) = "supersede"
      /\ \/ Runs(s, "set_password") /\ tx[s].next = 2
         \/ Runs(s, "start_email_change") /\ tx[s].next = 4
         \/ Runs(s, "confirm_email_change") /\ tx[s].next = 7
         \/ Runs(s, "start_password_reset") /\ tx[s].next = 3
         \/ Runs(s, "consume_password_reset") /\ tx[s].next = 5
  BY <1>1, Statements DEF SupersedeTokens
<1>3. /\ tokenLock' = [t \in DOMAIN tokenLock |-> IF t \in ToCancel(s) THEN s ELSE tokenLock[t]]
      /\ Advance(s, new)
      /\ UNCHANGED <<tables, rowLock>>
  BY DEF SupersedeTokens
<1>4. ToCancel(s) \subseteq ChangeId \cup ResetId
  BY <1>1, RowsToCancel
<1>5. /\ new \in Transaction /\ new.req = tx[s].req /\ new.next = tx[s].next
      /\ new.c = tx[s].c /\ new.entered = tx[s].entered /\ new.seen = tx[s].seen
      /\ new.under = tx[s].under /\ new.cancelled = ToCancel(s)
  BY <1>1, <1>4 DEF LockTypes, Transaction
<1> HIDE DEF new
<1>6. /\ tx'[s].req = tx[s].req /\ tx'[s].next = tx[s].next + 1 /\ tx'[s].c = tx[s].c
      /\ tx'[s].seen = tx[s].seen /\ tx'[s].under = tx[s].under
      /\ tx'[s].cancelled = ToCancel(s)
  BY <1>1, <1>2, <1>3, <1>5, AdvanceFacts DEF SessionOK
<1>7. TokenRow(s)' = TokenRow(s) /\ ToCancel(s)' = ToCancel(s)
  BY <1>3, <1>6 DEF TokenRow, PresentsChange, Runs, tables, ToCancel, CancelsResets
<1>8. HasLock(s) /\ (Presents(s) => HasLocated(s))
  BY <1>2 DEF HasLock, HasLocated, Presents, Runs
<1>9. ReadsHold(s)'
  <2>1. ReadsHold(s)
    BY <1>1 DEF SessionOK
  <2>2. /\ HasAuthorised(s)' => HasAuthorised(s)
        /\ HasToken(s)' => HasToken(s)
    BY <1>2, <1>6 DEF HasAuthorised, HasToken, Runs, Presents
  <2> QED
    BY <1>3, <1>6, <1>7, <1>8, <2>1, <2>2 DEF ReadsHold, Exists, tables
<1>10. ChecksHold(s)'
  <2>1. ChecksHold(s)
    BY <1>1 DEF SessionOK
  <2> QED
    BY <1>2, <1>3, <1>6, <2>1 DEF ChecksHold, Runs, tables
<1>11. HasEntered(s)' <=> HasEntered(s)
  BY <1>2, <1>6 DEF HasEntered, Runs
<1>12. /\ tokenLock' \in [ChangeId \cup ResetId -> Session \cup {NoSession}]
       /\ \A t \in ChangeId \cup ResetId :
            tokenLock'[t] # tokenLock[t] => t \in ToCancel(s) /\ tokenLock'[t] = s
  BY <1>1, <1>3 DEF LockTypes
<1>13. /\ \A k \in ChangeId : tokenLock'[k] # tokenLock[k] =>
            changes[k] # NoRow /\ changes[k].owner = tx[s].c
       /\ \A r \in ResetId : tokenLock'[r] # tokenLock[r] =>
            resets[r] # NoRow /\ resets[r].owner = tx[s].c
  BY <1>1, <1>12, RowsToCancel
<1>14. rowLock' = rowLock /\ rowLock \in [Customer -> Session \cup {NoSession}]
  BY <1>1, <1>3 DEF LockTypes
<1> QED
  BY <1>2, <1>3, <1>5, <1>8, <1>9, <1>10, <1>11, <1>12, <1>13, <1>14, StatementKeepsIInv

\* The entry on customers: it waited for the ones it might meet, and the index
\* has no other row for it.
LEMMA EnterCustomerKeepsIInv ==
  ASSUME IInv, NEW s \in Session, EnterCustomer(s)
  PROVE  IInv'
<1>1. CASE Refuse(s)
  BY <1>1, RefuseKeepsIInv
<1>2. CASE ~Refuse(s)
  <2> DEFINE new == [tx[s] EXCEPT !.entered = TRUE]
  <2>1. LockTypes /\ TableTypes /\ SessionOK(s)
    BY TypesOfTables DEF IInv
  <2>2. /\ Statement(s) \in {"insert", "rewrite"}
        /\ \/ Runs(s, "create_account") /\ tx[s].next = 2
           \/ Runs(s, "confirm_email_change") /\ tx[s].next = 6
    BY <2>1, Statements DEF EnterCustomer
  <2>3. /\ \A q \in Session : ~Contends(s, q)
        /\ ~UniqueViolation(s)
        /\ Advance(s, new)
        /\ UNCHANGED <<tables, rowLock, tokenLock>>
    BY <1>2 DEF EnterCustomer
  <2>4. /\ new \in Transaction /\ new.req = tx[s].req /\ new.next = tx[s].next
        /\ new.c = tx[s].c /\ new.entered = TRUE /\ new.seen = tx[s].seen
    BY <2>1 DEF LockTypes, Transaction
  <2> HIDE DEF new
  <2>5. /\ tx' \in [Session -> Transaction]
        /\ \A q \in Session : q # s => tx'[q] = tx[q]
        /\ tx'[s].req = tx[s].req /\ tx'[s].next = tx[s].next + 1 /\ tx'[s].c = tx[s].c
        /\ tx'[s].seen = tx[s].seen /\ tx'[s].entered = TRUE
        /\ StaysOnItsRoute(s)'
    BY <2>1, <2>2, <2>3, <2>4, AdvanceFacts DEF SessionOK
  <2>6. LockTypes' /\ UNCHANGED tables /\ UNCHANGED rowLock /\ UNCHANGED tokenLock
    BY <2>1, <2>3, <2>5 DEF LockTypes
  <2>7. TokenRow(s)' = TokenRow(s)
    BY <2>5, <2>6 DEF TokenRow, PresentsChange, Runs, tables
  <2>8. /\ HasLock(s)' <=> HasLock(s)
        /\ HasToken(s)' <=> HasToken(s)
        /\ HasLocated(s)' <=> HasLocated(s)
        /\ ~HasAuthorised(s)' /\ ~HasSuperseded(s)' /\ HasEntered(s)'
        /\ Running(s)' <=> Running(s)
        /\ Presents(s)' <=> Presents(s)
    BY <2>2, <2>5 DEF HasLock, HasToken, HasLocated, HasAuthorised, HasSuperseded, HasEntered,
       Runs, Presents, Running
  <2>9. KnowsItsCustomer(s)'
    BY <2>1, <2>5, <2>7, <2>8 DEF SessionOK, KnowsItsCustomer
  <2>10. ReadsHold(s)'
    <3>1. ReadsHold(s)
      BY <2>1 DEF SessionOK
    <3> QED
      BY <2>5, <2>6, <2>7, <2>8, <3>1 DEF ReadsHold, Exists, tables
  <2>11. ChecksHold(s)'
    <3>1. ChecksHold(s)
      BY <2>1 DEF SessionOK
    <3> QED
      BY <2>2, <2>5, <2>6, <3>1 DEF ChecksHold, Runs, tables
  <2>12. DrawsAreFresh(s)'
    BY <2>1, <2>5, <2>6 DEF SessionOK, DrawsAreFresh, DrawsSalt, Exists, Runs, tables
  <2>13. EntryAddress(s)' = EntryAddress(s)
    BY <2>5, <2>7 DEF EntryAddress, Runs
  <2>14. EntryIsUnique(s)'
    BY <2>3, <2>5, <2>6, <2>8, <2>13
       DEF EntryIsUnique, UniqueViolation, ReferenceTaken, Runs, tables
  <2>15. SessionOK(s)'
    BY <2>5, <2>9, <2>10, <2>11, <2>12, <2>14 DEF SessionOK
  <2>16. ASSUME NEW q \in Session, q # s
         PROVE  DrawsAreApart(s, q)' /\ EntriesAreApart(s, q)'
    <3>1. tx'[q] = tx[q]
      BY <2>5, <2>16
    <3>2. EntryAddress(q)' = EntryAddress(q)
      BY <2>6, <3>1 DEF EntryAddress, TokenRow, PresentsChange, Runs, tables
    <3>3. ~Contends(s, q)
      BY <2>3
    <3>4. DrawsAreApart(s, q)
      BY <2>16 DEF IInv, PairsApart
    <3>5. DrawsAreApart(s, q)'
      BY <2>5, <3>1, <3>4 DEF DrawsAreApart, DrawsSalt, Runs
    <3>6. EntriesAreApart(s, q)'
      BY <2>5, <2>13, <2>16, <3>1, <3>2, <3>3, SameAddressBothWays
         DEF EntriesAreApart, Contends, Runs
    <3> QED
      BY <3>5, <3>6
  <2>17. HasLock(s) => HasLock(s)' /\ tx'[s].c = tx[s].c
    BY <2>5, <2>8
  <2> QED
    BY <2>5, <2>6, <2>15, <2>16, <2>17, SessionGoesOn
<1> QED
  BY <1>1, <1>2

-----------------------------------------------------------------------------
(* The commit.                                                             *)

\* The rules of the tables are the same ones in the two specifications.
LEMMA SameRules ==
  /\ \A e, a : Proved!Holders(e, a) = Holders(e, a)
  /\ \A a, b : Proved!SameAddress(a, b) <=> SameAddress(a, b)
  /\ \A table, c, reason :
       Proved!Supersede(table, c, reason) = Cancelled(table, Outstanding(table, c), reason)
  /\ \A table, k, at : Proved!Spend(table, k, at) = Spend(table, k, at)
  /\ \A row, at : Proved!Presentable(row, at) <=> Presentable(row, at)
  /\ \A past, at : Proved!BeforeLatestChange(past, at) <=> BeforeLatestChange(past, at)
  /\ \A at, window : Proved!Expiry(at, window) = Expiry(at, window)
  /\ \A at : Proved!Readable(at) <=> Readable(at)
  /\ \A stored, p : Proved!Verified(stored, p) <=> Verified(stored, p)
  /\ \A stored : Proved!HasCredential(stored) <=> HasCredential(stored)
  /\ \A p, salt : Proved!HashPassword(p, salt) = HashPassword(p, salt)
  /\ Proved!ByCaller = ByCaller /\ Proved!ByPassword = ByPassword
  /\ Proved!Superseded = Superseded /\ Proved!PasswordSet = PasswordSet
  /\ Proved!EmailChanged = EmailChanged
<1>1. \A a, b : Proved!SameAddress(a, b) <=> SameAddress(a, b)
  BY DEF Proved!SameAddress, SameAddress
<1>2. \A e, a : Proved!Holders(e, a) = Holders(e, a)
  BY DEF Proved!Holders, Holders, Proved!SameAddress, SameAddress
<1>3. \A table, c, reason :
        Proved!Supersede(table, c, reason) = Cancelled(table, Outstanding(table, c), reason)
  BY DEF Proved!Supersede, Proved!Cancelled, Cancelled, Proved!Outstanding, Outstanding
<1>4. \A table, k, at : Proved!Spend(table, k, at) = Spend(table, k, at)
  BY DEF Proved!Spend, Spend
<1>5. \A row, at : Proved!Presentable(row, at) <=> Presentable(row, at)
  BY DEF Proved!Presentable, Presentable, Proved!Judgement, Judgement, Proved!IsExpired, IsExpired
<1>6. \A past, at : Proved!BeforeLatestChange(past, at) <=> BeforeLatestChange(past, at)
  BY DEF Proved!BeforeLatestChange, BeforeLatestChange
<1>7. /\ \A at, window : Proved!Expiry(at, window) = Expiry(at, window)
      /\ \A at : Proved!Readable(at) <=> Readable(at)
  BY DEF Proved!Expiry, Expiry, Proved!Readable, Readable
<1>8. /\ \A stored, p : Proved!Verified(stored, p) <=> Verified(stored, p)
      /\ \A stored : Proved!HasCredential(stored) <=> HasCredential(stored)
      /\ \A p, salt : Proved!HashPassword(p, salt) = HashPassword(p, salt)
  BY DEF Proved!Verified, Verified, Proved!HasCredential, HasCredential, Proved!HashPassword,
     HashPassword
<1>9. /\ Proved!ByCaller = ByCaller /\ Proved!ByPassword = ByPassword
      /\ Proved!Superseded = Superseded /\ Proved!PasswordSet = PasswordSet
      /\ Proved!EmailChanged = EmailChanged
  BY DEF Proved!ByCaller, ByCaller, Proved!ByPassword, ByPassword, Proved!Superseded, Superseded,
     Proved!PasswordSet, PasswordSet, Proved!EmailChanged, EmailChanged
<1> QED
  BY <1>1, <1>2, <1>3, <1>4, <1>5, <1>6, <1>7, <1>8, <1>9

\* What a commit may publish, as the other sessions see it: rows of its own
\* customer, a key it drew, a salt it drew and the entry it made.
Publishes(s) ==
  LET c == tx[s].c
  IN  /\ \A q \in Session : q # s /\ HasLock(q) => tx[q].c # c
      /\ \A d \in Customer : d # c => /\ email'[d] = email[d]
                                      /\ credential'[d] = credential[d]
                                      /\ history'[d] = history[d]
      /\ \A d \in Customer : email'[d] # email[d] =>
           /\ d = c /\ tx[s].entered /\ email'[d] = EntryAddress(s)
           /\ (Runs(s, "create_account") /\ d = tx[s].req.c) \/ Exists(d)
      /\ \A d \in Customer : reference'[d] # reference[d] =>
           /\ tx[s].entered /\ Runs(s, "create_account")
           /\ d = c /\ reference'[d] = tx[s].req.ref
      /\ \A d \in Customer : credential'[d].salt # credential[d].salt =>
           DrawsSalt(s) /\ credential'[d].salt = tx[s].req.salt
      /\ \A k \in ChangeId : changes[k] # NoRow =>
           /\ changes'[k] # NoRow /\ changes'[k].owner = changes[k].owner
           /\ changes'[k].under = changes[k].under
           /\ changes[k].owner # c => changes'[k] = changes[k]
      /\ \A k \in ChangeId : changes[k] = NoRow /\ changes'[k] # NoRow =>
           /\ Runs(s, "start_email_change") /\ k = tx[s].req.k
           /\ changes'[k].owner = c
           /\ \E d \in Customer : changes'[k].under = credential[d].salt
      /\ \A r \in ResetId : resets[r] # NoRow =>
           /\ resets'[r] # NoRow /\ resets'[r].owner = resets[r].owner
           /\ resets[r].owner # c => resets'[r] = resets[r]
      /\ \A r \in ResetId : resets[r] = NoRow /\ resets'[r] # NoRow =>
           /\ Runs(s, "start_password_reset") /\ r = tx[s].req.r
           /\ resets'[r].owner = c

\* The entry of another session is where it was.
LEMMA EntryStays ==
  ASSUME IInv, NEW s \in Session, NEW q \in Session, q # s, tx'[q] = tx[q], Publishes(s),
         tx[q].entered
  PROVE  EntryAddress(q)' = EntryAddress(q)
<1>1. LockTypes /\ TableTypes /\ SessionOK(q)
  BY TypesOfTables DEF IInv
<1>2. HasEntered(q)
  BY <1>1 DEF SessionOK, EntryIsUnique
<1>3. CASE Runs(q, "create_account")
  BY <1>3 DEF EntryAddress, Runs
<1>4. CASE Runs(q, "confirm_email_change")
  <2>1. HasLock(q) /\ HasLocated(q) /\ Presents(q)
    BY <1>1, <1>2, <1>4 DEF HasEntered, HasLock, HasLocated, Presents, Runs, LockTypes, Transaction
  <2>2. TokenRow(q) = changes[tx[q].req.k] /\ tx[q].req.k \in ChangeId
    BY <1>1, <1>4, <2>1, TokenRows
  <2>3. TokenRow(q) # NoRow /\ TokenRow(q).owner = tx[q].c /\ tx[q].c # tx[s].c
    BY <1>1, <2>1 DEF SessionOK, KnowsItsCustomer, Publishes
  <2>4. changes'[tx[q].req.k] = changes[tx[q].req.k]
    BY <2>2, <2>3 DEF Publishes
  <2> QED
    BY <1>4, <2>4 DEF EntryAddress, TokenRow, PresentsChange, Runs
<1> QED
  BY <1>2, <1>3, <1>4 DEF HasEntered

\* What another session has read and checked under its locks is not touched.
LEMMA ReadsSurviveCommit ==
  ASSUME IInv, NEW s \in Session, NEW q \in Session, q # s, tx'[q] = tx[q], Publishes(s),
         TableTypes', HasLock(q), rowLock'[tx[q].c] = rowLock[tx[q].c]
  PROVE  ReadsHold(q)' /\ ChecksHold(q)'
<1> DEFINE c == tx[q].c
<1>1. LockTypes /\ TableTypes /\ SessionOK(q)
  BY TypesOfTables DEF IInv
<1>2. c \in Customer /\ c # tx[s].c
  BY <1>1, LockedCustomer DEF Publishes
<1>3. email'[c] = email[c] /\ credential'[c] = credential[c] /\ history'[c] = history[c]
  BY <1>2 DEF Publishes
<1>4. ASSUME Presents(q)
      PROVE  TokenRow(q)' = TokenRow(q)
  <2>1. HasLocated(q)
    BY <1>1, <1>4 DEF HasLock, HasLocated, Presents, LockTypes, Transaction
  <2>2. TokenRow(q) # NoRow /\ TokenRow(q).owner = c
    BY <1>1, <2>1 DEF SessionOK, KnowsItsCustomer
  <2>3. CASE Runs(q, "confirm_email_change")
    BY <1>1, <1>2, <1>4, <2>2, <2>3, TokenRows DEF Publishes, TokenRow, PresentsChange, Runs
  <2>4. CASE Runs(q, "consume_password_reset")
    BY <1>1, <1>2, <1>4, <2>2, <2>4, TokenRows DEF Publishes, TokenRow, PresentsChange, Runs
  <2> QED
    BY <1>4, <2>3, <2>4 DEF Presents, Runs
<1>5. ToCancel(q)' = ToCancel(q)
  <2>1. \A k \in ChangeId : /\ changes[k] # NoRow /\ changes[k].owner = c => changes'[k] = changes[k]
                            /\ changes'[k] # NoRow /\ changes'[k].owner = c => changes'[k] = changes[k]
    BY <1>2 DEF Publishes
  <2>2. \A r \in ResetId : /\ resets[r] # NoRow /\ resets[r].owner = c => resets'[r] = resets[r]
                           /\ resets'[r] # NoRow /\ resets'[r].owner = c => resets'[r] = resets[r]
    BY <1>2 DEF Publishes
  <2>3. Outstanding(changes', c) = Outstanding(changes, c)
    BY <2>1, <1>1 DEF Outstanding, TableTypes
  <2>4. Outstanding(resets', c) = Outstanding(resets, c)
    BY <2>2, <1>1 DEF Outstanding, TableTypes
  <2> QED
    BY <2>3, <2>4 DEF ToCancel, CancelsResets, Runs
<1>6. ReadsHold(q)'
  <2>1. ReadsHold(q)
    BY <1>1 DEF SessionOK
  <2>2. HasToken(q) => Presents(q)
    BY DEF HasToken
  <2> QED
    BY <2>1, <2>2, <1>3, <1>4, <1>5 DEF ReadsHold, HasLock, HasAuthorised, HasToken, HasSuperseded,
       Presents, Runs, Exists
<1>7. ChecksHold(q)'
  <2>1. ChecksHold(q)
    BY <1>1 DEF SessionOK
  <2> QED
    BY <2>1, <1>3 DEF ChecksHold, Runs
<1> QED
  BY <1>6, <1>7

\* What another session drew and entered is still nobody else's.
LEMMA DrawsSurviveCommit ==
  ASSUME IInv, NEW s \in Session, NEW q \in Session, q # s, tx'[q] = tx[q], Publishes(s),
         TableTypes'
  PROVE  DrawsAreFresh(q)' /\ EntryIsUnique(q)'
<1>1. LockTypes /\ TableTypes /\ SessionOK(q) /\ DrawsAreApart(s, q) /\ EntriesAreApart(s, q)
  BY TypesOfTables DEF IInv, PairsApart
<1>2. DrawsAreFresh(q) /\ EntryIsUnique(q)
  BY <1>1 DEF SessionOK
<1>3. Running(q) => tx[q].req \in Requests
  BY <1>1 DEF Running, LockTypes, Transaction
<1>4. DrawsAreFresh(q)'
  <2>1. Runs(q, "create_account") => ~Exists(tx[q].req.c)'
    <3>1. SUFFICES ASSUME Runs(q, "create_account")
                   PROVE  email'[tx[q].req.c] = NoAddress
      BY DEF Exists, Runs
    <3>2. tx[q].req.c \in Customer
      BY <1>3, <3>1, RequestFields DEF Running, Runs, NoRequest
    <3>3. email[tx[q].req.c] = NoAddress
      BY <1>2, <3>1 DEF DrawsAreFresh, Exists
    <3>4. Runs(s, "create_account") => tx[s].req.c # tx[q].req.c
      BY <1>1, <3>1 DEF DrawsAreApart
    <3> QED
      BY <3>2, <3>3, <3>4 DEF Publishes, Exists
  <2>2. Runs(q, "start_email_change") => changes'[tx[q].req.k] = NoRow
    <3>1. Runs(q, "start_email_change") => tx[q].req.k \in ChangeId
      BY <1>3, RequestFields DEF Running, Runs, NoRequest
    <3> QED
      BY <1>1, <1>2, <3>1 DEF DrawsAreFresh, DrawsAreApart, Publishes
  <2>3. Runs(q, "start_password_reset") => resets'[tx[q].req.r] = NoRow
    <3>1. Runs(q, "start_password_reset") => tx[q].req.r \in ResetId
      BY <1>3, RequestFields DEF Running, Runs, NoRequest
    <3> QED
      BY <1>1, <1>2, <3>1 DEF DrawsAreFresh, DrawsAreApart, Publishes
  <2>4. ASSUME DrawsSalt(q)
        PROVE  /\ \A c \in Customer : credential'[c].salt # tx[q].req.salt
               /\ \A k \in ChangeId : changes'[k] # NoRow => changes'[k].under # tx[q].req.salt
    <3>1. \A c \in Customer : credential'[c].salt # tx[q].req.salt
      BY <1>1, <1>2, <2>4 DEF DrawsAreFresh, DrawsAreApart, Publishes
    <3>2. \A k \in ChangeId : changes'[k] # NoRow => changes'[k].under # tx[q].req.salt
      BY <1>2, <2>4 DEF DrawsAreFresh, Publishes
    <3> QED
      BY <3>1, <3>2
  <2> QED
    BY <2>1, <2>2, <2>3, <2>4 DEF DrawsAreFresh, DrawsSalt, Runs
<1>5. EntryIsUnique(q)'
  <2>1. (tx[q].entered <=> HasEntered(q))'
    BY <1>2 DEF EntryIsUnique, HasEntered, Runs
  <2>2. ASSUME tx[q].entered
        PROVE  /\ Holders(email, EntryAddress(q))' \subseteq {tx[q].c}
               /\ Runs(q, "create_account") => ~ReferenceTaken(tx[q].req.ref)'
    <3>1. EntryAddress(q)' = EntryAddress(q)
      BY <2>2, EntryStays
    <3>2. ASSUME NEW d \in Customer, email'[d] # NoAddress, SameAddress(email'[d], EntryAddress(q))
          PROVE  d = tx[q].c
      <4>1. CASE email'[d] = email[d]
        BY <1>1, <1>2, <2>2, <3>2, <4>1 DEF EntryIsUnique, Holders, TableTypes
      <4>2. CASE email'[d] # email[d]
        <5>1. tx[s].entered /\ email'[d] = EntryAddress(s)
          BY <4>2 DEF Publishes
        <5> QED
          BY <1>1, <2>2, <3>2, <5>1 DEF EntriesAreApart
      <4> QED
        BY <4>1, <4>2
    <3>3. Holders(email', EntryAddress(q)) \subseteq {tx[q].c}
      BY <1>1, <3>2 DEF Holders, TableTypes
    <3>4. ASSUME Runs(q, "create_account"), tx[q].req.ref # NoReference, NEW d \in Customer,
                 reference'[d] = tx[q].req.ref
          PROVE  FALSE
      <4>1. reference[d] # tx[q].req.ref
        BY <1>2, <2>2, <3>4 DEF EntryIsUnique, ReferenceTaken
      <4>2. /\ tx[s].entered /\ Runs(s, "create_account")
            /\ tx[s].req.ref = tx[q].req.ref
        BY <3>4, <4>1 DEF Publishes
      <4> QED
        BY <1>1, <2>2, <3>4, <4>2 DEF EntriesAreApart
    <3>5. Runs(q, "create_account") => ~ReferenceTaken(tx[q].req.ref)'
      BY <3>4 DEF ReferenceTaken
    <3> QED
      BY <3>1, <3>3, <3>5
  <2> QED
    BY <2>1, <2>2 DEF EntryIsUnique, Runs
<1> QED
  BY <1>4, <1>5

\* A commit keeps the invariant when it keeps the tables' and publishes no more
\* than its own.
LEMMA PublishedKeepsIInv ==
  ASSUME IInv, NEW s \in Session, End(s), Publishes(s), Proved!IInv'
  PROVE  IInv'
<1>1. LockTypes /\ TableTypes /\ TableTypes'
  BY TypesOfTables DEF IInv
<1>2. ASSUME NEW q \in Session, q # s
      PROVE  SessionOK(q)' /\ tx'[q] = tx[q]
  <2>1. tx'[q] = tx[q] /\ SessionOK(q)
    BY <1>1, <1>2, EndFacts DEF IInv
  <2>2. StaysOnItsRoute(q)'
    BY <2>1 DEF SessionOK, StaysOnItsRoute, Running
  <2>3. KnowsItsCustomer(q)'
    <3>1. ASSUME HasLocated(q)
          PROVE  TokenRow(q)' # NoRow /\ TokenRow(q)'.owner = tx[q].c
      <4>1. TokenRow(q) # NoRow /\ TokenRow(q).owner = tx[q].c /\ Presents(q)
        BY <2>1, <3>1 DEF SessionOK, KnowsItsCustomer, HasLocated
      <4>2. CASE Runs(q, "confirm_email_change")
        BY <1>1, <2>1, <4>1, <4>2, TokenRows DEF Publishes, TokenRow, PresentsChange, Runs
      <4>3. CASE Runs(q, "consume_password_reset")
        BY <1>1, <2>1, <4>1, <4>3, TokenRows DEF Publishes, TokenRow, PresentsChange, Runs
      <4> QED
        BY <4>1, <4>2, <4>3 DEF Presents, Runs
    <3> QED
      BY <2>1, <3>1 DEF SessionOK, KnowsItsCustomer, HasLocated, Presents, Running
  <2>4. ReadsHold(q)' /\ ChecksHold(q)'
    <3>1. CASE HasLock(q)
      <4>1. rowLock'[tx[q].c] = rowLock[tx[q].c]
        BY <1>1, <1>2, <2>1, <3>1, EndFacts, LockedCustomer
      <4> QED
        BY <1>1, <1>2, <2>1, <3>1, <4>1, ReadsSurviveCommit
    <3>2. CASE ~HasLock(q)
      <4>1. /\ ~HasLock(q)' /\ ~HasAuthorised(q)' /\ ~HasToken(q)' /\ ~HasSuperseded(q)'
        BY <1>1, <2>1, <3>2 DEF HasLock, HasAuthorised, HasToken, HasSuperseded, Presents, Runs,
           LockTypes, Transaction
      <4>2. ChecksHold(q)'
        BY <1>1, <2>1, <3>2 DEF ChecksHold, HasLock, Presents, Runs, LockTypes, Transaction
      <4> QED
        BY <4>1, <4>2 DEF ReadsHold
    <3> QED
      BY <3>1, <3>2
  <2>5. DrawsAreFresh(q)' /\ EntryIsUnique(q)'
    BY <1>1, <1>2, <2>1, DrawsSurviveCommit
  <2> QED
    BY <2>1, <2>2, <2>3, <2>4, <2>5 DEF SessionOK
<1>3. ASSUME NEW p \in Session, NEW q \in Session, p # s, q # s, p # q
      PROVE  DrawsAreApart(p, q)' /\ EntriesAreApart(p, q)'
  <2>1. /\ tx'[p] = tx[p] /\ tx'[q] = tx[q] /\ DrawsAreApart(p, q) /\ EntriesAreApart(p, q)
    BY <1>2, <1>3 DEF IInv, PairsApart
  <2>2. /\ tx[p].entered => EntryAddress(p)' = EntryAddress(p)
        /\ tx[q].entered => EntryAddress(q)' = EntryAddress(q)
    BY <1>3, <2>1, EntryStays
  <2> QED
    BY <2>1, <2>2 DEF DrawsAreApart, DrawsSalt, EntriesAreApart, Runs
<1>4. /\ \A k \in ChangeId : changes[k] # NoRow =>
           changes'[k] # NoRow /\ changes'[k].owner = changes[k].owner
      /\ \A r \in ResetId : resets[r] # NoRow =>
           resets'[r] # NoRow /\ resets'[r].owner = resets[r].owner
  BY DEF Publishes
<1> QED
  BY <1>2, <1>3, <1>4, SessionEnds

\* A session about to commit knows its customer, and nobody else has the row.
LEMMA CustomerOfCommit ==
  ASSUME IInv, NEW s \in Session, Statement(s) = "commit"
  PROVE  /\ tx[s].req \in Requests
         /\ tx[s].c \in Customer
         /\ Runs(s, "create_account") => tx[s].entered /\ tx[s].c = tx[s].req.c
         /\ ~Runs(s, "create_account") => HasLock(s) /\ HasSuperseded(s)
         /\ ~Runs(s, "create_account") /\ ~Presents(s) => tx[s].c = tx[s].req.c
         /\ Presents(s) => HasToken(s) /\ TokenRow(s) # NoRow /\ TokenRow(s).owner = tx[s].c
         /\ Runs(s, "start_email_change") => HasAuthorised(s)
         /\ Runs(s, "confirm_email_change") => tx[s].entered
         /\ \A q \in Session : q # s /\ HasLock(q) => tx[q].c # tx[s].c
<1>1. LockTypes /\ TableTypes /\ SessionOK(s)
  BY TypesOfTables DEF IInv
<1>2. /\ Running(s)
      /\ \/ Runs(s, "create_account") /\ tx[s].next > 2
         \/ Runs(s, "set_password") /\ tx[s].next > 2
         \/ Runs(s, "start_email_change") /\ tx[s].next > 4
         \/ Runs(s, "confirm_email_change") /\ tx[s].next > 7
         \/ Runs(s, "start_password_reset") /\ tx[s].next > 3
         \/ Runs(s, "consume_password_reset") /\ tx[s].next > 5
  BY <1>1, Statements
<1>3. tx[s].next \in Nat /\ tx[s].req \in Requests
  BY <1>1, <1>2 DEF LockTypes, Transaction, Running
<1>4. ~Runs(s, "create_account") => HasLock(s) /\ HasSuperseded(s)
  BY <1>2, <1>3 DEF HasLock, HasSuperseded, Runs, Presents
<1>5. Presents(s) => HasToken(s) /\ HasLocated(s)
  BY <1>2, <1>3 DEF HasToken, HasLocated, Runs, Presents
<1>6. Presents(s) => TokenRow(s) # NoRow /\ TokenRow(s).owner = tx[s].c
  BY <1>1, <1>5 DEF SessionOK, KnowsItsCustomer
<1>7. ~Presents(s) => tx[s].c = tx[s].req.c
  BY <1>1, <1>2 DEF SessionOK, KnowsItsCustomer
<1>8. /\ Runs(s, "create_account") => tx[s].entered /\ ~Presents(s)
      /\ Runs(s, "confirm_email_change") => tx[s].entered
      /\ Runs(s, "start_email_change") => HasAuthorised(s)
  BY <1>1, <1>2, <1>3
     DEF SessionOK, EntryIsUnique, HasEntered, HasAuthorised, Runs, Presents
<1>9. tx[s].c \in Customer
  <2>1. CASE Runs(s, "create_account")
    BY <1>3, <1>7, <1>8, <2>1, RequestFields DEF Runs
  <2>2. CASE ~Runs(s, "create_account")
    BY <1>1, <1>4, <2>2, LockedCustomer
  <2> QED
    BY <2>1, <2>2
<1>10. ASSUME NEW q \in Session, q # s, HasLock(q)
       PROVE  tx[q].c # tx[s].c
  <2>1. rowLock[tx[q].c] = q /\ Exists(tx[q].c)
    BY <1>1, <1>10, LockedCustomer DEF IInv
  <2>2. CASE Runs(s, "create_account")
    <3>1. ~Exists(tx[s].c)
      BY <1>1, <1>7, <1>8, <2>2 DEF SessionOK, DrawsAreFresh
    <3> QED
      BY <2>1, <3>1
  <2>3. CASE ~Runs(s, "create_account")
    <3>1. rowLock[tx[s].c] = s
      BY <1>1, <1>4, <2>3, LockedCustomer
    <3> QED
      BY <1>10, <2>1, <3>1
  <2> QED
    BY <2>2, <2>3
<1> QED
  BY <1>3, <1>4, <1>5, <1>6, <1>7, <1>8, <1>9, <1>10

\* Creating an account is what Account does in one step.
LEMMA CommitCreateIsADoor ==
  ASSUME IInv, NEW s \in Session, Statement(s) = "commit", CommitCreate(s)
  PROVE  Proved!Next /\ Publishes(s)
<1> DEFINE req == tx[s].req
           c   == tx[s].c
<1>1. TableTypes /\ SessionOK(s)
  BY TypesOfTables DEF IInv
<1>2. Runs(s, "create_account") /\ req \in Requests /\ c \in Customer /\ c = req.c
  BY CustomerOfCommit DEF CommitCreate
<1>3. req.a \in Address /\ req.ref \in Reference \cup {NoReference}
  BY <1>2, RequestFields DEF Runs
<1>4. /\ email' = [email EXCEPT ![c] = req.a]
      /\ reference' = [reference EXCEPT ![c] = req.ref]
      /\ accepted' = accepted \cup {c}
      /\ UNCHANGED <<credential, changes, resets, history>>
  BY <1>2 DEF CommitCreate
<1>5. tx[s].entered /\ ~Exists(c)
  BY <1>1, <1>2, CustomerOfCommit DEF SessionOK, DrawsAreFresh
<1>6. Holders(email, req.a) \subseteq {c} /\ ~ReferenceTaken(req.ref)
  BY <1>1, <1>2, <1>5 DEF SessionOK, EntryIsUnique, EntryAddress
<1>7. Proved!Holders(email, req.a) = {}
  BY <1>5, <1>6, SameRules DEF Holders, Exists
<1>8. Proved!CreateAccount(c, req.a, req.ref)
  BY <1>4, <1>5, <1>6, <1>7 DEF Proved!CreateAccount, Proved!Exists, Exists, ReferenceTaken
<1>9. Proved!Next
  BY <1>2, <1>3, <1>8 DEF Proved!Next
<1>10. Publishes(s)
  <2>1. \A d \in Customer : email'[d] = IF d = c THEN req.a ELSE email[d]
    BY <1>1, <1>4 DEF TableTypes
  <2>2. \A d \in Customer : reference'[d] = IF d = c THEN req.ref ELSE reference[d]
    BY <1>1, <1>4 DEF TableTypes
  <2>3. EntryAddress(s) = req.a
    BY <1>2 DEF EntryAddress
  <2>4. \A q \in Session : q # s /\ HasLock(q) => tx[q].c # c
    BY CustomerOfCommit
  <2> QED
    BY <1>2, <1>4, <1>5, <2>1, <2>2, <2>3, <2>4 DEF Publishes
<1> QED
  BY <1>9, <1>10

\* Cancelling one customer's outstanding changes touches no other row, and in
\* its own neither the owner nor the salt.
LEMMA CancelledChanges ==
  ASSUME TableTypes, NEW c \in Customer, NEW reason \in Reason, NEW k \in ChangeId
  PROVE  LET new == Cancelled(changes, Outstanding(changes, c), reason)
         IN  /\ changes[k] = NoRow => new[k] = NoRow
             /\ changes[k] # NoRow => /\ new[k] # NoRow
                                      /\ new[k].owner = changes[k].owner
                                      /\ new[k].under = changes[k].under
                                      /\ changes[k].owner # c => new[k] = changes[k]
<1> DEFINE new == Cancelled(changes, Outstanding(changes, c), reason)
<1>1. k \in Outstanding(changes, c) <=>
        changes[k] # NoRow /\ changes[k].owner = c /\ changes[k].state = "issued"
  BY DEF Outstanding, TableTypes
<1>2. new[k] = IF k \in Outstanding(changes, c)
               THEN [changes[k] EXCEPT !.state = "cancelled", !.reason = reason] ELSE changes[k]
  BY DEF Cancelled, TableTypes
<1>3. CASE k \in Outstanding(changes, c)
  <2>1. changes[k] \in ChangeRow /\ changes[k] # NoRow /\ changes[k].owner = c
    BY <1>1, <1>3 DEF TableTypes
  <2>2. new[k] = [changes[k] EXCEPT !.state = "cancelled", !.reason = reason]
    BY <1>2, <1>3
  <2>3. new[k] \in ChangeRow /\ new[k].owner = changes[k].owner /\ new[k].under = changes[k].under
    BY <2>1, <2>2 DEF ChangeRow, TokenState
  <2> QED
    BY <2>1, <2>3, NoRowIsApart
<1>4. CASE k \notin Outstanding(changes, c)
  BY <1>2, <1>4
<1> QED
  BY <1>3, <1>4

\* Cancelling one customer's outstanding resets touches no other row, and in
\* its own not the owner.
LEMMA CancelledResets ==
  ASSUME TableTypes, NEW c \in Customer, NEW reason \in Reason, NEW r \in ResetId
  PROVE  LET new == Cancelled(resets, Outstanding(resets, c), reason)
         IN  /\ resets[r] = NoRow => new[r] = NoRow
             /\ resets[r] # NoRow => /\ new[r] # NoRow
                                     /\ new[r].owner = resets[r].owner
                                     /\ resets[r].owner # c => new[r] = resets[r]
<1> DEFINE new == Cancelled(resets, Outstanding(resets, c), reason)
<1>1. r \in Outstanding(resets, c) <=>
        resets[r] # NoRow /\ resets[r].owner = c /\ resets[r].state = "issued"
  BY DEF Outstanding, TableTypes
<1>2. new[r] = IF r \in Outstanding(resets, c)
               THEN [resets[r] EXCEPT !.state = "cancelled", !.reason = reason] ELSE resets[r]
  BY DEF Cancelled, TableTypes
<1>3. CASE r \in Outstanding(resets, c)
  <2>1. resets[r] \in ResetRow /\ resets[r] # NoRow /\ resets[r].owner = c
    BY <1>1, <1>3 DEF TableTypes
  <2>2. new[r] = [resets[r] EXCEPT !.state = "cancelled", !.reason = reason]
    BY <1>2, <1>3
  <2>3. new[r] \in ResetRow /\ new[r].owner = resets[r].owner
    BY <2>1, <2>2 DEF ResetRow, TokenState
  <2> QED
    BY <2>1, <2>3, NoRowIsApart
<1>4. CASE r \notin Outstanding(resets, c)
  BY <1>2, <1>4
<1> QED
  BY <1>3, <1>4

\* The reasons of the code are reasons of a row.
LEMMA Reasons == {Superseded, PasswordSet, EmailChanged} \subseteq Reason
BY DEF Reason

\* Setting a password is what Account does in one step.
LEMMA CommitPasswordIsADoor ==
  ASSUME IInv, NEW s \in Session, Statement(s) = "commit", CommitPassword(s)
  PROVE  Proved!Next /\ Publishes(s)
<1> DEFINE req == tx[s].req
           c   == tx[s].c
<1>1. LockTypes /\ TableTypes /\ SessionOK(s)
  BY TypesOfTables DEF IInv
<1>2. Runs(s, "set_password") /\ ~Runs(s, "create_account") /\ ~Presents(s)
  BY DEF CommitPassword, Runs, Presents
<1>3. req \in Requests /\ c \in Customer /\ c = req.c /\ HasLock(s) /\ HasSuperseded(s)
  BY <1>2, CustomerOfCommit
<1>4. req.p \in Secret /\ req.salt \in Salt
  BY <1>2, <1>3, RequestFields DEF Runs
<1>5. Exists(c) /\ tx[s].cancelled = Outstanding(changes, c)
  BY <1>1, <1>2, <1>3 DEF SessionOK, ReadsHold, ToCancel, CancelsResets, Runs
<1>6. /\ changes' = Cancelled(changes, Outstanding(changes, c), PasswordSet)
      /\ credential' = [credential EXCEPT ![c] = HashPassword(req.p, req.salt)]
      /\ UNCHANGED <<email, reference, accepted, resets, history>>
  BY <1>3, <1>5 DEF CommitPassword
<1>7. /\ \A d \in Customer : credential[d].salt # req.salt
      /\ \A k \in ChangeId : changes[k] # NoRow => changes[k].under # req.salt
      /\ DrawsSalt(s)
  BY <1>1, <1>2 DEF SessionOK, DrawsAreFresh, DrawsSalt, Runs
<1>8. Proved!SetPassword(c, req.p, req.salt)
  BY <1>5, <1>6, <1>7, SameRules DEF Proved!SetPassword, Proved!FreshSalt, Proved!Exists, Exists
<1>9. Proved!Next
  BY <1>3, <1>4, <1>8 DEF Proved!Next
<1>10. Publishes(s)
  <2>1. \A d \in Customer :
          credential'[d] = IF d = c THEN HashPassword(req.p, req.salt) ELSE credential[d]
    BY <1>1, <1>6 DEF TableTypes
  <2>2. HashPassword(req.p, req.salt).salt = req.salt
    BY DEF HashPassword
  <2>3. \A k \in ChangeId :
          /\ changes[k] = NoRow => changes'[k] = NoRow
          /\ changes[k] # NoRow => /\ changes'[k] # NoRow
                                   /\ changes'[k].owner = changes[k].owner
                                   /\ changes'[k].under = changes[k].under
                                   /\ changes[k].owner # c => changes'[k] = changes[k]
    BY <1>1, <1>3, <1>6, CancelledChanges, Reasons
  <2>4. \A q \in Session : q # s /\ HasLock(q) => tx[q].c # c
    BY CustomerOfCommit
  <2> QED
    BY <1>6, <1>7, <2>1, <2>2, <2>3, <2>4 DEF Publishes
<1> QED
  BY <1>9, <1>10

\* Starting an email change is what Account does in one step.
LEMMA CommitStartChangeIsADoor ==
  ASSUME IInv, NEW s \in Session, Statement(s) = "commit", CommitStartChange(s)
  PROVE  Proved!Next /\ Publishes(s)
<1> DEFINE req == tx[s].req
           c   == tx[s].c
           closed == Cancelled(changes, Outstanding(changes, c), Superseded)
           authorisation == IF req.proof = ByCaller THEN ByCaller ELSE ByPassword
           row == NewChange(c, req.a, authorisation, req.at, req.window, credential[c])
<1>1. LockTypes /\ TableTypes /\ SessionOK(s)
  BY TypesOfTables DEF IInv
<1>2. Runs(s, "start_email_change") /\ ~Runs(s, "create_account") /\ ~Presents(s)
  BY DEF CommitStartChange, Runs, Presents
<1>3. /\ req \in Requests /\ c \in Customer /\ c = req.c
      /\ HasLock(s) /\ HasSuperseded(s) /\ HasAuthorised(s)
  BY <1>2, CustomerOfCommit
<1>4. /\ req.k \in ChangeId /\ req.a \in Address /\ req.proof \in Secret \cup {ByCaller}
      /\ req.at \in Instant /\ req.window \in Window
  BY <1>2, <1>3, RequestFields DEF Runs
<1>5. /\ Exists(c)
      /\ tx[s].cancelled = Outstanding(changes, c)
      /\ tx[s].under = credential[c].salt
      /\ req.proof # ByCaller => Verified(credential[c], req.proof)
  BY <1>1, <1>2, <1>3 DEF SessionOK, ReadsHold, ToCancel, CancelsResets, Runs
<1>6. ~SameAddress(email[c], req.a) /\ Readable(Expiry(req.at, req.window))
  <2>1. tx[s].next > 3
    BY <1>1, <1>2, <1>3 DEF HasSuperseded, Runs, LockTypes, Transaction
  <2> QED
    BY <1>1, <1>2, <2>1 DEF SessionOK, ChecksHold
<1>7. changes[req.k] = NoRow
  BY <1>1, <1>2 DEF SessionOK, DrawsAreFresh
<1>8. NewChange(c, req.a, authorisation, req.at, req.window, [salt |-> tx[s].under]) = row
  BY <1>5 DEF NewChange
<1>9. /\ changes' = [closed EXCEPT ![req.k] = row]
      /\ UNCHANGED <<email, reference, accepted, credential, resets, history>>
  BY <1>3, <1>5, <1>8 DEF CommitStartChange
<1>10. row = Proved!NewChange(c, req.a, IF req.proof = Proved!ByCaller THEN Proved!ByCaller
                                         ELSE Proved!ByPassword,
                              req.at, req.window, credential[c])
  BY SameRules DEF NewChange, Proved!NewChange, Proved!NotCancelled, NotCancelled
<1>11. Proved!StartEmailChange(c, req.k, req.a, req.proof, req.at, req.window)
  <2>1. closed = Proved!Supersede(changes, c, Proved!Superseded)
    BY SameRules
  <2>2. /\ Proved!Exists(c) /\ changes[req.k] = NoRow
        /\ req.proof # Proved!ByCaller => Proved!Verified(credential[c], req.proof)
        /\ ~Proved!SameAddress(email[c], req.a)
        /\ Proved!Readable(Proved!Expiry(req.at, req.window))
    BY <1>5, <1>6, <1>7, SameRules DEF Proved!Exists, Exists
  <2> HIDE DEF closed, row
  <2> QED
    BY <1>9, <1>10, <2>1, <2>2, Zenon DEF Proved!StartEmailChange
<1>12. Proved!Next
  <2>1. req.proof \in Secret \cup {Proved!ByCaller}
    BY <1>4, SameRules
  <2> QED
    BY <1>3, <1>4, <1>11, <2>1 DEF Proved!Next
<1>13. Publishes(s)
  <2>1. \A k \in ChangeId : changes'[k] = IF k = req.k THEN row ELSE closed[k]
    BY <1>1, <1>9 DEF Cancelled, TableTypes
  <2>2. row.owner = c /\ row.under = credential[c].salt
    BY DEF NewChange
  <2>3. \A k \in ChangeId :
          /\ changes[k] = NoRow => closed[k] = NoRow
          /\ changes[k] # NoRow => /\ closed[k] # NoRow
                                   /\ closed[k].owner = changes[k].owner
                                   /\ closed[k].under = changes[k].under
                                   /\ changes[k].owner # c => closed[k] = changes[k]
    BY <1>1, <1>3, CancelledChanges, Reasons
  <2> HIDE DEF closed, row
  <2>4. \A k \in ChangeId : changes[k] # NoRow =>
           /\ changes'[k] # NoRow /\ changes'[k].owner = changes[k].owner
           /\ changes'[k].under = changes[k].under
           /\ changes[k].owner # c => changes'[k] = changes[k]
    BY <1>7, <2>1, <2>3
  <2>5. \A k \in ChangeId : changes[k] = NoRow /\ changes'[k] # NoRow =>
           /\ k = req.k
           /\ changes'[k].owner = c
           /\ changes'[k].under = credential[c].salt
    BY <2>1, <2>2, <2>3
  <2>6. \A q \in Session : q # s /\ HasLock(q) => tx[q].c # c
    BY CustomerOfCommit
  <2> QED
    BY <1>2, <1>3, <1>9, <2>4, <2>5, <2>6 DEF Publishes
<1> QED
  BY <1>12, <1>13

\* Starting a reset is what Account does in one step.
LEMMA CommitStartResetIsADoor ==
  ASSUME IInv, NEW s \in Session, Statement(s) = "commit", CommitStartReset(s)
  PROVE  Proved!Next /\ Publishes(s)
<1> DEFINE req == tx[s].req
           c   == tx[s].c
           closed == Cancelled(resets, Outstanding(resets, c), Superseded)
           row == NewReset(c, email[c], req.at, req.window)
<1>1. LockTypes /\ TableTypes /\ SessionOK(s)
  BY TypesOfTables DEF IInv
<1>2. Runs(s, "start_password_reset") /\ ~Runs(s, "create_account") /\ ~Presents(s)
  BY DEF CommitStartReset, Runs, Presents
<1>3. /\ req \in Requests /\ c \in Customer /\ c = req.c /\ HasLock(s) /\ HasSuperseded(s)
  BY <1>2, CustomerOfCommit
<1>4. req.r \in ResetId /\ req.at \in Instant /\ req.window \in Window
  BY <1>2, <1>3, RequestFields DEF Runs
<1>5. /\ Exists(c)
      /\ tx[s].cancelled = Outstanding(resets, c)
      /\ tx[s].seen = email[c]
  BY <1>1, <1>2, <1>3 DEF SessionOK, ReadsHold, ToCancel, CancelsResets, Runs
<1>6. HasCredential(credential[c]) /\ Readable(Expiry(req.at, req.window))
  <2>1. tx[s].next > 2
    BY <1>1, <1>2, <1>3 DEF HasSuperseded, Runs, LockTypes, Transaction
  <2> QED
    BY <1>1, <1>2, <2>1 DEF SessionOK, ChecksHold
<1>7. resets[req.r] = NoRow
  BY <1>1, <1>2 DEF SessionOK, DrawsAreFresh
<1>8. /\ resets' = [closed EXCEPT ![req.r] = row]
      /\ UNCHANGED <<email, reference, accepted, credential, changes, history>>
  BY <1>3, <1>5 DEF CommitStartReset
<1>9. row = Proved!NewReset(c, email[c], req.at, req.window)
  BY SameRules DEF NewReset, Proved!NewReset, Proved!NotCancelled, NotCancelled
<1>10. Proved!StartPasswordReset(c, req.r, req.at, req.window)
  <2>1. closed = Proved!Supersede(resets, c, Proved!Superseded)
    BY SameRules
  <2>2. /\ Proved!Exists(c) /\ resets[req.r] = NoRow
        /\ Proved!HasCredential(credential[c])
        /\ Proved!Readable(Proved!Expiry(req.at, req.window))
    BY <1>5, <1>6, <1>7, SameRules DEF Proved!Exists, Exists
  <2> HIDE DEF closed, row
  <2> QED
    BY <1>8, <1>9, <2>1, <2>2, Zenon DEF Proved!StartPasswordReset
<1>11. Proved!Next
  BY <1>3, <1>4, <1>10 DEF Proved!Next
<1>12. Publishes(s)
  <2>1. \A r \in ResetId : resets'[r] = IF r = req.r THEN row ELSE closed[r]
    BY <1>1, <1>8 DEF Cancelled, TableTypes
  <2>2. row.owner = c
    BY DEF NewReset
  <2>3. \A r \in ResetId :
          /\ resets[r] = NoRow => closed[r] = NoRow
          /\ resets[r] # NoRow => /\ closed[r] # NoRow
                                  /\ closed[r].owner = resets[r].owner
                                  /\ resets[r].owner # c => closed[r] = resets[r]
    BY <1>1, <1>3, CancelledResets, Reasons
  <2> HIDE DEF closed, row
  <2>4. \A r \in ResetId : resets[r] # NoRow =>
           /\ resets'[r] # NoRow /\ resets'[r].owner = resets[r].owner
           /\ resets[r].owner # c => resets'[r] = resets[r]
    BY <1>7, <2>1, <2>3
  <2>5. \A r \in ResetId : resets[r] = NoRow /\ resets'[r] # NoRow =>
           r = req.r /\ resets'[r].owner = c
    BY <2>1, <2>2, <2>3
  <2>6. \A q \in Session : q # s /\ HasLock(q) => tx[q].c # c
    BY CustomerOfCommit
  <2> QED
    BY <1>2, <1>8, <2>4, <2>5, <2>6 DEF Publishes
<1> QED
  BY <1>11, <1>12

\* Spending a row keeps it and its owner and its salt, and touches no other.
LEMMA SpentChange ==
  ASSUME TableTypes, NEW k \in ChangeId, changes[k] # NoRow, NEW at \in Instant
  PROVE  LET new == Spend(changes, k, at)
         IN  /\ \A j \in ChangeId : j # k => new[j] = changes[j]
             /\ new[k] # NoRow
             /\ new[k].owner = changes[k].owner
             /\ new[k].under = changes[k].under
<1> DEFINE new == Spend(changes, k, at)
<1>1. changes[k] \in ChangeRow
  BY DEF TableTypes
<1>2. new = [changes EXCEPT ![k] = [changes[k] EXCEPT !.state = "redeemed", !.redeemedAt = at]]
  BY <1>1 DEF Spend, TableTypes, ChangeRow
<1>3. new[k] = [changes[k] EXCEPT !.state = "redeemed", !.redeemedAt = at]
  BY <1>2 DEF TableTypes
<1>4. /\ new[k] \in ChangeRow
      /\ new[k].owner = changes[k].owner /\ new[k].under = changes[k].under
  BY <1>1, <1>3 DEF ChangeRow, TokenState
<1>5. \A j \in ChangeId : j # k => new[j] = changes[j]
  BY <1>2 DEF TableTypes
<1> QED
  BY <1>4, <1>5, NoRowIsApart

\* Spending a row keeps it and its owner, and touches no other.
LEMMA SpentReset ==
  ASSUME TableTypes, NEW r \in ResetId, resets[r] # NoRow, NEW at \in Instant
  PROVE  LET new == Spend(resets, r, at)
         IN  /\ \A j \in ResetId : j # r => new[j] = resets[j]
             /\ new[r] # NoRow
             /\ new[r].owner = resets[r].owner
<1> DEFINE new == Spend(resets, r, at)
<1>1. resets[r] \in ResetRow
  BY DEF TableTypes
<1>2. new = [resets EXCEPT ![r] = [resets[r] EXCEPT !.state = "redeemed", !.redeemedAt = at]]
  BY <1>1 DEF Spend, TableTypes, ResetRow
<1>3. new[r] = [resets[r] EXCEPT !.state = "redeemed", !.redeemedAt = at]
  BY <1>2 DEF TableTypes
<1>4. new[r] \in ResetRow /\ new[r].owner = resets[r].owner
  BY <1>1, <1>3 DEF ResetRow, TokenState
<1>5. \A j \in ResetId : j # r => new[j] = resets[j]
  BY <1>2 DEF TableTypes
<1> QED
  BY <1>4, <1>5, NoRowIsApart

\* Confirming an email change is what Account does in one step.
LEMMA CommitConfirmIsADoor ==
  ASSUME IInv, NEW s \in Session, Statement(s) = "commit", CommitConfirm(s)
  PROVE  Proved!Next /\ Publishes(s)
<1> DEFINE req == tx[s].req
           c   == tx[s].c
           row == changes[req.k]
           closed == Cancelled(resets, Outstanding(resets, c), EmailChanged)
           past == Append(history[c], NewHistory(email[c], row, req.at, req.k))
<1>1. LockTypes /\ TableTypes /\ SessionOK(s)
  BY TypesOfTables DEF IInv
<1>2. Runs(s, "confirm_email_change") /\ ~Runs(s, "create_account") /\ Presents(s)
  BY DEF CommitConfirm, Runs, Presents
<1>3. /\ req \in Requests /\ c \in Customer /\ HasLock(s) /\ HasSuperseded(s) /\ HasToken(s)
      /\ TokenRow(s) # NoRow /\ TokenRow(s).owner = c /\ tx[s].entered
  BY <1>2, CustomerOfCommit
<1>4. req.k \in ChangeId /\ req.at \in Instant /\ TokenRow(s) = row
  BY <1>1, <1>2, <1>3, RequestFields, TokenRows DEF Runs
<1>5. /\ Exists(c) /\ tx[s].seen = email[c]
      /\ tx[s].cancelled = Outstanding(resets, c)
      /\ Presentable(row, req.at)
  BY <1>1, <1>2, <1>3, <1>4 DEF SessionOK, ReadsHold, ToCancel, CancelsResets, Runs
<1>6. ~BeforeLatestChange(history[c], req.at)
  <2>1. tx[s].next > 4
    BY <1>1, <1>2, <1>3 DEF HasSuperseded, Runs, LockTypes, Transaction
  <2> QED
    BY <1>1, <1>2, <2>1 DEF SessionOK, ChecksHold
<1>7. EntryAddress(s) = row.to
  BY <1>2, <1>4 DEF EntryAddress, Runs
<1>8. Holders(email, row.to) \subseteq {c}
  BY <1>1, <1>3, <1>7 DEF SessionOK, EntryIsUnique
<1>9. /\ changes' = Spend(changes, req.k, req.at)
      /\ email' = [email EXCEPT ![c] = row.to]
      /\ history' = [history EXCEPT ![c] = past]
      /\ resets' = closed
      /\ UNCHANGED <<reference, accepted, credential>>
  BY <1>5 DEF CommitConfirm
<1>10. row.owner = c /\ row # NoRow
  BY <1>3, <1>4
<1>11. Proved!ConfirmEmailChange(req.k, req.at)
  <2>1. closed = Proved!Supersede(resets, c, Proved!EmailChanged)
    BY SameRules
  <2>2. past = Append(history[c], Proved!NewHistory(email[c], row, req.at, req.k))
    BY DEF NewHistory, Proved!NewHistory
  <2>3. /\ Proved!Presentable(row, req.at)
        /\ ~Proved!BeforeLatestChange(history[c], req.at)
        /\ Proved!Holders(email, row.to) \subseteq {c}
        /\ Spend(changes, req.k, req.at) = Proved!Spend(changes, req.k, req.at)
    BY <1>5, <1>6, <1>8, SameRules
  <2> HIDE DEF closed, past
  <2> QED
    BY <1>9, <1>10, <2>1, <2>2, <2>3 DEF Proved!ConfirmEmailChange
<1>12. Proved!Next
  BY <1>4, <1>11 DEF Proved!Next
<1>13. Publishes(s)
  <2>1. \A d \in Customer : email'[d] = IF d = c THEN row.to ELSE email[d]
    BY <1>1, <1>9 DEF TableTypes
  <2>2. \A d \in Customer : d # c => history'[d] = history[d]
    BY <1>1, <1>9 DEF TableTypes
  <2>3. \A r \in ResetId :
          /\ resets[r] = NoRow => resets'[r] = NoRow
          /\ resets[r] # NoRow => /\ resets'[r] # NoRow
                                  /\ resets'[r].owner = resets[r].owner
                                  /\ resets[r].owner # c => resets'[r] = resets[r]
    BY <1>1, <1>3, <1>9, CancelledResets, Reasons
  <2>4. /\ \A j \in ChangeId : j # req.k => changes'[j] = changes[j]
        /\ changes'[req.k] # NoRow
        /\ changes'[req.k].owner = row.owner
        /\ changes'[req.k].under = row.under
    BY <1>1, <1>4, <1>9, <1>10, SpentChange
  <2>5. \A k \in ChangeId : changes[k] # NoRow =>
           /\ changes'[k] # NoRow /\ changes'[k].owner = changes[k].owner
           /\ changes'[k].under = changes[k].under
           /\ changes[k].owner # c => changes'[k] = changes[k]
    BY <1>10, <2>4
  <2>6. \A k \in ChangeId : changes[k] = NoRow => changes'[k] = NoRow
    BY <1>10, <2>4
  <2>7. \A q \in Session : q # s /\ HasLock(q) => tx[q].c # c
    BY CustomerOfCommit
  <2>8. \A d \in Customer : email'[d] # email[d] =>
           d = c /\ tx[s].entered /\ email'[d] = EntryAddress(s) /\ Exists(d)
    BY <1>3, <1>5, <1>7, <2>1
  <2> HIDE DEF closed, past
  <2> QED
    BY <1>9, <2>2, <2>3, <2>5, <2>6, <2>7, <2>8 DEF Publishes
<1> QED
  BY <1>12, <1>13

\* Consuming a reset is what Account does in one step.
LEMMA CommitResetIsADoor ==
  ASSUME IInv, NEW s \in Session, Statement(s) = "commit", CommitReset(s)
  PROVE  Proved!Next /\ Publishes(s)
<1> DEFINE req == tx[s].req
           c   == tx[s].c
           row == resets[req.r]
<1>1. LockTypes /\ TableTypes /\ SessionOK(s)
  BY TypesOfTables DEF IInv
<1>2. /\ Runs(s, "consume_password_reset") /\ ~Runs(s, "create_account")
      /\ ~Runs(s, "confirm_email_change") /\ Presents(s)
  BY DEF CommitReset, Runs, Presents
<1>3. /\ req \in Requests /\ c \in Customer /\ HasLock(s) /\ HasSuperseded(s) /\ HasToken(s)
      /\ TokenRow(s) # NoRow /\ TokenRow(s).owner = c
  BY <1>2, CustomerOfCommit
<1>4. /\ req.r \in ResetId /\ req.at \in Instant /\ req.p \in Secret /\ req.salt \in Salt
      /\ TokenRow(s) = row
  BY <1>1, <1>2, <1>3, RequestFields, TokenRows DEF Runs
<1>5. tx[s].cancelled = Outstanding(changes, c) /\ Presentable(row, req.at)
  BY <1>1, <1>2, <1>3, <1>4 DEF SessionOK, ReadsHold, ToCancel, CancelsResets, Runs
<1>6. /\ \A d \in Customer : credential[d].salt # req.salt
      /\ \A k \in ChangeId : changes[k] # NoRow => changes[k].under # req.salt
      /\ DrawsSalt(s)
  BY <1>1, <1>2 DEF SessionOK, DrawsAreFresh, DrawsSalt, Runs
<1>7. /\ resets' = Spend(resets, req.r, req.at)
      /\ changes' = Cancelled(changes, Outstanding(changes, c), PasswordSet)
      /\ credential' = [credential EXCEPT ![c] = HashPassword(req.p, req.salt)]
      /\ UNCHANGED <<email, reference, accepted, history>>
  BY <1>5 DEF CommitReset
<1>8. row.owner = c /\ row # NoRow
  BY <1>3, <1>4
<1>9. Proved!ConsumePasswordReset(req.r, req.p, req.salt, req.at)
  <2>1. /\ Proved!Presentable(row, req.at) /\ Proved!FreshSalt(req.salt)
        /\ Spend(resets, req.r, req.at) = Proved!Spend(resets, req.r, req.at)
        /\ Cancelled(changes, Outstanding(changes, c), PasswordSet) =
             Proved!Supersede(changes, c, Proved!PasswordSet)
        /\ HashPassword(req.p, req.salt) = Proved!HashPassword(req.p, req.salt)
    BY <1>5, <1>6, SameRules DEF Proved!FreshSalt
  <2> QED
    BY <1>7, <1>8, <2>1 DEF Proved!ConsumePasswordReset
<1>10. Proved!Next
  BY <1>4, <1>9 DEF Proved!Next
<1>11. Publishes(s)
  <2>1. \A d \in Customer :
          credential'[d] = IF d = c THEN HashPassword(req.p, req.salt) ELSE credential[d]
    BY <1>1, <1>7 DEF TableTypes
  <2>2. HashPassword(req.p, req.salt).salt = req.salt
    BY DEF HashPassword
  <2>3. \A k \in ChangeId :
          /\ changes[k] = NoRow => changes'[k] = NoRow
          /\ changes[k] # NoRow => /\ changes'[k] # NoRow
                                   /\ changes'[k].owner = changes[k].owner
                                   /\ changes'[k].under = changes[k].under
                                   /\ changes[k].owner # c => changes'[k] = changes[k]
    BY <1>1, <1>3, <1>7, CancelledChanges, Reasons
  <2>4. /\ \A j \in ResetId : j # req.r => resets'[j] = resets[j]
        /\ resets'[req.r] # NoRow
        /\ resets'[req.r].owner = row.owner
    BY <1>1, <1>4, <1>7, <1>8, SpentReset
  <2>5. \A r \in ResetId :
          /\ resets[r] = NoRow => resets'[r] = NoRow
          /\ resets[r] # NoRow => /\ resets'[r] # NoRow
                                  /\ resets'[r].owner = resets[r].owner
                                  /\ resets[r].owner # c => resets'[r] = resets[r]
    BY <1>8, <2>4
  <2>6. \A q \in Session : q # s /\ HasLock(q) => tx[q].c # c
    BY CustomerOfCommit
  <2> QED
    BY <1>6, <1>7, <2>1, <2>2, <2>3, <2>5, <2>6 DEF Publishes
<1> QED
  BY <1>10, <1>11

\* A commit is one door of Account, with all its checks true at that moment.
LEMMA CommitIsADoor ==
  ASSUME IInv, NEW s \in Session, Commit(s)
  PROVE  Proved!Next /\ Publishes(s) /\ End(s)
BY CommitCreateIsADoor, CommitPasswordIsADoor, CommitStartChangeIsADoor, CommitConfirmIsADoor,
   CommitStartResetIsADoor, CommitResetIsADoor DEF Commit

\* A commit keeps the invariant.
LEMMA CommitKeepsIInv ==
  ASSUME IInv, NEW s \in Session, Commit(s)
  PROVE  IInv'
<1>1. Proved!IInv /\ [Proved!Next]_(Proved!vars) => Proved!IInv'
  BY Assumptions, Proved!NextKeepsIInv
<1> QED
  BY <1>1, CommitIsADoor, PublishedKeepsIInv DEF IInv

-----------------------------------------------------------------------------
(* The invariant.                                                          *)

\* No transaction is open and nothing is locked.
LEMMA InitIInv == Init => IInv
<1> SUFFICES ASSUME Init PROVE IInv
  OBVIOUS
<1>1. Proved!IInv
  <2>1. Proved!Init => Proved!IInv
    BY Assumptions, Proved!InitIInv
  <2>2. Proved!Init
    BY DEF Init, Proved!Init, Proved!NoCredential, NoCredential
  <2> QED
    BY <2>1, <2>2
<1>2. LockTypes
  BY IdleIsTyped DEF Init, LockTypes
<1>3. \A s \in Session : /\ tx[s].req.door = "none" /\ tx[s].req = NoRequest
                         /\ tx[s].entered = FALSE
  BY DEF Init, Idle, NoRequest
<1>4. ASSUME NEW s \in Session
      PROVE  SessionOK(s)
  <2> USE <1>3 DEF Runs, Presents, Running
  <2>1. StaysOnItsRoute(s) /\ KnowsItsCustomer(s)
    BY DEF StaysOnItsRoute, KnowsItsCustomer, HasLocated
  <2>2. ReadsHold(s) /\ ChecksHold(s)
    BY DEF ReadsHold, ChecksHold, HasLock, HasAuthorised, HasToken, HasSuperseded
  <2>3. DrawsAreFresh(s) /\ EntryIsUnique(s)
    BY DEF DrawsAreFresh, DrawsSalt, EntryIsUnique, HasEntered
  <2> QED
    BY <2>1, <2>2, <2>3 DEF SessionOK
<1>5. PairsApart
  BY <1>3 DEF PairsApart, DrawsAreApart, DrawsSalt, EntriesAreApart, Runs
<1>6. TokenLocksOK
  BY DEF Init, TokenLocksOK, TokenLockOK
<1> QED
  BY <1>1, <1>2, <1>4, <1>5, <1>6 DEF IInv

\* Every step of every session keeps it.
LEMMA NextKeepsIInv == IInv /\ [Next]_vars => IInv'
<1> SUFFICES ASSUME IInv, [Next]_vars PROVE IInv'
  OBVIOUS
<1>1. CASE UNCHANGED vars
  <2>1. Proved!IInv'
    BY <1>1, TablesKept DEF IInv, vars, tables
  <2>2. LockTypes'
    BY <1>1 DEF IInv, LockTypes, vars
  <2>3. \A s \in Session : SessionOK(s)'
    BY <1>1, SessionKept DEF IInv, vars, tables
  <2>4. PairsApart'
    BY <1>1, PairKept DEF IInv, PairsApart, vars, tables
  <2>5. TokenLocksOK'
    BY <1>1 DEF IInv, TokenLocksOK, TokenLockOK, HasLock, Presents, vars
  <2> QED
    BY <2>1, <2>2, <2>3, <2>4, <2>5 DEF IInv
<1>2. ASSUME NEW s \in Session, NEW door \in Door, NEW req \in Request(door), Begin(s, req)
      PROVE  IInv'
  BY <1>2, BeginKeepsIInv
<1>3. ASSUME NEW s \in Session, Step(s)
      PROVE  IInv'
  BY <1>3, LocateTokenKeepsIInv, LockCustomerKeepsIInv, LockTokenKeepsIInv, AuthoriseKeepsIInv,
     CheckKeepsIInv, EnterCustomerKeepsIInv, SpendTokenKeepsIInv, SupersedeTokensKeepsIInv,
     CommitKeepsIInv DEF Step
<1>4. ASSUME NEW s \in Session, Abort(s)
      PROVE  IInv'
  BY <1>4, RefuseKeepsIInv DEF Abort
<1> QED
  BY <1>1, <1>2, <1>3, <1>4 DEF Next

\* The inductive invariant holds of every interleaving of the doors.
THEOREM Invariance == Spec => []IInv
<1>1. Init => IInv
  BY InitIInv
<1>2. IInv /\ [Next]_vars => IInv'
  BY NextKeepsIInv
<1> QED
  BY <1>1, <1>2, PTL DEF Spec

\* What a door has read or staged under its locks still holds when it commits,
\* however many sessions run and wherever they are interrupted (FOR UPDATE).
THEOREM ReadsStillHold == Spec => []WhatWasReadStillHolds
<1>1. IInv => WhatWasReadStillHolds
  <2> SUFFICES ASSUME IInv, NEW s \in Session, Running(s)
               PROVE  /\ Past(s, "lock") => Exists(tx[s].c) /\ tx[s].seen = email[tx[s].c]
                      /\ Past(s, "authorise") => tx[s].under = credential[tx[s].c].salt
                      /\ Past(s, "token") => Presentable(TokenRow(s), tx[s].req.at)
                      /\ Past(s, "supersede") => tx[s].cancelled = ToCancel(s)
    BY DEF WhatWasReadStillHolds
  <2>1. LockTypes /\ StaysOnItsRoute(s) /\ ReadsHold(s)
    BY DEF IInv, SessionOK
  <2> QED
    BY <2>1, PastStatements DEF ReadsHold
<1> QED
  BY <1>1, Invariance, PTL

\* Whoever holds a token row holds the row of the customer it belongs to: no
\* two writers reach one customer's tokens at once (LOCK_ORDER).
THEOREM TokensAreLockedUnderTheirCustomer == Spec => []TokenLocksUnderTheirCustomer
<1>1. IInv => TokenLocksUnderTheirCustomer
  <2> SUFFICES ASSUME IInv PROVE TokenLocksUnderTheirCustomer
    OBVIOUS
  <2>1. LockTypes /\ TableTypes /\ TokenLocksOK
    BY TypesOfTables DEF IInv
  <2>2. ASSUME NEW t \in ChangeId \cup ResetId, tokenLock[t] # NoSession, HasLock(tokenLock[t])
        PROVE  rowLock[tx[tokenLock[t]].c] = tokenLock[t]
    <3>1. tokenLock[t] \in Session
      BY <2>1, <2>2 DEF LockTypes
    <3> QED
      BY <2>1, <2>2, <3>1, LockedCustomer DEF IInv
  <2> QED
    BY <2>1, <2>2 DEF TokenLocksOK, TokenLockOK, TokenLocksUnderTheirCustomer
<1> QED
  BY <1>1, Invariance, PTL

\* Every committed row, transaction and lock is well typed, whatever the
\* interleaving.
THEOREM TypeCorrect == Spec => []TypeOK
<1>1. IInv => TypeOK
  <2> SUFFICES ASSUME IInv PROVE TypeOK
    OBVIOUS
  <2>1. LockTypes /\ TableTypes
    BY TypesOfTables DEF IInv
  <2>2. accepted \subseteq Customer
    BY DEF IInv, Proved!IInv, Proved!TypeOK
  <2> QED
    BY <2>1, <2>2 DEF TypeOK, LockTypes, Transaction, TableTypes
<1> QED
  BY <1>1, Invariance, PTL

-----------------------------------------------------------------------------
(* The refinement.                                                         *)

\* Every step is a door of Account or changes no table.
LEMMA EveryStepIsADoor == IInv /\ [Next]_vars => [Proved!Next]_(Proved!vars)
<1> SUFFICES ASSUME IInv, [Next]_vars PROVE Proved!Next \/ UNCHANGED tables
  BY DEF tables, Proved!vars
<1>1. CASE UNCHANGED vars
  BY <1>1 DEF vars, tables
<1>2. ASSUME NEW s \in Session, NEW door \in Door, NEW req \in Request(door), Begin(s, req)
      PROVE  UNCHANGED tables
  BY <1>2 DEF Begin
<1>3. ASSUME NEW s \in Session, Step(s)
      PROVE  Proved!Next \/ UNCHANGED tables
  <2>1. CASE Commit(s)
    BY <2>1, CommitIsADoor
  <2>2. CASE LocateToken(s) \/ LockCustomer(s) \/ LockToken(s) \/ Authorise(s) \/ Check(s)
    BY <2>2 DEF LocateToken, LockCustomer, LockToken, Authorise, Check, Refuse
  <2>3. CASE EnterCustomer(s) \/ SpendToken(s) \/ SupersedeTokens(s)
    BY <2>3 DEF EnterCustomer, SpendToken, SupersedeTokens, Refuse
  <2> QED
    BY <1>3, <2>1, <2>2, <2>3 DEF Step
<1>4. ASSUME NEW s \in Session, Abort(s)
      PROVE  UNCHANGED tables
  BY <1>4 DEF Abort, Refuse
<1> QED
  BY <1>1, <1>2, <1>3, <1>4 DEF Next

\* The account that AccountProofs reasons about is the one AccountStore names.
LEMMA SameAccount ==
  /\ Proved!Init <=> Serial!Init
  /\ Proved!Next <=> Serial!Next
  /\ Proved!vars = Serial!vars
<1>1. Proved!Init <=> Serial!Init
  BY DEF Proved!Init, Serial!Init, Proved!NoCredential, Serial!NoCredential
<1>2. Proved!vars = Serial!vars
  BY DEF Proved!vars, Serial!vars
<1>3. \A c, a, r : Proved!CreateAccount(c, a, r) <=> Serial!CreateAccount(c, a, r)
  BY DEF Proved!CreateAccount, Serial!CreateAccount, Proved!Exists, Serial!Exists,
     Proved!Holders, Serial!Holders, Proved!SameAddress, Serial!SameAddress
<1>4. /\ \A table, c, reason :
           Proved!Supersede(table, c, reason) = Serial!Supersede(table, c, reason)
      /\ \A table, k, at : Proved!Spend(table, k, at) = Serial!Spend(table, k, at)
      /\ \A p, salt : Proved!HashPassword(p, salt) = Serial!HashPassword(p, salt)
  BY DEF Proved!Supersede, Proved!Cancelled, Proved!Outstanding, Serial!Supersede,
     Serial!Cancelled, Serial!Outstanding, Proved!Spend, Serial!Spend, Proved!HashPassword,
     Serial!HashPassword
<1>5. /\ \A c : Proved!Exists(c) <=> Serial!Exists(c)
      /\ \A salt : Proved!FreshSalt(salt) <=> Serial!FreshSalt(salt)
      /\ \A row, at : Proved!Presentable(row, at) <=> Serial!Presentable(row, at)
      /\ Proved!PasswordSet = Serial!PasswordSet /\ Proved!Superseded = Serial!Superseded
      /\ Proved!EmailChanged = Serial!EmailChanged
      /\ Proved!ByCaller = Serial!ByCaller /\ Proved!ByPassword = Serial!ByPassword
  BY DEF Proved!Exists, Serial!Exists, Proved!FreshSalt, Serial!FreshSalt, Proved!Presentable,
     Serial!Presentable, Proved!Judgement, Serial!Judgement, Proved!IsExpired, Serial!IsExpired,
     Proved!PasswordSet, Serial!PasswordSet, Proved!Superseded, Serial!Superseded,
     Proved!EmailChanged, Serial!EmailChanged, Proved!ByCaller, Serial!ByCaller,
     Proved!ByPassword, Serial!ByPassword
<1>6. /\ \A c, a, authorisation, at, window, stored :
            Proved!NewChange(c, a, authorisation, at, window, stored) =
              Serial!NewChange(c, a, authorisation, at, window, stored)
      /\ \A c, a, at, window :
            Proved!NewReset(c, a, at, window) = Serial!NewReset(c, a, at, window)
  BY DEF Proved!NewChange, Serial!NewChange, Proved!NewReset, Serial!NewReset,
     Proved!NotCancelled, Serial!NotCancelled, Proved!Expiry, Serial!Expiry
<1>7. \A c, p, salt : Proved!SetPassword(c, p, salt) <=> Serial!SetPassword(c, p, salt)
  BY <1>4, <1>5 DEF Proved!SetPassword, Serial!SetPassword
<1>8. \A c, k, a, proof, at, window :
        Proved!StartEmailChange(c, k, a, proof, at, window) <=>
          Serial!StartEmailChange(c, k, a, proof, at, window)
  <2> TAKE c, k, a, proof, at, window
  <2> DEFINE proved == [Proved!Supersede(changes, c, Proved!Superseded) EXCEPT ![k] =
                          Proved!NewChange(c, a, IF proof = Proved!ByCaller
                                                 THEN Proved!ByCaller ELSE Proved!ByPassword,
                                           at, window, credential[c])]
             serial == [Serial!Supersede(changes, c, Serial!Superseded) EXCEPT ![k] =
                          Serial!NewChange(c, a, IF proof = Serial!ByCaller
                                                 THEN Serial!ByCaller ELSE Serial!ByPassword,
                                           at, window, credential[c])]
  <2>1. proved = serial
    BY <1>4, <1>5, <1>6
  <2>2. /\ Proved!Verified(credential[c], proof) <=> Serial!Verified(credential[c], proof)
        /\ Proved!SameAddress(email[c], a) <=> Serial!SameAddress(email[c], a)
        /\ Proved!Readable(Proved!Expiry(at, window)) <=> Serial!Readable(Serial!Expiry(at, window))
        /\ Proved!Exists(c) <=> Serial!Exists(c)
        /\ Proved!ByCaller = Serial!ByCaller
    BY <1>5 DEF Proved!Verified, Serial!Verified, Proved!HasCredential, Serial!HasCredential,
       Proved!SameAddress, Serial!SameAddress, Proved!Readable, Serial!Readable, Proved!Expiry,
       Serial!Expiry, Proved!Exists, Serial!Exists
  <2>3. Proved!StartEmailChange(c, k, a, proof, at, window) <=>
          /\ Proved!Exists(c) /\ changes[k] = NoRow
          /\ proof # Proved!ByCaller => Proved!Verified(credential[c], proof)
          /\ ~Proved!SameAddress(email[c], a)
          /\ Proved!Readable(Proved!Expiry(at, window))
          /\ changes' = proved
          /\ UNCHANGED <<email, reference, accepted, credential, resets, history>>
    BY DEF Proved!StartEmailChange
  <2>4. Serial!StartEmailChange(c, k, a, proof, at, window) <=>
          /\ Serial!Exists(c) /\ changes[k] = NoRow
          /\ proof # Serial!ByCaller => Serial!Verified(credential[c], proof)
          /\ ~Serial!SameAddress(email[c], a)
          /\ Serial!Readable(Serial!Expiry(at, window))
          /\ changes' = serial
          /\ UNCHANGED <<email, reference, accepted, credential, resets, history>>
    BY DEF Serial!StartEmailChange
  <2> HIDE DEF proved, serial
  <2> QED
    BY <2>1, <2>2, <2>3, <2>4
<1>9. \A k, at : Proved!ConfirmEmailChange(k, at) <=> Serial!ConfirmEmailChange(k, at)
  BY <1>4, <1>5, Zenon
     DEF Proved!ConfirmEmailChange, Serial!ConfirmEmailChange, Proved!BeforeLatestChange,
     Serial!BeforeLatestChange, Proved!Holders, Serial!Holders, Proved!SameAddress,
     Serial!SameAddress, Proved!NewHistory, Serial!NewHistory
<1>10. \A c, r, at, window :
        Proved!StartPasswordReset(c, r, at, window) <=> Serial!StartPasswordReset(c, r, at, window)
  <2> TAKE c, r, at, window
  <2> DEFINE proved == [Proved!Supersede(resets, c, Proved!Superseded) EXCEPT ![r] =
                          Proved!NewReset(c, email[c], at, window)]
             serial == [Serial!Supersede(resets, c, Serial!Superseded) EXCEPT ![r] =
                          Serial!NewReset(c, email[c], at, window)]
  <2>1. proved = serial
    BY <1>4, <1>5, <1>6
  <2>2. /\ Proved!HasCredential(credential[c]) <=> Serial!HasCredential(credential[c])
        /\ Proved!Readable(Proved!Expiry(at, window)) <=> Serial!Readable(Serial!Expiry(at, window))
        /\ Proved!Exists(c) <=> Serial!Exists(c)
    BY DEF Proved!HasCredential, Serial!HasCredential, Proved!Readable, Serial!Readable,
       Proved!Expiry, Serial!Expiry, Proved!Exists, Serial!Exists
  <2>3. Proved!StartPasswordReset(c, r, at, window) <=>
          /\ Proved!Exists(c) /\ resets[r] = NoRow
          /\ Proved!HasCredential(credential[c])
          /\ Proved!Readable(Proved!Expiry(at, window))
          /\ resets' = proved
          /\ UNCHANGED <<email, reference, accepted, credential, changes, history>>
    BY DEF Proved!StartPasswordReset
  <2>4. Serial!StartPasswordReset(c, r, at, window) <=>
          /\ Serial!Exists(c) /\ resets[r] = NoRow
          /\ Serial!HasCredential(credential[c])
          /\ Serial!Readable(Serial!Expiry(at, window))
          /\ resets' = serial
          /\ UNCHANGED <<email, reference, accepted, credential, changes, history>>
    BY DEF Serial!StartPasswordReset
  <2> HIDE DEF proved, serial
  <2> QED
    BY <2>1, <2>2, <2>3, <2>4
<1>11. \A r, p, salt, at :
         Proved!ConsumePasswordReset(r, p, salt, at) <=> Serial!ConsumePasswordReset(r, p, salt, at)
  BY <1>4, <1>5 DEF Proved!ConsumePasswordReset, Serial!ConsumePasswordReset
<1>12. Proved!Next <=> Serial!Next
  BY <1>3, <1>5, <1>7, <1>8, <1>9, <1>10, <1>11, Zenon DEF Proved!Next, Serial!Next
<1> QED
  BY <1>1, <1>2, <1>12

\* However the doors interleave, are refused and fail, the committed tables
\* behave as if every door had run alone.
THEOREM StoreImplementsAccount == Spec => ImplementsAccount
<1>1. Init => Serial!Init
  BY DEF Init, Serial!Init, Serial!NoCredential, NoCredential
<1>2. IInv /\ [Next]_vars => [Serial!Next]_(Serial!vars)
  <2>1. IInv /\ [Next]_vars => Proved!Next \/ UNCHANGED Proved!vars
    BY EveryStepIsADoor
  <2> QED
    BY <2>1, SameAccount DEF Proved!vars, Serial!vars
<1> QED
  BY <1>1, <1>2, Invariance, PTL DEF Spec, ImplementsAccount, Serial!Spec

\* What Account promises, the committed tables keep under every interleaving,
\* refusal and failure: at every moment all of its invariants hold of them.
THEOREM CommittedTablesKeepThePromises ==
  Spec => [](/\ Serial!OneAccountPerAddress
             /\ Serial!OneLiveTokenOfEachKind
             /\ Serial!LiveResetGoesToCurrentAddress
             /\ Serial!LiveChangeIsUnderCurrentCredential
             /\ Serial!LiveChangeMovesTheAddress
             /\ Serial!HistoryIsAChain
             /\ Serial!RedeemedChangesAreTheHistory
             /\ Serial!RedeemedInsideTheWindow
             /\ Serial!TokensNeedTheirCredential)
<1> DEFINE Promises == /\ Serial!OneAccountPerAddress
                       /\ Serial!OneLiveTokenOfEachKind
                       /\ Serial!LiveResetGoesToCurrentAddress
                       /\ Serial!LiveChangeIsUnderCurrentCredential
                       /\ Serial!LiveChangeMovesTheAddress
                       /\ Serial!HistoryIsAChain
                       /\ Serial!RedeemedChangesAreTheHistory
                       /\ Serial!RedeemedInsideTheWindow
                       /\ Serial!TokensNeedTheirCredential
<1>1. IInv => Promises
  <2> SUFFICES ASSUME Proved!IInv PROVE Promises
    BY DEF IInv
  <2> USE DEF Proved!IInv
  <2>1. Serial!OneAccountPerAddress
    BY DEF Proved!OneAccountPerAddress, Serial!OneAccountPerAddress, Proved!Exists, Serial!Exists
  <2>2. Serial!OneLiveTokenOfEachKind /\ Serial!LiveResetGoesToCurrentAddress
    BY DEF Proved!OneLiveTokenOfEachKind, Serial!OneLiveTokenOfEachKind,
       Proved!LiveResetGoesToCurrentAddress, Serial!LiveResetGoesToCurrentAddress,
       Proved!LiveChange, Serial!LiveChange, Proved!LiveReset, Serial!LiveReset
  <2>3. Serial!LiveChangeIsUnderCurrentCredential /\ Serial!LiveChangeMovesTheAddress
    BY DEF Proved!LiveChangeIsUnderCurrentCredential, Serial!LiveChangeIsUnderCurrentCredential,
       Proved!LiveChangeMovesTheAddress, Serial!LiveChangeMovesTheAddress, Proved!LiveChange,
       Serial!LiveChange
  <2>4. Serial!HistoryIsAChain
    BY DEF Proved!HistoryIsAChain, Serial!HistoryIsAChain
  <2>5. Serial!RedeemedChangesAreTheHistory
    BY DEF Proved!RedeemedChangesAreTheHistory, Serial!RedeemedChangesAreTheHistory
  <2>6. Serial!RedeemedInsideTheWindow
    BY DEF Proved!RedeemedInsideTheWindow, Serial!RedeemedInsideTheWindow, Proved!RedeemedInside,
       Serial!RedeemedInside
  <2>7. Serial!TokensNeedTheirCredential
    BY DEF Proved!TokensNeedTheirCredential, Serial!TokensNeedTheirCredential,
       Proved!HasCredential, Serial!HasCredential, Proved!ByPassword, Serial!ByPassword
  <2> QED
    BY <2>1, <2>2, <2>3, <2>4, <2>5, <2>6, <2>7
<1> QED
  BY <1>1, Invariance, PTL

\* Under every interleaving a token row closes once and is final, and an
\* address moves only by spending a live token that points there.
THEOREM CommitsCloseTokensOnce ==
  Spec => Serial!TokensCloseOnce /\ Serial!AddressMovesOnlyByItsToken
<1>1. Spec => Proved!Spec
  <2>1. Init => Proved!Init
    BY DEF Init, Proved!Init, Proved!NoCredential, NoCredential
  <2> QED
    BY <2>1, EveryStepIsADoor, Invariance, PTL DEF Spec, Proved!Spec
<1>2. Proved!Spec => Proved!TokensCloseOnce
  BY Assumptions, Proved!TokensAreFinal
<1>3. Proved!Spec => Proved!AddressMovesOnlyByItsToken
  BY Assumptions, Proved!AddressesMoveByToken
<1>4. Proved!TokensCloseOnce => Serial!TokensCloseOnce
  BY DEF Proved!TokensCloseOnce, Serial!TokensCloseOnce, Proved!KeptOrClosed, Serial!KeptOrClosed,
     Proved!SameIssue, Serial!SameIssue, Proved!vars, Serial!vars
<1>5. Proved!AddressMovesOnlyByItsToken => Serial!AddressMovesOnlyByItsToken
  BY DEF Proved!AddressMovesOnlyByItsToken, Serial!AddressMovesOnlyByItsToken, Proved!Exists,
     Serial!Exists, Proved!LiveChange, Serial!LiveChange, Proved!vars, Serial!vars
<1> QED
  BY <1>1, <1>2, <1>3, <1>4, <1>5
=============================================================================
