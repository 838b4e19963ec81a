--------------------------- MODULE AccountTables ---------------------------
(***************************************************************************)
(* The tables of one operator's account store and the rules every door     *)
(* applies to a row: what a row holds, when two addresses are one, when a  *)
(* token may be presented, and what it means to spend, to supersede and to *)
(* replace.  The serial specification (Account) and the statement-level    *)
(* one (AccountStore) are both written over these operators.               *)
(*                                                                         *)
(* A table whose rows are keyed is a function on the keys; a key that was  *)
(* never inserted maps to NoRow.  Nothing deletes a row.                   *)
(***************************************************************************)
EXTENDS Integers, Sequences

CONSTANTS
  Customer,      \* customers.id values that an INSERT may draw
  Address,       \* addresses as given, spelling included
  Fold(_),       \* the database's lower(): the form uniqueness is judged in
  Reference,     \* customers.external_id values
  Secret,        \* passwords
  ChangeId,      \* pending_email_changes.id values; one token each
  ResetId,       \* credential_resets.id values; one token each
  Instant,       \* the instants a caller may state as --at
  Window,        \* the validity windows a caller may state
  FirstReadable, \* the first and the last expiry the driver can read back
  LastReadable,  \*   in every session time zone
  Salt,          \* the salts a credential write may draw
  NoAddress,     \* the customer row does not exist
  NoReference,   \* external_id IS NULL
  NoSecret,      \* no customer_credentials row, so no password
  NoSalt,        \*   and no salt
  NoInstant,     \* redeemed_at IS NULL
  NoRow          \* no row under this key

ASSUME InstantsAreWhole == Instant \subseteq Int /\ Window \subseteq Nat \ {0}
ASSUME BoundsAreWhole ==
  FirstReadable \in Int /\ LastReadable \in Int
ASSUME NullsAreApart ==
  /\ NoAddress \notin Address
  /\ NoReference \notin Reference
  /\ NoSecret \notin Secret /\ NoSalt \notin Salt
  /\ NoInstant \notin Int

TokenState == {"issued", "redeemed", "cancelled"}

ByPassword == "password"
ByCaller   == "caller"

Superseded   == "superseded"
PasswordSet  == "password_set"
EmailChanged == "email_changed"
NotCancelled == "none"
Reason       == {Superseded, PasswordSet, EmailChanged, NotCancelled}

(***************************************************************************)
(* A pending change and a reset are the same primitive with a different    *)
(* subject.  Two fields are history variables, not columns:  a change row  *)
(* remembers the salt of the credential in force when it was authorised    *)
(* (under), and a reset row the address its token was handed out for       *)
(* (deliveredTo, which the code returns as deliver_to and does not store). *)
(***************************************************************************)
ChangeRow ==
  [owner : Customer, state : TokenState, issuedAt : Instant, expiresAt : Int,
   redeemedAt : Instant \cup {NoInstant}, reason : Reason,
   to : Address, authorisation : {ByPassword, ByCaller}, under : Salt \cup {NoSalt}]

ResetRow ==
  [owner : Customer, state : TokenState, issuedAt : Instant, expiresAt : Int,
   redeemedAt : Instant \cup {NoInstant}, reason : Reason,
   deliveredTo : Address]

ASSUME NoRowIsApart == NoRow \notin ChangeRow /\ NoRow \notin ResetRow
ASSUME ByCallerIsNoPassword == ByCaller \notin Secret

(***************************************************************************)
(* One row of customer_email_changes.  change is a history variable: the   *)
(* pending row the confirmation spent.                                     *)
(***************************************************************************)
HistoryRow ==
  [from : Address, to : Address, authorisation : {ByPassword, ByCaller},
   changedAt : Instant, change : ChangeId]

(***************************************************************************)
(* customer_credentials: the password a verification accepts and the salt  *)
(* it is hashed with.  Every write draws a new salt, so two writes of one  *)
(* password are two credentials.                                           *)
(***************************************************************************)
Credential == [secret : Secret \cup {NoSecret}, salt : Salt \cup {NoSalt}]

NoCredential == [secret |-> NoSecret, salt |-> NoSalt]

HasCredential(credential) == credential.secret # NoSecret

\* hash_password under the module's parameters.
HashPassword(password, salt) == [secret |-> password, salt |-> salt]

\* verify() under the row's own parameters: this password, and a row to try it on.
Verified(credential, password) ==
  HasCredential(credential) /\ credential.secret = password

-----------------------------------------------------------------------------

\* Mutant: addresses compared as given.
SameSpelling(a, b) == a = b

SameAddress(a, b) == Fold(a) = Fold(b)

\* The customers whose row carries this address, as the store folds it.
Holders(email, a) ==
  {c \in DOMAIN email : email[c] # NoAddress /\ SameAddress(email[c], a)}

\* Where the window ends, and whether that instant can be stored at all.
Expiry(at, window) == at + window
Readable(instant) == FirstReadable <= instant /\ instant <= LastReadable

\* Mutant: the expiry itself still counts as inside.
IsPastExpiry(row, at) == at > row.expiresAt

IsExpired(row, at) == at >= row.expiresAt

(***************************************************************************)
(* A located token row, judged under the locks in the order the refusals   *)
(* are published in: used, cancelled, expired, presented before its issue. *)
(***************************************************************************)
Judgement(row, at) ==
  CASE row.state = "redeemed"  -> "already_used"
    [] row.state = "cancelled" -> "cancelled"
    [] row.state = "issued" /\ IsExpired(row, at) -> "expired"
    [] row.state = "issued" /\ ~IsExpired(row, at) /\ at < row.issuedAt -> "before_issue"
    [] OTHER -> "presentable"

\* Mutant: a located row is taken at its word.
Located(row, at) == row # NoRow

Presentable(row, at) == row # NoRow /\ Judgement(row, at) = "presentable"

\* Mutant: the state is left out of the WHERE.
EveryTokenOf(table, c) == {k \in DOMAIN table : table[k] # NoRow /\ table[k].owner = c}

\* The outstanding tokens of one customer in one table.
Outstanding(table, c) ==
  {k \in DOMAIN table : /\ table[k] # NoRow
                        /\ table[k].owner = c
                        /\ table[k].state = "issued"}

\* Mutant: the closing state is typed "expired".
TypedExpired(table, keys, reason) ==
  [k \in DOMAIN table |->
     IF k \in keys THEN [table[k] EXCEPT !.state = "expired", !.reason = reason] ELSE table[k]]

\* The table with these rows cancelled.
Cancelled(table, keys, reason) ==
  [k \in DOMAIN table |->
     IF k \in keys
     THEN [table[k] EXCEPT !.state = "cancelled", !.reason = reason]
     ELSE table[k]]

\* Mutants: one path forgets to close its own kind, or to close the other's.
SupersedeOtherKind(table, c, reason) ==
  IF reason = Superseded THEN table ELSE Cancelled(table, Outstanding(table, c), reason)
SupersedeSameKind(table, c, reason) ==
  IF reason = Superseded THEN Cancelled(table, Outstanding(table, c), reason) ELSE table

\* Every outstanding token of the customer cancelled, with the reason given.
Supersede(table, c, reason) == Cancelled(table, Outstanding(table, c), reason)

\* Mutant: the spend stamps the row and leaves it open.
SpendLeavesOpen(table, k, at) == [table EXCEPT ![k].redeemedAt = at]

\* The table with one row spent.
Spend(table, k, at) ==
  [table EXCEPT ![k].state = "redeemed", ![k].redeemedAt = at]

NewChange(c, a, authorisation, at, window, credential) ==
  [owner |-> c, state |-> "issued", issuedAt |-> at,
   expiresAt |-> Expiry(at, window), redeemedAt |-> NoInstant,
   reason |-> NotCancelled, to |-> a, authorisation |-> authorisation,
   under |-> credential.salt]

NewReset(c, a, at, window) ==
  [owner |-> c, state |-> "issued", issuedAt |-> at,
   expiresAt |-> Expiry(at, window), redeemedAt |-> NoInstant,
   reason |-> NotCancelled, deliveredTo |-> a]

NewHistory(from, row, at, k) ==
  [from |-> from, to |-> row.to, authorisation |-> row.authorisation,
   changedAt |-> at, change |-> k]

\* Mutant: the history is not asked.
NeverBefore(history, at) == FALSE

\* max(changed_at) of the history is after the instant given.
BeforeLatestChange(history, at) ==
  \E i \in DOMAIN history : at < history[i].changedAt

-----------------------------------------------------------------------------

\* What each door is called with; the keys and the salt are the server's draw.
Request(door) ==
  CASE door = "create_account" ->
         [door : {door}, c : Customer, a : Address, ref : Reference \cup {NoReference}]
    [] door = "set_password" ->
         [door : {door}, c : Customer, p : Secret, salt : Salt]
    [] door = "start_email_change" ->
         [door : {door}, c : Customer, k : ChangeId, a : Address,
          proof : Secret \cup {ByCaller}, at : Instant, window : Window]
    [] door = "confirm_email_change" -> [door : {door}, k : ChangeId, at : Instant]
    [] door = "start_password_reset" ->
         [door : {door}, c : Customer, r : ResetId, at : Instant, window : Window]
    [] door = "consume_password_reset" ->
         [door : {door}, r : ResetId, p : Secret, salt : Salt, at : Instant]
    [] door = "record_acceptance" -> [door : {door}, c : Customer]

NoRequest == [door |-> "none"]
=============================================================================
