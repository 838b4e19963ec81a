----------------------------- MODULE Transaction -----------------------------
(***************************************************************************)
(* A program that embeds the store owns the transaction: no door commits,  *)
(* so several doors may run in one, over several customers, and a door     *)
(* that refused may be caught and the transaction committed all the same.  *)
(*                                                                         *)
(* AccountStore runs one door per transaction, statement by statement.     *)
(* Here a door is what it locks, what it checks under the locks and what   *)
(* it writes; a transaction is a sequence of doors over its own staged     *)
(* rows.  The token rows of a customer are reached under that customer's   *)
(* row alone (AccountStore), so the row's lock stands for theirs.          *)
(***************************************************************************)
EXTENDS AccountTables

CONSTANTS
  Session,    \* database connections
  NoSession,  \* nobody holds the row FOR UPDATE
  Call,       \* the calls the sessions may make in this instance
  Seed,       \* the accepted calls that may be behind the committed tables
  MaxCalls    \* bound: doors per transaction

Door ==
  {"create_account", "set_password", "start_email_change", "confirm_email_change",
   "start_password_reset", "consume_password_reset", "record_acceptance"}

Requests == UNION {Request(door) : door \in Door}

ASSUME CallsAreRequests == Call \subseteq Requests
ASSUME NoSessionIsNone == NoSession \notin Session
ASSUME MaxCallsIsWhole == MaxCalls \in Nat \ {0}

VARIABLES
  db,       \* the committed tables
  tx,       \* what each session's transaction is doing
  rowLock,  \* customers rows locked FOR UPDATE, and by whom
  keyShare  \* customers rows locked FOR KEY SHARE by a foreign key's check

vars == <<db, tx, rowLock, keyShare>>

-----------------------------------------------------------------------------
(* What a door does to the tables, run alone.                              *)

Table == {"email", "reference", "credential", "changes", "resets", "history"}

EmptyTables ==
  [email      |-> [c \in Customer |-> NoAddress],
   reference  |-> [c \in Customer |-> NoReference],
   credential |-> [c \in Customer |-> NoCredential],
   changes    |-> [k \in ChangeId |-> NoRow],
   resets     |-> [r \in ResetId |-> NoRow],
   history    |-> [c \in Customer |-> << >>]]

\* The token row a door is presented, NoRow for the other doors.
TokenOf(st, req) ==
  CASE req.door = "confirm_email_change"   -> st.changes[req.k]
    [] req.door = "consume_password_reset" -> st.resets[req.r]
    [] OTHER -> NoRow

\* The customers row a door is about: named, or the owner of its token.
Owner(st, req) ==
  {c \in Customer : /\ IF "c" \in DOMAIN req THEN c = req.c
                       ELSE TokenOf(st, req) # NoRow /\ c = TokenOf(st, req).owner
                    /\ req.door # "create_account" => st.email[c] # NoAddress}

\* No other customer carries what the door would enter in a unique index.
Free(st, req) ==
  CASE req.door = "create_account" ->
         /\ Holders(st.email, req.a) = {}
         /\ req.ref # NoReference => \A d \in Customer : st.reference[d] # req.ref
    [] req.door = "confirm_email_change" ->
         Holders(st.email, TokenOf(st, req).to) \subseteq {TokenOf(st, req).owner}
    [] OTHER -> TRUE

\* What the door asks of its customer's own rows.
Admits(st, req) ==
  CASE req.door = "start_email_change" ->
         /\ req.proof # ByCaller => Verified(st.credential[req.c], req.proof)
         /\ ~SameAddress(st.email[req.c], req.a)
         /\ Readable(Expiry(req.at, req.window))
    [] req.door = "confirm_email_change" ->
         /\ Presentable(TokenOf(st, req), req.at)
         /\ ~BeforeLatestChange(st.history[TokenOf(st, req).owner], req.at)
    [] req.door = "start_password_reset" ->
         HasCredential(st.credential[req.c]) /\ Readable(Expiry(req.at, req.window))
    [] req.door = "consume_password_reset" -> Presentable(TokenOf(st, req), req.at)
    [] OTHER -> TRUE

\* start_email_change looks for another holder of the address: advice only,
\* another transaction may take the address before this one commits.
Advises(st, req) ==
  req.door = "start_email_change" => Holders(st.email, req.a) \subseteq {req.c}

Accepts(st, req) == Owner(st, req) # {} /\ Admits(st, req) /\ Free(st, req)

Confirmed(st, k, at) ==
  LET row == st.changes[k]
      c   == row.owner
  IN  [st EXCEPT !.changes = Spend(@, k, at),
                 !.email[c] = row.to,
                 !.history[c] = Append(@, NewHistory(st.email[c], row, at, k)),
                 !.resets = Supersede(@, c, EmailChanged)]

Consumed(st, r, p, salt, at) ==
  LET c == st.resets[r].owner
  IN  [st EXCEPT !.resets = Spend(@, r, at),
                 !.changes = Supersede(@, c, PasswordSet),
                 !.credential[c] = HashPassword(p, salt)]

\* The tables after a door that accepts; record_acceptance writes none of these.
Effect(st, req) ==
  CASE req.door = "create_account" ->
         [st EXCEPT !.email[req.c] = req.a, !.reference[req.c] = req.ref]
    [] req.door = "set_password" ->
         [st EXCEPT !.changes = Supersede(@, req.c, PasswordSet),
                    !.credential[req.c] = HashPassword(req.p, req.salt)]
    [] req.door = "start_email_change" ->
         [st EXCEPT !.changes = [Supersede(@, req.c, Superseded) EXCEPT ![req.k] =
            NewChange(req.c, req.a, IF req.proof = ByCaller THEN ByCaller ELSE ByPassword,
                      req.at, req.window, st.credential[req.c])]]
    [] req.door = "confirm_email_change" -> Confirmed(st, req.k, req.at)
    [] req.door = "start_password_reset" ->
         [st EXCEPT !.resets = [Supersede(@, req.c, Superseded) EXCEPT ![req.r] =
            NewReset(req.c, st.email[req.c], req.at, req.window)]]
    [] req.door = "consume_password_reset" ->
         Consumed(st, req.r, req.p, req.salt, req.at)
    [] OTHER -> st

\* The tables after each of the calls of a log, one after another.
After(st, log) ==
  LET run[i \in 0..Len(log)] == IF i = 0 THEN st ELSE Effect(run[i - 1], log[i])
  IN  run

Replay(st, log) == After(st, log)[Len(log)]

\* Every call of the log is accepted where it stands.
Replays(st, log) == \A i \in 1..Len(log) : Accepts(After(st, log)[i - 1], log[i])

\* The key or the salt the server draws for a door.
Drawn(req) == {<<f, req[f]>> : f \in DOMAIN req \cap (CASE
     req.door = "create_account" -> {"c"}
  [] req.door = "start_email_change" -> {"k"}
  [] req.door = "start_password_reset" -> {"r"}
  [] OTHER -> {"salt"})}

TakenIn(st, draw) ==
  CASE draw[1] = "c" -> st.email[draw[2]] # NoAddress
    [] draw[1] = "k" -> st.changes[draw[2]] # NoRow
    [] draw[1] = "r" -> st.resets[draw[2]] # NoRow
    [] OTHER -> \/ \E c \in Customer : st.credential[c].salt = draw[2]
                \/ \E k \in ChangeId : st.changes[k] # NoRow /\ st.changes[k].under = draw[2]

\* Nothing the log draws is taken where it is drawn.
DrawsAnew(st, log) ==
  \A i \in 1..Len(log) : \A draw \in Drawn(log[i]) : ~TakenIn(After(st, log)[i - 1], draw)

ASSUME SeedsHappened ==
  \A log \in Seed :
    log \in Seq(Requests) /\ Replays(EmptyTables, log) /\ DrawsAnew(EmptyTables, log)

-----------------------------------------------------------------------------
(* A transaction: the calls it made that were accepted, how many it made,  *)
(* the call in progress and its stage, the rows it staged, the entries it  *)
(* made or freed in the unique indexes, and whether a statement failed.    *)

NoRows == [t \in Table |-> << >>]

Closed ==
  [log |-> << >>, calls |-> 0, req |-> NoRequest, next |-> 0, staged |-> NoRows,
   entries |-> {}, failed |-> FALSE]

\* Mutant: two doors read their customer under a shared lock and take it for
\* themselves only when they write.
UpgradedLock(door) ==
  CASE door = "create_account"    -> <<"check", "write">>
    [] door = "record_acceptance" -> <<"check", "share", "write">>
    [] door \in {"set_password", "start_email_change"} -> <<"share", "check", "lock", "write">>
    [] OTHER -> <<"lock", "check", "write">>

\* The stages of a door.  record_acceptance reads its customer without a lock;
\* its INSERT then shares the row, to check the foreign key.
Stages(door) ==
  CASE door = "create_account"    -> <<"check", "write">>
    [] door = "record_acceptance" -> <<"check", "share", "write">>
    [] OTHER -> <<"lock", "check", "write">>

Running(s) == tx[s].calls > 0
InDoor(s)  == tx[s].req # NoRequest
Stage(s)   == IF InDoor(s) THEN Stages(tx[s].req.door)[tx[s].next] ELSE "none"

\* What a statement of the session reads: its own rows over the committed ones.
View(s) ==
  [t \in Table |->
     [x \in DOMAIN db[t] |->
        IF x \in DOMAIN tx[s].staged[t] THEN tx[s].staged[t][x] ELSE db[t][x]]]

\* The rows a session has staged once its tables read as given.
Staging(s, new) ==
  [t \in Table |->
     [x \in {y \in DOMAIN new[t] : \/ y \in DOMAIN tx[s].staged[t]
                                   \/ new[t][y] # View(s)[t][y]} |-> new[t][x]]]

\* A key or a salt the server draws is nobody else's.
Fresh(req) ==
  \A draw \in Drawn(req) :
    /\ ~TakenIn(db, draw)
    /\ \A s \in Session : /\ InDoor(s) => draw \notin Drawn(tx[s].req)
                          /\ \A i \in DOMAIN tx[s].log : draw \notin Drawn(tx[s].log[i])

Init ==
  /\ \E log \in Seed : db = Replay(EmptyTables, log)
  /\ tx = [s \in Session |-> Closed]
  /\ rowLock = [c \in Customer |-> NoSession]
  /\ keyShare = [c \in Customer |-> {}]

-----------------------------------------------------------------------------

\* The caller opens a transaction, or goes on in it, with one more door.
Begin(s, req) ==
  /\ ~InDoor(s) /\ ~tx[s].failed
  /\ tx[s].calls < MaxCalls
  /\ Fresh(req)
  /\ tx' = [tx EXCEPT ![s].req = req, ![s].next = 1, ![s].calls = @ + 1]
  /\ UNCHANGED <<db, rowLock, keyShare>>

\* The end of a transaction: its locks and what is left of its rows go.
End(s) ==
  /\ tx' = [tx EXCEPT ![s] = Closed]
  /\ rowLock' = [c \in Customer |-> IF rowLock[c] = s THEN NoSession ELSE rowLock[c]]
  /\ keyShare' = [c \in Customer |-> keyShare[c] \ {s}]

\* A rollback by the caller, a driver error, a crash, a lost connection, the
\* server's choice of a victim in a deadlock: possible at any point.
Rollback(s) == Running(s) /\ End(s) /\ UNCHANGED db

\* Mutant: the live token is superseded before the expiry is refused.
RefusedLate(s) ==
  tx' = [tx EXCEPT ![s].req = NoRequest,
                   ![s].staged = Staging(s, [View(s) EXCEPT !.changes =
                      IF tx[s].req.door # "start_email_change" THEN @
                      ELSE Supersede(@, tx[s].req.c, Superseded)])]

\* A refusal that the caller catches: the transaction is as it was, with the
\* rows staged by earlier doors, and with every lock.
Refused(s) == tx' = [tx EXCEPT ![s].req = NoRequest]

\* The door goes on to its next stage.
Advance(s) == tx' = [tx EXCEPT ![s].next = @ + 1]

(***************************************************************************)
(* The customers row FOR UPDATE.  Whose token it is is read just before,   *)
(* without a lock: a token's owner never changes.                          *)
(***************************************************************************)
LockCustomer(s) ==
  LET owner == Owner(View(s), tx[s].req)
  IN  /\ Stage(s) = "lock"
      /\ \/ owner = {} /\ Refused(s) /\ UNCHANGED rowLock
         \/ \E c \in owner : /\ rowLock[c] \in {NoSession, s}
                             /\ keyShare[c] \subseteq {s}
                             /\ rowLock' = [rowLock EXCEPT ![c] = s]
                             /\ Advance(s)
      /\ UNCHANGED <<db, keyShare>>

\* FOR KEY SHARE waits for FOR UPDATE, not for another share.
ShareCustomer(s) ==
  LET c == tx[s].req.c
  IN  /\ Stage(s) = "share"
      /\ rowLock[c] \in {NoSession, s}
      /\ keyShare' = [keyShare EXCEPT ![c] = @ \cup {s}]
      /\ Advance(s)
      /\ UNCHANGED <<db, rowLock>>

Check(s) ==
  /\ Stage(s) = "check"
  /\ IF Accepts(View(s), tx[s].req) /\ Advises(View(s), tx[s].req) THEN Advance(s) ELSE Refused(s)
  /\ UNCHANGED <<db, rowLock, keyShare>>

\* The entries a door makes in the unique indexes on customers, and the ones
\* it frees, in doubt for the others until the transaction ends.
Enters(st, req) ==
  CASE req.door = "create_account" ->
         {<<"email", Fold(req.a)>>}
           \cup (IF req.ref = NoReference THEN {} ELSE {<<"external_id", req.ref>>})
    [] req.door = "confirm_email_change" -> {<<"email", Fold(TokenOf(st, req).to)>>}
    [] OTHER -> {}

Frees(st, req) ==
  IF req.door = "confirm_email_change"
  THEN {<<"email", Fold(st.email[TokenOf(st, req).owner])>>} ELSE {}

\* An entry waits for the transactions that leave it in doubt.
InDoubt(s) ==
  {q \in Session \ {s} : Enters(View(s), tx[s].req) \cap tx[q].entries # {}}

\* Mutant: the door's own look is taken to be enough.
Unindexed(st, req) == TRUE

\* The unique indexes' own judgement of the entries.
Indexed(st, req) == Free(st, req)

\* A refusal out of a constraint: the statement has failed the transaction.
FailTransaction(s) ==
  tx' = [tx EXCEPT ![s].req = NoRequest, ![s].failed = TRUE]

Accepted(s) ==
  LET st  == View(s)
      req == tx[s].req
  IN  tx' = [tx EXCEPT ![s].req = NoRequest, ![s].log = Append(@, req),
                       ![s].staged = Staging(s, Effect(st, req)),
                       ![s].entries = @ \cup Enters(st, req) \cup Frees(st, req)]

\* The door's writes, after any wait for its index entries.
Write(s) ==
  /\ Stage(s) = "write"
  /\ InDoubt(s) = {}
  /\ IF Indexed(View(s), tx[s].req) THEN Accepted(s) ELSE FailTransaction(s)
  /\ UNCHANGED <<db, rowLock, keyShare>>

\* COMMIT.  Of a transaction in which a statement failed it is a rollback,
\* and the driver reports it as done.
Commit(s) ==
  /\ Running(s) /\ ~InDoor(s)
  /\ db' = IF tx[s].failed THEN db ELSE View(s)
  /\ End(s)

Step(s) == LockCustomer(s) \/ ShareCustomer(s) \/ Check(s) \/ Write(s) \/ Commit(s)

Next ==
  \E s \in Session :
    \/ \E req \in Call : Begin(s, req)
    \/ Step(s)
    \/ Rollback(s)

Spec == Init /\ [][Next]_vars

-----------------------------------------------------------------------------

Committed == INSTANCE Account WITH
  email <- db.email, reference <- db.reference, credential <- db.credential,
  accepted <- {c \in Customer : db.email[c] # NoAddress},
  changes <- db.changes, resets <- db.resets, history <- db.history

\* Whatever the callers put into one transaction, and whichever refusals they
\* catch, the committed tables keep every promise of Account: one account per
\* address, one live token of each kind, tokens that die with the address or
\* the credential they were for, and a history that is a chain.
CommittedTablesAreSound ==
  /\ Committed!OneAccountPerAddress
  /\ Committed!OneLiveTokenOfEachKind
  /\ Committed!LiveResetGoesToCurrentAddress
  /\ Committed!LiveChangeIsUnderCurrentCredential
  /\ Committed!LiveChangeMovesTheAddress
  /\ Committed!HistoryIsAChain
  /\ Committed!RedeemedChangesAreTheHistory

\* A commit does what its accepted doors would do one after another, alone, on
\* the tables as they are at that moment, each of them accepting still; a door
\* that was refused and caught leaves nothing behind.
CommitsAreSerial ==
  [][\A s \in Session : Commit(s) =>
       LET log == IF tx[s].failed THEN << >> ELSE tx[s].log
       IN  Replays(db, log) /\ db' = Replay(db, log)]_vars

\* The sessions that must end before this one's stage can run.
WaitsFor(s) ==
  CASE Stage(s) = "lock" ->
         UNION {({rowLock[c]} \cup keyShare[c]) \ {NoSession, s} : c \in Owner(View(s), tx[s].req)}
    [] Stage(s) = "share" -> {rowLock[tx[s].req.c]} \ {NoSession, s}
    [] Stage(s) = "write" -> InDoubt(s)
    [] OTHER -> {}

\* Past its first door, with locks or entries from one already.
CalledSeveral(s) == tx[s].calls > 1

\* Doors alone in their transactions never wait in a circle: every circle has a
\* transaction in it that has called a second door.
OneDoorNeverDeadlocks ==
  \A circle \in (SUBSET Session) \ {{}} :
    (\A s \in circle : WaitsFor(s) \cap circle # {}) => \E s \in circle : CalledSeveral(s)
=============================================================================
