---------------------------- MODULE AccountStore ----------------------------
(***************************************************************************)
(* The doors as transactions: several sessions, each running one door in   *)
(* one READ COMMITTED transaction, interleaved between any two statements. *)
(*                                                                         *)
(* The tables hold what is committed.  A session's own writes are staged   *)
(* in its transaction and published together by Commit; a refusal, a       *)
(* driver error, a crash and a lost connection all discard them.  What     *)
(* PostgreSQL contributes is modelled by its effect: a statement reads     *)
(* what is committed when it runs; SELECT ... FOR UPDATE and UPDATE wait   *)
(* for a row another session has locked and then see it anew; an entry     *)
(* for a unique index waits while another session's uncommitted entry may  *)
(* decide it.                                                              *)
(*                                                                         *)
(* A statement that neither reads nor waits for anything another session   *)
(* can change (the INSERT of a token row, the credential's own row) is     *)
(* part of Commit.                                                         *)
(***************************************************************************)
EXTENDS AccountTables

CONSTANTS
  Session,     \* database connections, each running one door at a time
  Door,        \* the doors this instance calls
  NoSession,   \* the row is not locked
  NoCustomer   \* the door does not know its customer yet

ASSUME NoSessionIsApart == NoSession \notin Session
ASSUME NoCustomerIsApart == NoCustomer \notin Customer
\* The two token tables have rows of their own: a lock is on a row of one of them.
ASSUME TokenTablesAreApart == ChangeId \cap ResetId = {}

VARIABLES
  email, reference, accepted, credential, changes, resets, history,
  tx,          \* what each session's transaction is doing
  rowLock,     \* which session holds the lock on a customers row
  tokenLock    \* which session holds the lock on a token row

tables == <<email, reference, accepted, credential, changes, resets, history>>
vars == <<email, reference, accepted, credential, changes, resets, history,
          tx, rowLock, tokenLock>>

\* Mutant: the token row is locked first.
TokenFirst == <<"locate", "token", "lock">>

\* How a presented token is reached: the customer it belongs to is looked up,
\* the customer row is locked, then the token row (LOCK_ORDER).
Presented == <<"locate", "lock", "token">>

(***************************************************************************)
(* The statements of each door, in the order the code issues them: what a  *)
(* write depends on is read after the locks are held.                      *)
(***************************************************************************)
Route ==
  [create_account         |-> <<"check", "insert">>,
   set_password           |-> <<"lock", "supersede">>,
   start_email_change     |-> <<"lock", "authorise", "check", "supersede">>,
   confirm_email_change   |-> Presented \o <<"check", "spend", "rewrite", "supersede">>,
   start_password_reset   |-> <<"lock", "check", "supersede">>,
   consume_password_reset |-> Presented \o <<"spend", "supersede">>]

ASSUME DoorsAreKnown == Door \subseteq DOMAIN Route

Requests == UNION {Request(door) : door \in DOMAIN Route}

(***************************************************************************)
(* A transaction: the request it runs, the statement it is about to issue, *)
(* its customer, what it has read for later use (the address on the row it *)
(* locked, the salt of the credential a change was authorised under), and  *)
(* what it has staged (its entry on customers, its spent and cancelled     *)
(* tokens).                                                                *)
(***************************************************************************)
Idle ==
  [req |-> NoRequest, next |-> 1, c |-> NoCustomer, seen |-> NoAddress, under |-> NoSalt,
   entered |-> FALSE, spent |-> {}, cancelled |-> {}]

TypeOK ==
  /\ email \in [Customer -> Address \cup {NoAddress}]
  /\ reference \in [Customer -> Reference \cup {NoReference}]
  /\ accepted \subseteq Customer
  /\ credential \in [Customer -> Credential]
  /\ changes \in [ChangeId -> ChangeRow \cup {NoRow}]
  /\ resets \in [ResetId -> ResetRow \cup {NoRow}]
  /\ history \in [Customer -> Seq(HistoryRow)]
  /\ tx \in [Session ->
       [req : Requests \cup {NoRequest}, next : 1..8, c : Customer \cup {NoCustomer},
        seen : Address \cup {NoAddress}, under : Salt \cup {NoSalt}, entered : BOOLEAN,
        spent : SUBSET (ChangeId \cup ResetId), cancelled : SUBSET (ChangeId \cup ResetId)]]
  /\ rowLock \in [Customer -> Session \cup {NoSession}]
  /\ tokenLock \in [ChangeId \cup ResetId -> Session \cup {NoSession}]

Exists(c) == email[c] # NoAddress

Running(s) == tx[s].req # NoRequest
Runs(s, door) == tx[s].req.door = door

\* The statement the session is about to issue, "commit" after the last one.
Statement(s) ==
  IF ~Running(s) THEN "none"
  ELSE IF tx[s].next > Len(Route[tx[s].req.door]) THEN "commit"
  ELSE Route[tx[s].req.door][tx[s].next]

\* The token the session was presented with or is about to issue.
PresentsChange(s) == Runs(s, "confirm_email_change")
Token(s) == IF PresentsChange(s) THEN tx[s].req.k ELSE tx[s].req.r
TokenRow(s) == IF PresentsChange(s) THEN changes[tx[s].req.k] ELSE resets[tx[s].req.r]

Init ==
  /\ email = [c \in Customer |-> NoAddress]
  /\ reference = [c \in Customer |-> NoReference]
  /\ accepted = {}
  /\ credential = [c \in Customer |-> NoCredential]
  /\ changes = [k \in ChangeId |-> NoRow]
  /\ resets = [r \in ResetId |-> NoRow]
  /\ history = [c \in Customer |-> << >>]
  /\ tx = [s \in Session |-> Idle]
  /\ rowLock = [c \in Customer |-> NoSession]
  /\ tokenLock = [t \in ChangeId \cup ResetId |-> NoSession]

-----------------------------------------------------------------------------
(* The transaction around a door.                                          *)

\* The sessions whose door will write a credential, and the salts they drew.
DrawnSalts == {tx[s].req.salt : s \in {q \in Session :
                 Runs(q, "set_password") \/ Runs(q, "consume_password_reset")}}

\* A key or a salt the server draws at random is nobody else's.
Fresh(req) ==
  CASE req.door = "create_account" ->
         /\ ~Exists(req.c)
         /\ \A s \in Session : Runs(s, "create_account") => tx[s].req.c # req.c
    [] req.door = "start_email_change" ->
         /\ changes[req.k] = NoRow
         /\ \A s \in Session : Runs(s, "start_email_change") => tx[s].req.k # req.k
    [] req.door = "start_password_reset" ->
         /\ resets[req.r] = NoRow
         /\ \A s \in Session : Runs(s, "start_password_reset") => tx[s].req.r # req.r
    [] req.door \in {"set_password", "consume_password_reset"} ->
         /\ \A c \in Customer : credential[c].salt # req.salt
         /\ \A k \in ChangeId : changes[k] # NoRow => changes[k].under # req.salt
         /\ req.salt \notin DrawnSalts
    [] OTHER -> TRUE

\* A session opens its transaction; a door that names its customer knows it.
Begin(s, req) ==
  /\ ~Running(s)
  /\ Fresh(req)
  /\ tx' = [tx EXCEPT ![s] =
              [Idle EXCEPT !.req = req,
                           !.c = IF "c" \in DOMAIN req THEN req.c ELSE NoCustomer]]
  /\ UNCHANGED <<tables, rowLock, tokenLock>>

\* The end of a transaction: its staged writes are dropped, its locks released.
End(s) ==
  /\ tx' = [tx EXCEPT ![s] = Idle]
  /\ rowLock' = [c \in Customer |-> IF rowLock[c] = s THEN NoSession ELSE rowLock[c]]
  /\ tokenLock' = [t \in DOMAIN tokenLock |->
                     IF tokenLock[t] = s THEN NoSession ELSE tokenLock[t]]

\* A refusal rolls back: whatever the door had staged, nothing is written.
Refuse(s) == End(s) /\ UNCHANGED tables

\* A driver error, a crash, a lost connection: possible at any statement.
Abort(s) == Running(s) /\ Refuse(s)

\* On to the next statement, with what this one read or staged.
Advance(s, staged) ==
  tx' = [tx EXCEPT ![s] = [staged EXCEPT !.next = @ + 1]]

-----------------------------------------------------------------------------
(* The statements.                                                         *)

\* Which customer a presented token belongs to, read without a lock.
LocateToken(s) ==
  /\ Statement(s) = "locate"
  /\ \/ TokenRow(s) = NoRow /\ Refuse(s)
     \/ /\ TokenRow(s) # NoRow
        /\ Advance(s, [tx[s] EXCEPT !.c = TokenRow(s).owner])
        /\ UNCHANGED <<tables, rowLock, tokenLock>>

\* Mutant: the customer row is read without FOR UPDATE.
ReadCustomer(s) ==
  /\ Statement(s) = "lock"
  /\ \/ ~Exists(tx[s].c) /\ Refuse(s)
     \/ /\ Exists(tx[s].c)
        /\ Advance(s, [tx[s] EXCEPT !.seen = email[tx[s].c]])
        /\ UNCHANGED <<tables, rowLock, tokenLock>>

\* The customer row, locked and read: load_customer(..., lock=True).
LockCustomer(s) ==
  /\ Statement(s) = "lock"
  /\ \/ ~Exists(tx[s].c) /\ Refuse(s)
     \/ /\ Exists(tx[s].c)
        /\ rowLock[tx[s].c] \in {NoSession, s}
        /\ rowLock' = [rowLock EXCEPT ![tx[s].c] = s]
        /\ Advance(s, [tx[s] EXCEPT !.seen = email[tx[s].c]])
        /\ UNCHANGED <<tables, tokenLock>>

\* The token row, locked, re-read and judged.
LockToken(s) ==
  /\ Statement(s) = "token"
  /\ tokenLock[Token(s)] \in {NoSession, s}
  /\ \/ ~Presentable(TokenRow(s), tx[s].req.at) /\ Refuse(s)
     \/ /\ Presentable(TokenRow(s), tx[s].req.at)
        /\ tokenLock' = [tokenLock EXCEPT ![Token(s)] = s]
        /\ Advance(s, tx[s])
        /\ UNCHANGED <<tables, rowLock>>

\* The password that authorises a change, verified against the stored row.
Authorise(s) ==
  LET stored == credential[tx[s].c]
      proof  == tx[s].req.proof
  IN  /\ Statement(s) = "authorise"
      /\ \/ proof # ByCaller /\ ~Verified(stored, proof) /\ Refuse(s)
         \/ /\ proof # ByCaller => Verified(stored, proof)
            /\ Advance(s, [tx[s] EXCEPT !.under = stored.salt])
            /\ UNCHANGED <<tables, rowLock, tokenLock>>

ReferenceTaken(ref) == ref # NoReference /\ \E d \in Customer : reference[d] = ref

(***************************************************************************)
(* The reads a door makes before it writes.  The other customers' rows are *)
(* read without a lock: an answer about them may be stale by the commit.   *)
(***************************************************************************)
Objection(s) ==
  CASE Runs(s, "create_account") ->
         Holders(email, tx[s].req.a) # {} \/ ReferenceTaken(tx[s].req.ref)
    [] Runs(s, "start_email_change") ->
         \/ Holders(email, tx[s].req.a) # {}
         \/ ~Readable(Expiry(tx[s].req.at, tx[s].req.window))
    [] Runs(s, "confirm_email_change") ->
         \/ BeforeLatestChange(history[tx[s].c], tx[s].req.at)
         \/ ~(Holders(email, TokenRow(s).to) \subseteq {tx[s].c})
    [] Runs(s, "start_password_reset") ->
         \/ ~HasCredential(credential[tx[s].c])
         \/ ~Readable(Expiry(tx[s].req.at, tx[s].req.window))

Check(s) ==
  /\ Statement(s) = "check"
  /\ \/ Objection(s) /\ Refuse(s)
     \/ ~Objection(s) /\ Advance(s, tx[s]) /\ UNCHANGED <<tables, rowLock, tokenLock>>

(***************************************************************************)
(* An entry on customers waits for a session whose uncommitted entry       *)
(* carries the same address or reference, or is about to free it; then it  *)
(* meets the unique index.                                                 *)
(***************************************************************************)
EntryAddress(s) == IF Runs(s, "create_account") THEN tx[s].req.a ELSE TokenRow(s).to

Contends(s, q) ==
  /\ q # s
  /\ tx[q].entered
  /\ \/ SameAddress(EntryAddress(q), EntryAddress(s))
     \/ Exists(tx[q].c) /\ SameAddress(email[tx[q].c], EntryAddress(s))
     \/ /\ Runs(s, "create_account") /\ Runs(q, "create_account")
        /\ tx[s].req.ref # NoReference /\ tx[q].req.ref = tx[s].req.ref

\* Mutant: the door's own check is taken to be enough.
NoUniqueIndex(s) == FALSE

UniqueViolation(s) ==
  \/ ~(Holders(email, EntryAddress(s)) \subseteq {tx[s].c})
  \/ Runs(s, "create_account") /\ ReferenceTaken(tx[s].req.ref)

\* INSERT INTO customers, or UPDATE customers SET email with its history row.
EnterCustomer(s) ==
  /\ Statement(s) \in {"insert", "rewrite"}
  /\ \A q \in Session : ~Contends(s, q)
  /\ \/ UniqueViolation(s) /\ Refuse(s)
     \/ /\ ~UniqueViolation(s)
        /\ Advance(s, [tx[s] EXCEPT !.entered = TRUE])
        /\ UNCHANGED <<tables, rowLock, tokenLock>>

\* UPDATE ... SET state = 'redeemed' WHERE state = 'issued', asserting one row.
SpendToken(s) ==
  /\ Statement(s) = "spend"
  /\ tokenLock[Token(s)] \in {NoSession, s}
  /\ \/ TokenRow(s).state # "issued" /\ Refuse(s)
     \/ /\ TokenRow(s).state = "issued"
        /\ tokenLock' = [tokenLock EXCEPT ![Token(s)] = s]
        /\ Advance(s, [tx[s] EXCEPT !.spent = {Token(s)}])
        /\ UNCHANGED <<tables, rowLock>>

\* The tokens a door cancels: its own kind's older ones, or the other kind's.
CancelsResets(s) == Runs(s, "confirm_email_change") \/ Runs(s, "start_password_reset")
ToCancel(s) == Outstanding(IF CancelsResets(s) THEN resets ELSE changes, tx[s].c)

\* UPDATE ... SET state = 'cancelled' WHERE customer_id = ... AND state = 'issued'.
SupersedeTokens(s) ==
  /\ Statement(s) = "supersede"
  /\ \A t \in ToCancel(s) : tokenLock[t] \in {NoSession, s}
  /\ tokenLock' = [t \in DOMAIN tokenLock |-> IF t \in ToCancel(s) THEN s ELSE tokenLock[t]]
  /\ Advance(s, [tx[s] EXCEPT !.cancelled = ToCancel(s)])
  /\ UNCHANGED <<tables, rowLock>>

-----------------------------------------------------------------------------
(* Commit publishes what the door staged.                                  *)

CommitCreate(s) ==
  LET req == tx[s].req
  IN  /\ Runs(s, "create_account")
      /\ email' = [email EXCEPT ![req.c] = req.a]
      /\ reference' = [reference EXCEPT ![req.c] = req.ref]
      /\ accepted' = accepted \cup {req.c}
      /\ UNCHANGED <<credential, changes, resets, history>>

CommitPassword(s) ==
  LET req == tx[s].req
  IN  /\ Runs(s, "set_password")
      /\ changes' = Cancelled(changes, tx[s].cancelled, PasswordSet)
      /\ credential' = [credential EXCEPT ![req.c] = HashPassword(req.p, req.salt)]
      /\ UNCHANGED <<email, reference, accepted, resets, history>>

CommitStartChange(s) ==
  LET req == tx[s].req
      authorisation == IF req.proof = ByCaller THEN ByCaller ELSE ByPassword
  IN  /\ Runs(s, "start_email_change")
      /\ changes' = [Cancelled(changes, tx[s].cancelled, Superseded) EXCEPT ![req.k] =
                       NewChange(req.c, req.a, authorisation, req.at, req.window,
                                 [salt |-> tx[s].under])]
      /\ UNCHANGED <<email, reference, accepted, credential, resets, history>>

CommitConfirm(s) ==
  LET req == tx[s].req
      row == changes[req.k]
      c   == tx[s].c
  IN  /\ Runs(s, "confirm_email_change")
      /\ changes' = Spend(changes, req.k, req.at)
      /\ email' = [email EXCEPT ![c] = row.to]
      /\ history' = [history EXCEPT ![c] =
                       Append(@, NewHistory(tx[s].seen, row, req.at, req.k))]
      /\ resets' = Cancelled(resets, tx[s].cancelled, EmailChanged)
      /\ UNCHANGED <<reference, accepted, credential>>

CommitStartReset(s) ==
  LET req == tx[s].req
  IN  /\ Runs(s, "start_password_reset")
      /\ resets' = [Cancelled(resets, tx[s].cancelled, Superseded) EXCEPT ![req.r] =
                      NewReset(req.c, tx[s].seen, req.at, req.window)]
      /\ UNCHANGED <<email, reference, accepted, credential, changes, history>>

CommitReset(s) ==
  LET req == tx[s].req
  IN  /\ Runs(s, "consume_password_reset")
      /\ resets' = Spend(resets, req.r, req.at)
      /\ changes' = Cancelled(changes, tx[s].cancelled, PasswordSet)
      /\ credential' = [credential EXCEPT ![tx[s].c] = HashPassword(req.p, req.salt)]
      /\ UNCHANGED <<email, reference, accepted, history>>

Commit(s) ==
  /\ Statement(s) = "commit"
  /\ \/ CommitCreate(s)
     \/ CommitPassword(s)
     \/ CommitStartChange(s)
     \/ CommitConfirm(s)
     \/ CommitStartReset(s)
     \/ CommitReset(s)
  /\ End(s)

Step(s) ==
  \/ LocateToken(s)
  \/ LockCustomer(s)
  \/ LockToken(s)
  \/ Authorise(s)
  \/ Check(s)
  \/ EnterCustomer(s)
  \/ SpendToken(s)
  \/ SupersedeTokens(s)
  \/ Commit(s)

Next ==
  \E s \in Session :
    \/ \E door \in Door : \E req \in Request(door) : Begin(s, req)
    \/ Step(s)
    \/ Abort(s)

Spec == Init /\ [][Next]_vars

(***************************************************************************)
(* The command line runs a door to its end, and a session that keeps       *)
(* waiting is served: PostgreSQL queues the waiters of a lock.             *)
(***************************************************************************)
FairSpec == Spec /\ \A s \in Session : SF_vars(Step(s))

-----------------------------------------------------------------------------
(* What the locks are for.                                                 *)

Serial == INSTANCE Account WITH
  email <- email, reference <- reference, accepted <- accepted,
  credential <- credential, changes <- changes, resets <- resets, history <- history

\* However the doors interleave and fail, the committed tables behave as if
\* every door had run alone: each commit is one door of Account with all its
\* checks true at that moment, and nothing else changes a table.
ImplementsAccount == Serial!Spec

\* Has the session issued this statement already?
Past(s, statement) ==
  \E i \in 1..(tx[s].next - 1) : Route[tx[s].req.door][i] = statement

\* What a door read or staged under its locks is still so when it commits: the
\* address on the row, the credential that authorised a change, the judgement
\* on the token and the set of tokens to cancel.
WhatWasReadStillHolds ==
  \A s \in Session : Running(s) =>
    /\ Past(s, "lock") => Exists(tx[s].c) /\ tx[s].seen = email[tx[s].c]
    /\ Past(s, "authorise") => tx[s].under = credential[tx[s].c].salt
    /\ Past(s, "token") => Presentable(TokenRow(s), tx[s].req.at)
    /\ Past(s, "supersede") => tx[s].cancelled = ToCancel(s)

\* No two writers reach the token rows of one customer at once: whoever holds
\* a token row holds the row of the customer it belongs to (LOCK_ORDER).
TokenLocksUnderTheirCustomer ==
  /\ \A k \in ChangeId : tokenLock[k] # NoSession => rowLock[changes[k].owner] = tokenLock[k]
  /\ \A r \in ResetId : tokenLock[r] # NoSession => rowLock[resets[r].owner] = tokenLock[r]

\* A door that was called ends, with a commit, a refusal or an error: waiting
\* for another door's locks is never for ever.
EveryDoorEnds == \A s \in Session : Running(s) ~> ~Running(s)
=============================================================================
