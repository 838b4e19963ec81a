# customer-account: the verification project

This directory holds a TLA+ model of `customer-account`: a Python module and
command line that keep the accounts of an operator's customers in PostgreSQL
(addresses, passwords, itemised consent, and the two kinds of one-time token
with which an address is changed and a password reset). The modules are
translated from the sources, TLC checks them on small instances, and TLAPS
proves most of what TLC checks, the refinement of the serial store by the
interleaved one included, for every instance.

File names below are relative to the repository: `records.py` is
`src/customer_account/store/records.py`, `0001` is the first migration.

## 1. The system

| Component | State | Operations |
|---|---|---|
| Writing doors, `records.py` | `customers`, `customer_credentials`, `pending_email_changes`, `credential_resets`, `customer_email_changes` | `create_account`, `set_password`, `start_email_change`, `confirm_email_change`, `start_password_reset`, `consume_password_reset` |
| Tokens, `tokens.py` | state, issue, expiry and redemption of a token row | `mint`, `expiry`, `is_expired`; in `records.py` `_locate_token`, `_locked_token`, `_spend`, `_supersede` |
| Reads, `records.py` | none | `show_account`, `show_acceptances`, `find_customer_by_email`, `verify_password` |
| Embedding callers of `records.py` | one transaction each | any doors in it, refusals caught, commit or rollback |
| Consent, `consent.py` | `terms_acceptances`, `acceptance_channels`, append-only | `build_acceptance`, `record_acceptance` |
| Tenant context, `postgres.py` and `0001` | a setting local to a transaction, the row-level policies, the composite keys | `set_tenant`, `tenant`, `current_tenant_id` |
| Command line, `cli.py` | one process, one connection, one transaction | `main`, `_run`: connect, one door, commit, answer, or one of two handlers |
| Passwords, `passwords.py` | a scrypt hash with its parameters | `hash_password`, `verify` |
| Identity, `identity.py`; findings, `findings.py` | none | predicates on text, addresses and instants; the names of the refusals |
| Controls, `tests/plant.py`, `scripts/fail_controls.py` | the working tree with one planted fault | plant, run, restore |
| Contract generator, `scripts/generate_contract.py` | a document with marked blocks | render, `--check`, rewrite |
| Measurements, role installer, CI | files | not of the program itself |

How they interact. A command opens one connection and one transaction,
sets the tenant, calls one door with a cursor, commits and prints; every
refusal and every driver error rolls back. The doors meet each other only in
the tables, at READ COMMITTED. What orders them is `LOCK_ORDER`
(`records.py:113-118`): every writing door takes the `customers` row
`FOR UPDATE` before any token row, and a door that is presented a token first
reads, without a lock, whose token it is. What a lock cannot order, because no
row exists yet or it is another customer's, is left to a unique index
(`customers_one_address_per_tenant`). No door commits: the command line runs one
in a transaction, and a program that embeds the store may run several. Callers state the instant a thing
happens at; the database's clock only stamps `created_at`.

What is hard about it: doors of one customer interleaved at every statement;
rows read before a lock and used after it; instants stated by callers, so that
commits need not be in their order; a failure after any statement; a process
killed, or a line lost, between a commit and its acknowledgement; reads that
take several statements with no snapshot; connections that are reused; and
foreign keys, which the database checks past the row-level policies.
`PROJECT.json` lists each of these at the line where it bites, with the
properties that would fail.

What makes each component correct:

- *doors and tokens*: one account per mailbox; at most one live token of each
  kind; a live reset was handed out for the current address, and a live change
  was authorised under the current credential and still moves the address; a
  token is closed once and redeemed only inside its window; the history is a
  chain that ends in the address in effect;
- *locking*: concurrent doors behave as if each had run alone, nobody
  deadlocks, and everybody is served;
- *reads*: an answer put together by several statements does not contradict
  itself;
- *command line*: the exit status tells the truth about the store;
- *tenancy*: no read, write or reference crosses operators;
- *consent*: what is on record for an acceptance is what was shown;
- *embedding callers*: whatever is put into one transaction, a commit is the
  accepted doors one after another, and refused ones leave nothing;
- *the rules of values*: what the module accepts the schema stores, what an
  operator types arrives as typed, and an instant that is written can be read;
- *catalogue and contract*: a green answer means what it is taken to mean.

## 2. The modules

```
AccountTables          rows, judgements and table operations (no state)
 ├─ Account            the doors, each in one step: the abstract store
 │   ├─ AccountProofs  theorems about Account
 │   └─ AccountReads   show_account over Account, statement by statement
 │       └─ ReadsProofs        theorems about AccountReads, over AccountProofs
 ├─ AccountStore       the doors statement by statement, with row locks;
 │   │                 implements Account (Serial == INSTANCE Account WITH ...)
 │   └─ AccountStoreProofs     theorems about AccountStore, the refinement
 └─ Transaction        several doors in one transaction, refusals caught;
     │                 its committed tables keep Account's promises
     └─ TransactionProofs      theorems about its locks, its commits and its tables
Command                one run of the command line, its line and its backend
 └─ CommandProofs      theorems about Command, and about Rules
Tenancy                tenants on reused connections, over raw statements
 └─ TenancyProofs      theorems about Tenancy
Consent                options, the doors that write an acceptance, the read
 └─ ConsentProofs      theorems about Consent
Controls               plant a fault, run the tests it should break, restore
 └─ ControlsProofs     theorems about Controls
Rules                  the parts without state, one input at a time
 ├─ Instants           expiry at the ends of time
 ├─ Boundary           a value from the operator to its column
 ├─ Catalogue          what the catalogue is asked, and what the server does
 └─ Contract           the generated document
```

Each `MC…` module extends one of them with small values and symmetry.
In a module, an operator commented as *mutant* is a wrong form of the definition that
follows it; no specification uses it, and `PROJECT.json` says which property
rejects it.

### AccountTables and Account

Tables are functions from keys to rows or `NoRow`. A row keeps the columns the
properties tell apart: owner, state, issue, expiry, redemption, cancel reason,
and the target address and authorisation of a change. Token digests are not
kept: a key *is* its token, which takes for granted that a 256-bit token does
not collide. Three *history variables* are not columns: `under` on a change (the
salt of the credential in force when it was authorised), `deliveredTo` on a
reset (the address returned as `deliver_to`, which the code does not store) and
`change` on a history row (the pending row it came from).

`Fold` is the database's `lower()`; addresses are compared by it and stored as
given. `Judgement` is `_locked_token`'s order of refusals. `Supersede`, `Spend`
and the `New…` operators are the SQL statements of that name or form.
`Readable` is the read-back guard on an expiry (`tokens.py:108-140`) with its
bounds as constants; `Instants` has the arithmetic behind them.

Each door of `Account` is one action: its guard is the conjunction of the
refusals, its effect every row the door writes. A refused call is a stuttering
step, since a refusal rolls back. One refusal is missing on purpose:
`start_email_change` looks, without a lock, whether another customer carries
the new address. The answer may be stale when the door commits, so nothing may
rely on it, and the abstract store does not promise it; `AccountStore` makes the
look where the code does.

### AccountStore

`Route` gives each door its statements, in the order the code issues them:
*locate* (the unlocked read), *lock* (`load_customer` with `FOR UPDATE`),
*token* (the token row `FOR UPDATE`, then the judgement), *authorise* (the
credential), *check* (the reads that refuse), *insert*/*rewrite* (the entry in
the unique address index), *spend*, *supersede*, and *commit*.
A transaction stages its writes in `tx[s]`, and they reach the tables when it
commits. That nobody else reads a staged row is READ COMMITTED; that nobody else
writes one is the row lock or the index entry, both modelled: `rowLock`,
`tokenLock`, and `Contends`, the wait for an uncommitted index entry.
`Abort` ends a transaction at any statement: a driver error, a crash, a killed
process.

### Transaction

A door commits nothing (`records.py` takes a cursor), so what is in a transaction
is its caller's choice. Here a door is three or fewer stages: *lock* the customers
row, *check* under the lock, *write*; `record_acceptance` reads without a lock
and then *shares* the row, since its `INSERT` checks a foreign key. That the
statements of one door may be taken together is what `AccountStore` shows: the
token rows of a customer are reached under that customer's row alone.

`tx[s]` keeps the calls that were accepted (`log`), the rows staged, the entries
made or freed in the unique indexes and whether a statement failed. `View` is what the
session's statements read: its own rows over the committed ones. `Refused` is a
refusal the caller catches: the transaction goes on, with its rows and its locks.
A refusal that came out of a constraint is different (`FailTransaction`): PostgreSQL takes no
statement after it, and `Commit` then writes nothing, without an error.
`Effect`, `Accepts` and `Replay` say what a door does when it runs alone. Two
statements tie them to the rest: `CommitsAreSerial` to the interleaved
transactions, and `CommittedTablesAreSound` to the invariants of `Account`.

### AccountReads

`show_account` reads the customer, the credential, the pending changes and the history with
four statements while `Account` moves on between them. A confirmation carries the
instant at which its transaction opened, since that is what `created_at` is, and
`EMAIL_CHANGE_ORDER` reads ties on `changed_at` by it.

### Command

One run: the process (`at`, `exit`, `printed`), its line, and the backend
(`server`) on the other side. Runs are one command on one customer and its
reruns. The customer row's lock and the token are what they share. A line may be
lost and a process killed anywhere; a commit that was received is carried out or
not, whoever is still there to hear of it.

### Tenancy

Raw statements, since the database alone has to keep operators apart.
The raw `UPDATE` also tries to move its rows to another tenant, which the policy's
`WITH CHECK` refuses.
`setting` is the value `current_setting` returns: never set, empty once a
transaction that set it is over, or a tenant. `customers` and
`terms_acceptances` stand for all the tables: the other policies and composite keys have
the same form. Some connections are in autocommit, where a tenant lasts
for its own statement and no longer. `under`, `asked` and `answer` are history
variables.

### Consent

`Repeated`, `Collapsed` and `Buildable` are the way of the `--channel` options
through the door's check, the dict and `build_acceptance`; the rows follow
statement by statement, up to the one commit. `given` is a history variable: the options
an acceptance was made from. `show_acceptances` reads while the
doors run.

### Controls

One process of `fail_controls.py` at a time, one control after another; a file is the
set of faults in it, or `Cut`, what is wrong with one that a write has emptied and not
filled. `effect` says what each fault does to tests that load it,
and is chosen anew in every initial state, so that every mixture of good, crashing and
unnoticed controls is checked. `_write` takes two steps (the text, then the stamp
and the bytecode), since a process may be interrupted or killed between them.
An exception from the plant on (`Interrupt`), or in the planting write
(`PlantRaises`), unwinds through the `finally` of `planted`. Nothing protects the
`finally` itself: a restoring write that an interrupt or the disk ends
(`RestoreRaises`) ends the process, with the fault in the file or with no text; one that
fails and does not say so (`RestoreIsLost`) is for the verification of
`plant.py:90` to notice (`NotRestored`). `Kill` stops the process anywhere. `left` is a
history variable: what each file held when a process stopped over its plant. So
`OnlyACutOffRunLeavesAFault` is what the `finally` is worth: it does not say that a
fault never stays, but that none stays behind a process that ended by itself, by an
exception before its restore, or goes on to its next control.
*Fired* is pytest's *failed*: crashes of the runner, of a fixture or of the collection are
told apart from it, an exception in the body of a test is not.
Bytecode is valid for a stamp in whole seconds and a size, as CPython and pytest
judge it. `KeepingGrows` is arithmetic: a replacement that contains its anchor
is longer than it. That every fault spoils only its own anchor holds for the
table, two controls excepted; that none which preserves the size of its file
plants in one pytest rewrites (`RewrittenChangeSize`) holds for all of it, and
`plant.py` says so of its own controls. Section 5 has what happens otherwise.

### Rules: Instants, Boundary, Catalogue and Contract

Four modules have no state of their own; `Rules` puts every input of a bounded
set to them, one in each behaviour.

`Instants` counts hours from the year 1. A datetime is a wall clock, which ends,
and an offset; `ExpiryAccepted` is `expiry` with its two possible overflows, and
`ReadsBack` the driver in a session's zone. `WindowsReadBack` asks that nothing
but the bounds refuses and that what is accepted reads back everywhere. The
bounds are those of the code to the hour: a margin of 168, zones up to 167.

`Boundary` follows a value from where it is read to its column. A text is a
sequence of the ten classes of characters the rules tell apart; for instance white space
that Python strips and `btrim` does not. `Rule` is the module's, `SchemaAdmits`
the migration's, and `AnswerTo` how a run ends. `JoinDashed` is
`_values_that_start_with_a_dash`; `Value` and `Parsed` are argparse behind it.

`Catalogue` sets the questions of `postgres.py:60-163` beside what the server
does with a table so declared: when policies apply, and which rows a set of foreign
keys lets in.

`Contract` is `render` on a sequence of markers and pieces of text; what a
builder says of its registry is one value.

## 3. The runs

| Run | Instance | What it shows |
|---|---|---|
| `account` | 2 customers, two spellings of one mailbox and another mailbox, 2 changes, 2 resets, 3 salts, 2 instants, 2 windows | which tokens live, what closes them, what the history says, who may carry an address and what moves it |
| `store_tokens` | 2 sessions, all doors, 2 customers, 1 reference, 2 changes, 1 reset, 2 salts | every interleaving of statements and failures refines `Account`, the unlocked looks and the unique index included |
| `store_locks` | 3 sessions, all doors, 1 customer, 1 change, 1 reset, 2 salts, fair | the lock order, and no door waits for ever, so no deadlock among three either |
| `transaction` | 2 sessions, up to 2 doors each out of 13 calls, 2 customers with live tokens and a third to be | commits are serial, refusals leave nothing, one door in a transaction never deadlocks |
| `reads_show` | 1 customer, 3 addresses, 2 confirmations, 2 instants | a read torn by commits still hangs together |
| `command` | 3 runs, fair | exit status, printed answer and store agree; no run hangs |
| `command_traceback` | 1 run | *expected violation*, section 5 |
| `tenancy` | 2 tenants, 2 customers, 2 connections | isolation on reused connections |
| `consent` | 2 sessions, 2 accounts, 2 acceptances, up to 2 options over 3 names and 3 texts | consent on record, and shown, is the consent given |
| `controls` | 3 controls of every effect over 2 files, 2 seconds, 2 controls a process | a fired control proves something, and a process that is not cut off over its plant puts the tree back |
| `rules` | about 34 000 inputs: windows at both ends of time, texts of up to 4 characters by 5 ways in, lines of up to 3 options, every declaration of a table, documents of up to 4 pieces and well-formed ones | section 2, `Rules` |
| `rules_undecodable` | texts of up to 3 characters | *expected violation*, section 5 |

Why the bounds are enough. The rules of the tokens relate at most two rows of
one customer: a live one and the one that replaces it, or a change and a reset;
two of each give every such pair, and also a redeemed change followed by another. Three
credential writes allow a change authorised under a credential that was replaced
by an equal password. Two instants give a token
presented before its issue, inside its window (of one) and at its expiry, and histories with a
tie; a window of three always ends after the last readable instant and is refused. References play no part in the properties of `account`, so it has none;
`store_tokens` has one, for two customers to compete for. An address needs two customers and two spellings to clash, and a third
address to move away from a mailbox that another may then take. Locks: a circle of two needs
two sessions, and circles of mixed kind, a row and an index entry, are possible
in `store_tokens` and `transaction`; `store_locks` has three sessions, for one to be
passed over while the other two take turns. In `transaction` two doors are
what makes a transaction mixed, the calls include each door that can disturb another
(two creations, two changes and a confirmation that want one address, a reset
against a confirmation, an acceptance before a password), and three instants
give windows that end, confirmations out of order and an unreadable expiry; races on
instants are there rather than in `store_tokens`, which has one. In `Command` three runs give two reruns after a
lost acknowledgement. In `Tenancy`, what leaks leaks from one tenant to
another over one connection, and a second connection gives uncommitted rows of
others. In `Controls` two seconds are what it takes for the stamp of a restore,
which lies ahead, to meet the stamp of the next process's plant. The theorems of section 6 remove the bounds for all but one of the safety
properties the passing runs check.

What bounds the state. Ids and salts are never used twice, so finite `ChangeId`,
`ResetId`, `Salt`, `AcceptanceId` and `Confirmer` bound the number of token issues,
credential writes, acceptances and confirmations; `MaxPairs` bounds the options
of one command line, `MaxCalls` the doors of a transaction, `MaxClock` the seconds and `MaxWrites` the writes of one
process of the controls. There is no state constraint. `CHECK_DEADLOCK FALSE` is stated where an
instance that has used up its ids or has ended its runs has nothing left to
do; deadlock between doors is refuted by `EveryDoorEnds` and `OneDoorNeverDeadlocks`, and that a run gets
to its end is `EveryRunEnds`. Symmetry is used for safety only, over sets of
values that are interchangeable; the two runs with liveness use none.

## 4. Fairness

`AccountStore!FairSpec` is strong fairness of each session's next statement.
The command line runs a door to its end without waiting for anything but the
database, and PostgreSQL queues the waiters of a row lock: a waiter for whom the
row is free again and again is served. Weak fairness would not do, since
the row may be taken by others in between. Nothing is assumed about
`Begin` or `Abort`.

`Command!FairSpec` is weak fairness of a process that can go on (including
the error it gets on a line that is lost) and of the server. The latter includes that the server
ends the transaction of a client that is gone: PostgreSQL notices the closed
connection when it next reads from it, and TCP keepalive sees to a silent
one. No refusal, error, loss or kill is owed to anybody.

## 5. Two disagreements, and two remarks

*A traceback* (`command_traceback`). Both handlers of `_run` begin with
`connection.rollback()` (`cli.py:479`, `cli.py:486`). When the connection is
what failed, that call raises in its turn and nothing catches it: a traceback
and status 1, which is also the status of a password that did not verify. The comment
at `cli.py:482-484` says "never a traceback". Care is needed in a repair:
to ignore the failed rollback and exit 2 would make status 2 mean
"perhaps written" after a lost commit, which `StoppedMeansNothingWritten` rejects
(that is its mutant, `RollbackIgnored`).

*A byte that does not decode* (`rules_undecodable`). Python decodes arguments and
the environment leniently: a byte that is not UTF-8 becomes a lone surrogate,
which passes `require_text`, `require_email` and the rest, and raises
`UnicodeEncodeError` where it is encoded, in `require_password` or in the
driver. Neither `main` nor `_run` names that, so the run ends in a traceback and
status 1. `_token` (`cli.py:267-273`) describes this very class and closes it for standard
input; `AcceptedMeansStored` shows that it is closed there and for files.

Two remarks that no run states, since the sources do not settle them.

*The row read last, where instants tie.* `records.py:733` refuses a confirmation only if
its instant is *strictly* before the latest change, and reads order ties by
`created_at`, when the transaction opened. Two confirmations at one
stated instant can take effect in the other order, and the row read last is then not the
address in effect. `tests/_guarantees.py:87-88` says that it always is; the
same sentence calls the order of two rows that share an instant arbitrary.
`LatestRowIsTheAddress` is the claim where one row is later than the others, and
holds. The address itself is right in either case: the order of commits decides it.

*Bytecode pytest keeps.* `tests/plant.py:134-136` says that deleting the cache entry
closes the class of stale bytecode. It deletes the entry the import system uses;
pytest keeps that of test modules under a name of its own. With a
control in a rewritten test module that preserves the size of its file,
`RedRunLoadsThePlant` fails: a restore stamps the file ahead of the clock, the next
process loads it, and a plant within that second carries the same stamp. To see
it, add `"luhn"` to `SizePreserving` in `Controls.cfg` and take the assumption
`RewrittenChangeSize` out of `Controls`: the assumption is there for this, since
the proof needs it too. The instrument then says NOT A CONTROL, which is the safe
side, and no control of the table preserves the size today.

## 6. What is proved

TLAPS checks every leaf. The only assumptions are the named `ASSUME`s on
constants, which TLC evaluates on the instances: nulls are apart from values,
instants are integers and windows positive, bounds are natural numbers, runs and
confirmers are finite, calls are well-formed requests, inputs are of their kind
(on a command line the name of an option is an option, never the value of another).
Some say more. `TokenTablesAreApart`: a key of one token table is
none of the other's (the ids are UUIDs; a session's staged tokens are kept in one
set). `SettingsAreNoTenant`: no tenant is the empty setting. `MarginCovers`: the
read-back margin is wider than any zone and offset. `RewrittenChangeSize` and
`KeepingGrows`, on the table of controls, are in section 2.

Each proof has an inductive invariant `IInv`, conjoined from named parts, which
TLC checked before it was proved, one lemma for each action, and the properties
as consequences.

`AccountProofs`: `Spec => []IInv`, for every set of customers, addresses,
tokens, instants, windows and salts, and every fold. From it each safety
invariant of the `account` run, and with it the two action properties
`TokensCloseOnce` and `AddressMovesOnlyByItsToken`. `IInv` is the conjunction of the invariants and one
strengthening, `RowsBelongToAccounts`: every token belongs to an account that
exists. Without it a state with a live token of a customer not yet created
would satisfy the rest, and `CreateAccount` would break three of them at once. The invariants
also lean on one another: that the spent change extends the chain needs the
correspondence of history and redeemed changes, and that a reset dies with its
address needs that a confirmed change moves it. Lemmas about `Supersede` and `Spend`
say once what they do to a table; then there is one lemma for each door.
`TokensNeedTheirCredential` is proved here (`TokensHaveTheirCredential`) and has no run of
its own.

`AccountStoreProofs`: the refinement. `StoreImplementsAccount` says of any number
of sessions that the committed tables behave as if every door had run alone;
`CommittedTablesKeepThePromises` and `CommitsCloseTokensOnce` carry the theorems of
`AccountProofs` over to the committed tables. `IInv` says how long what a
session found stays true: what it read under the row lock (`ReadsHold`,
`ChecksHold`), the keys it drew (`DrawsAreFresh`), the entry it made in an index
(`EntryIsUnique`), the owner of the token it was presented
(`KnowsItsCustomer`); `PairsApart` keeps two sessions from one key and one
entry, and `TokenLocksOK` puts every token lock under its customer's. The
argument: only `Commit` changes a table, and then each refusal of the door,
checked statements ago, is still answered the same, so the commit is that door of
`Account`. What keeps it so is the lock on the customer for the customer's rows,
and the index for the others'. Refusals and failures at any statement change no
table.

`ReadsProofs`: `show_account` over any number of confirmations. `AddressRead` says that
the address read stays on record for good, and `ChangesRead` that a live change which has
left the pending list was closed before the history is read. Both survive every
door since histories only grow and tokens close once; these come from
`AccountProofs`, whose `IInv` is a part of this one. `TheLatestRowIsInEffect` needs the
chain of the history and that a confirmation is never before the latest row.

`CommandProofs`, about `Command`: what the exit status says of the store, for any number of runs.
`PlaceOK` says for each place of the client what its transaction can be at the
server, `StatusOK` that what an ended run has said stays true, so nothing is left
for the server to do behind its back, and `OneSpender` that the holder of the row is
one, and alone writes the token.

`CommandProofs`, about `Rules`: texts of any length over the ten classes
(`AcceptedIsStored`), windows and instants of any size (`ExpiriesReadBack`, with
`AcceptedReadsBack` and `OnlyTheBoundsRefuse`), every declaration of a table
(`GreenIsIsolation`), command lines of any length (`DashesArrive`). What `strip` keeps begins and ends in ink, so stripping it again
changes nothing. That a first and a last such position exist is `LeastMember`, the
well-ordering of the natural numbers, from the library's theorem that strict
inclusion is well-founded on finite sets. An expiry inside the bounds is on its
own clock too, so that neither overflow decides.

`DashesArrive` is about three recursive functions: the flattening of a line, the joining of dashed
values and the parsing. Each is first shown to exist, which gives its
equations (`FlattenedIs`, `JoiningIs`, `ParsingIs`): were there a least length it fails at, the function one
shorter would extend to it (`NoneIsBad`, from `LeastMember`). Then the tokens of a line are those of its
first option and the tokens of the rest, and what is parsed is the reading of the first option and of
the rest; the i-th option is where the rest is i - 1 shorter (`Tailed`). It rests on what `InputsAreReal` says of a
line: options that take a value, each with at most one, and no value is the name of an option.

`ConsentProofs`: any number of sessions, customers, channels and options. `DoorOK` says
that what a door has written and what it has left are the options it was given, none of
it committed; `RecordOK` the same of what is committed; `ReadingOK` that what the read
has listed is committed and what it has read of it complete.

`TenancyProofs`: isolation of reads, writes and references, for every set of
tenants, customers and connections. `IInv` adds: the policies judge by the
tenant set in *this* transaction (`ContextIsAsked`), autocommit has neither
tenant nor staged row, staged rows obey the rules of committed ones, and
whoever has a row under an id has it of one tenant (`OneTenantPerRow`), which is
what keeps a reference valid when another connection commits its update of the
customer it names.

`ControlsProofs`: any files, controls, effects and bounds. `TreeOK` says what the text holds
under a plant and that what will be put back was left by an earlier process, `GreenOK` and `RedOK` that the two runs
load the same but for the plant, `FilesOK` that bytecode never carries a fault of another file.

`TransactionProofs`, first half: doors alone in their transactions never wait in a
circle, for any number of sessions. `FirstDoorOK` says where a first door can hold what: entries
only once it is over, a row only past its lock, a share only as it writes. Whoever
waits for a row then waits for a door past its lock, and whoever waits for an
entry waits for a transaction that waits for nothing.

`TransactionProofs`, second half: `CommitsSerially` and `TablesStaySound`, for any number
of sessions, customers, calls and doors in a transaction. The inductive invariant is
`SerialOK`, over the one of the locks. Of one transaction over the committed tables
(`SessionOK`) it says that each accepted call of the log would still be accepted where it stands and
that what the session sees is what the log leaves (`RunOK`); that its staged rows are of
customers it has locked or created, or of tokens it drew (`StagedOK`); that the keys it
drew are still nobody's (`KeysOK`); that nobody else carries an address it has in doubt
(`EntriesOK`); and that a door past its lock and its checks still passes what they asked (`DoorOK`).
Of two transactions it says that they share no customer, no entry and no key (`Apart`). Without
`Apart` the rest is not inductive: the commit of one would move the ground under the
other's log. The proof goes in four layers:

1. *A door alone keeps the promises* (`DoorKeepsPromises`, `RunKeepsPromises`): the lemmas of
   `AccountProofs` are stated over tables as values, so they hold of what a
   session sees as of what is committed, and of the seeds.
2. *A door is local* (`DoorIsLocal`, `DoorIsTheSame`): it writes rows of its owner alone, and over two
   tables that agree on its owner it answers alike, unless an address or a reference it would enter
   is carried by somebody else in one of them.
3. *Another's commit* (`Along`, `WorkStays`, `SessionStays`): by the two, and by `Apart`, the log of a transaction
   runs over the newly committed tables as it did over the old ones, and leaves the same
   for its customers.
4. *Each action* has a lemma (`BeginKeepsSerial`, ... , `CommitKeepsSerial`); `Write` is where an index
   entry is judged and is the longest.

`SeedsHappened` is what the proof takes of the initial tables: they are what accepted calls
leave, with keys and salts drawn once. TLC checked the conjuncts of `SerialOK` on the instance of the
`transaction` run, all of its 436 386 states, before they were proved.

Only model-checked:

- `GreenMeansDerived`: writing a document is a fold over its blocks, each step of it
  a cut of the words at markers, and a document may be malformed. Each layer is an induction over a
  length, and the induction theorems of the library are out of this prover's reach;
- liveness (`EveryDoorEnds`, `EveryRunEnds`): the prover treats neither fairness nor
  ENABLED.

No module declares a RECURSIVE operator.

## 7. What is not modelled

- scrypt, its parameters, the digest of a token, and the refusal of an unknown
  KDF: arithmetic and libraries. `passwords.py` appears as *this password, under
  this salt*, and as its one rule.
- parsing of numbers and instants (`_at`, `_whole_number`): one call of a library
  each. An instant in the models is one that has been parsed.
- `FOR KEY SHARE` locks in `AccountStore`: the doors it has hold the customer row in a
  stronger mode, except `create_account`, whose row nobody else can name yet.
  `Transaction` has them, for `record_acceptance`.
- in `Transaction`, the rows of an acceptance: no door reads them (`Consent` has
  them). A caller's own statements, savepoints and isolation levels other than
  READ COMMITTED are its own.
- grants, the pre-flight on the collation, and the owner, who could bypass the
  policies unless they are forced.
- `find_customer_by_email`, a read of one statement; the order of
  `show_acceptances`.
- the sentences of `findings.py` and of the builders of the contract: wording.
- the scrypt measurement, the installer of the role and CI.
- in `Controls`, a write that keeps a part of its text (a full disk): a cut one leaves
  the file as it was or empty; a planting write that is lost without an error; and two
  processes at once, which nothing in the repository starts.
- in `AccountReads`, the doors of a reset: to these reads they are `SetPassword`, or
  nothing.
- the refusal of a token state that no CHECK admits (`records.py:668`): under
  `TypeOK` there is none. `Transaction` keeps the locks of a failed transaction until its
  end, where PostgreSQL gives them up with the statement that failed: it has every wait
  of the server and some more.
- what every version of argparse makes of a lone `--` that is joined to an option:
  `Boundary` follows those that drop it and hand over an empty list.
  `DashedValuesArrive` leaves that value out. The second half of `NothingEscapes` would
  fail on it, since `os.open` then raises a `TypeError` that `_text_file`
  (`cli.py:252`) does not name; the counterexample of `rules_undecodable` is the first half
  and has no `--` in it.

## 8. Plan

Done, in the order of importance: the doors serially and their proof; the doors
interleaved, their refinement and its proof; reads, the command line,
tenancy, consent and the controls, with their proofs; embedding callers, with the proofs about
their locks and their commits; instants, the boundary, the catalogue and the contract, with the proofs
of section 6. What is left is in the list above: `GreenMeansDerived` could be
proved by `LeastMember`, as the run of a log (`AfterIsTheRun`) and the reading of a line
(`LineArrives`) were.
