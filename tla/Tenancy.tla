------------------------------ MODULE Tenancy ------------------------------
(***************************************************************************)
(* Several operators (tenants) in one database, kept apart by row-level    *)
(* security: the tenant a transaction sets, the policies that read it, and *)
(* the composite keys that check a reference past the policies.            *)
(*                                                                         *)
(* A connection is reused, transaction after transaction, by callers that  *)
(* may forget to set a tenant, set another one in mid-transaction, or run  *)
(* in autocommit.  Statements are raw here: nothing but the database keeps *)
(* them in their tenant.  One table with an id of its own (customers) and  *)
(* one that refers to it (terms_acceptances) stand for all the others,     *)
(* whose policies and keys have the same form.                             *)
(***************************************************************************)
EXTENDS Naturals

CONSTANTS
  Tenant,       \* tenants.id
  Customer,     \* customers.id, drawn at random by the INSERT
  Connection,   \* connections of the application role
  NoTenant,     \* SQL's NULL, where a tenant is expected
  NoRow         \* no customers row under this id

ASSUME NullsAreNoTenant == NoTenant \notin Tenant

\* What current_setting(name, true) returns on a connection that never set it,
\* and on one that did in a transaction now over.
Never == "never set"
Empty == ""

ASSUME SettingsAreNoTenant ==
  /\ Never \notin Tenant /\ Empty \notin Tenant
  /\ Empty # NoTenant

CustomerRow == [tenant : Tenant, under : Tenant \cup {NoTenant}]

ASSUME NoRowIsNoCustomer == NoRow \notin CustomerRow

VARIABLES
  customers,     \* the committed rows; under is a history variable, the
                 \*   tenant the writing transaction had set
  acceptances,   \* committed rows that refer to a customer
  autocommit,    \* the connections whose every statement is a transaction
  setting,       \* customer_account.tenant_id, as each connection sees it
  staged,        \* what its open transaction has written
  asked,         \* history: the tenant it set in this very transaction
  answer         \* history: the last read, as the tenants whose rows it saw
                 \*   and the tenant asked for

tables == <<customers, acceptances>>
vars == <<customers, acceptances, autocommit, setting, staged, asked, answer>>

Nothing == [customers |-> [c \in Customer |-> NoRow], acceptances |-> {}]
NoAnswer == [saw |-> {}, asked |-> NoTenant]

TypeOK ==
  /\ customers \in [Customer -> CustomerRow \cup {NoRow}]
  /\ acceptances \subseteq [tenant : Tenant, customer : Customer]
  /\ autocommit \subseteq Connection
  /\ setting \in [Connection -> Tenant \cup {Never, Empty}]
  /\ staged \in [Connection -> [customers : [Customer -> CustomerRow \cup {NoRow}],
                                acceptances : SUBSET [tenant : Tenant, customer : Customer]]]
  /\ asked \in [Connection -> Tenant \cup {NoTenant}]
  /\ answer \in [Connection -> [saw : SUBSET Tenant, asked : Tenant \cup {NoTenant}]]

Init ==
  /\ customers = Nothing.customers
  /\ acceptances = {}
  /\ autocommit \in SUBSET Connection
  /\ setting = [n \in Connection |-> Never]
  /\ staged = [n \in Connection |-> Nothing]
  /\ asked = [n \in Connection |-> NoTenant]
  /\ answer = [n \in Connection |-> NoAnswer]

-----------------------------------------------------------------------------
(* What the policies ask.                                                  *)

\* Mutant: the empty setting is cast as it stands.
WithoutNullif(n) == IF setting[n] = Never THEN NoTenant ELSE setting[n]

\* current_tenant_id(): NULLIF turns the empty setting into no tenant.
CurrentTenant(n) == IF setting[n] \in {Never, Empty} THEN NoTenant ELSE setting[n]

\* The customers row a connection has under an id: its own write, or the
\* committed one.
Present(n, c) ==
  IF staged[n].customers[c] # NoRow THEN staged[n].customers[c] ELSE customers[c]

\* USING (tenant_id = current_tenant_id()): NULL equals nothing.
Using(n, c) == Present(n, c) # NoRow /\ Present(n, c).tenant = CurrentTenant(n)

\* Mutant: the policy has no WITH CHECK.
NoCheck(n, t) == CurrentTenant(n) # NoTenant

\* WITH CHECK (tenant_id = current_tenant_id()).
WithCheck(n, t) == t = CurrentTenant(n)

\* Mutant: the reference is customers(id) alone.
BareKey(n, t, c) == Present(n, c) # NoRow

\* FOREIGN KEY (tenant_id, customer_id): checked past the policies.
CompositeKey(n, t, c) == Present(n, c) # NoRow /\ Present(n, c).tenant = t

-----------------------------------------------------------------------------
(* The end of a transaction.                                               *)

\* Mutant: set_config(..., false), for the session.
KeptForTheSession(n) == setting[n]

\* set_config(..., true): the setting is gone with the transaction.
Lapsed(n) == IF setting[n] = Never THEN Never ELSE Empty

\* What a statement stages; in autocommit it is committed and over at once.
Stage(n, written) ==
  IF n \in autocommit
  THEN /\ customers' = [c \in Customer |-> IF written.customers[c] # NoRow
                                           THEN written.customers[c] ELSE customers[c]]
       /\ acceptances' = acceptances \cup written.acceptances
       /\ setting' = [setting EXCEPT ![n] = Lapsed(n)]
       /\ asked' = [asked EXCEPT ![n] = NoTenant]
       /\ UNCHANGED staged
  ELSE /\ staged' = [staged EXCEPT ![n] = written]
       /\ UNCHANGED <<customers, acceptances, setting, asked>>

Over(n) ==
  /\ staged' = [staged EXCEPT ![n] = Nothing]
  /\ setting' = [setting EXCEPT ![n] = Lapsed(n)]
  /\ asked' = [asked EXCEPT ![n] = NoTenant]
  /\ UNCHANGED <<autocommit, answer>>

Commit(n) ==
  /\ n \notin autocommit
  /\ customers' = [c \in Customer |-> Present(n, c)]
  /\ acceptances' = acceptances \cup staged[n].acceptances
  /\ Over(n)

\* A rollback, and the end of every transaction in which a statement failed.
Rollback(n) ==
  /\ n \notin autocommit
  /\ Over(n)
  /\ UNCHANGED tables

\* The pool opens a new connection in the place of this one.
Reconnect(n) ==
  /\ staged' = [staged EXCEPT ![n] = Nothing]
  /\ setting' = [setting EXCEPT ![n] = Never]
  /\ asked' = [asked EXCEPT ![n] = NoTenant]
  /\ answer' = [answer EXCEPT ![n] = NoAnswer]
  /\ UNCHANGED <<tables, autocommit>>

-----------------------------------------------------------------------------
(* Statements.                                                             *)

\* set_tenant: in autocommit it holds for its own statement and no longer.
SetTenant(n, t) ==
  /\ IF n \in autocommit
     THEN setting' = [setting EXCEPT ![n] = Empty] /\ UNCHANGED asked
     ELSE setting' = [setting EXCEPT ![n] = t] /\ asked' = [asked EXCEPT ![n] = t]
  /\ UNCHANGED <<tables, autocommit, staged, answer>>

\* SELECT ... FROM customers.  A setting that is no uuid raises.
Select(n) ==
  /\ answer' = [answer EXCEPT ![n] =
       [saw |-> IF CurrentTenant(n) = Empty THEN {"raised"}
                ELSE {Present(n, c).tenant : c \in {d \in Customer : Using(n, d)}},
        asked |-> asked[n]]]
  /\ Stage(n, staged[n])
  /\ UNCHANGED autocommit

\* INSERT INTO customers, attributed to any tenant, under an id nobody has.
InsertCustomer(n, t, c) ==
  /\ WithCheck(n, t)
  /\ customers[c] = NoRow /\ \A m \in Connection : staged[m].customers[c] = NoRow
  /\ Stage(n, [staged[n] EXCEPT !.customers[c] = [tenant |-> t, under |-> asked[n]]])
  /\ UNCHANGED <<autocommit, answer>>

\* UPDATE customers SET tenant_id = t with no WHERE: the policy alone says which
\* rows, and a new row that fails its check fails the statement.
UpdateCustomers(n, t) ==
  /\ (\E c \in Customer : Using(n, c)) => WithCheck(n, t)
  /\ Stage(n, [staged[n] EXCEPT !.customers =
       [c \in Customer |-> IF Using(n, c) THEN [tenant |-> t, under |-> asked[n]]
                           ELSE staged[n].customers[c]]])
  /\ UNCHANGED <<autocommit, answer>>

\* INSERT INTO terms_acceptances, attributed to any tenant, naming any customer.
InsertAcceptance(n, t, c) ==
  /\ WithCheck(n, t)
  /\ CompositeKey(n, t, c)
  /\ Stage(n, [staged[n] EXCEPT !.acceptances = @ \cup {[tenant |-> t, customer |-> c]}])
  /\ UNCHANGED <<autocommit, answer>>

Next ==
  \E n \in Connection :
    \/ Commit(n)
    \/ Rollback(n)
    \/ Reconnect(n)
    \/ Select(n)
    \/ \E t \in Tenant : SetTenant(n, t) \/ UpdateCustomers(n, t)
    \/ \E t \in Tenant, c \in Customer : InsertCustomer(n, t, c) \/ InsertAcceptance(n, t, c)

Spec == Init /\ [][Next]_vars

-----------------------------------------------------------------------------
(* What keeps the operators apart.                                         *)

\* A read sees rows of the tenant its own transaction set, and of no other:
\* none at all where it set none, whatever the connection was used for before
\* (the context cannot leak into the next statement on a pooled connection).
ReadsStayInTheirTenant ==
  \A n \in Connection : answer[n].saw \subseteq {answer[n].asked}

\* A row was written, and last rewritten, by a transaction that had set the
\* tenant the row belongs to.
WritesStayInTheirTenant ==
  \A c \in Customer : customers[c] # NoRow => customers[c].under = customers[c].tenant

\* No row names a customer of another tenant, even by a raw insert: the check
\* of the reference sees every tenant's rows and still keeps them apart.
ReferencesStayInTheirTenant ==
  \A a \in acceptances :
    customers[a.customer] # NoRow /\ customers[a.customer].tenant = a.tenant
=============================================================================
