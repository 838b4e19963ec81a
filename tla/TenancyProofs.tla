--------------------------- MODULE TenancyProofs ---------------------------
(***************************************************************************)
(* Theorems about Tenancy: for every set of tenants, of customers and of   *)
(* connections, whatever their callers do.                                 *)
(***************************************************************************)
EXTENDS Tenancy, TLAPS

\* The policies judge by the tenant this very transaction set, and by nothing
\* a connection was left with.
ContextIsAsked == \A n \in Connection : CurrentTenant(n) = asked[n]

\* In autocommit there is no transaction for a tenant to last through.
AutocommitHasNoTenant ==
  \A n \in autocommit : asked[n] = NoTenant /\ staged[n] = Nothing

\* Uncommitted rows obey the same rule as committed ones.
StagedWritesStayInTheirTenant ==
  \A n \in Connection, c \in Customer :
    staged[n].customers[c] # NoRow =>
      staged[n].customers[c].under = staged[n].customers[c].tenant

\* Whoever has a row under an id, committed or not, has it of one tenant.
OneTenantPerRow ==
  \A n \in Connection, c \in Customer : staged[n].customers[c] # NoRow =>
    /\ customers[c] # NoRow => customers[c].tenant = staged[n].customers[c].tenant
    /\ \A m \in Connection : staged[m].customers[c] # NoRow =>
         staged[m].customers[c].tenant = staged[n].customers[c].tenant

StagedReferencesStayInTheirTenant ==
  \A n \in Connection : \A a \in staged[n].acceptances :
    CompositeKey(n, a.tenant, a.customer)

IInv ==
  /\ TypeOK
  /\ ContextIsAsked
  /\ AutocommitHasNoTenant
  /\ ReadsStayInTheirTenant
  /\ WritesStayInTheirTenant
  /\ StagedWritesStayInTheirTenant
  /\ OneTenantPerRow
  /\ ReferencesStayInTheirTenant
  /\ StagedReferencesStayInTheirTenant

Staging == [customers : [Customer -> CustomerRow \cup {NoRow}],
            acceptances : SUBSET [tenant : Tenant, customer : Customer]]

\* Nothing staged is a staging, and holds nothing.
LEMMA NothingIsStaged ==
  /\ Nothing \in Staging
  /\ \A c \in Customer : Nothing.customers[c] = NoRow
  /\ Nothing.acceptances = {}
BY DEF Nothing, Staging

\* A database in which nobody has done anything satisfies the invariant.
LEMMA InitIInv == Init => IInv
<1> SUFFICES ASSUME Init PROVE IInv
  OBVIOUS
<1> USE DEF Init
<1>1. TypeOK
  BY NothingIsStaged DEF TypeOK, Staging, NoAnswer
<1>2. ContextIsAsked /\ AutocommitHasNoTenant
  BY DEF ContextIsAsked, AutocommitHasNoTenant, CurrentTenant
<1>3. ReadsStayInTheirTenant
  BY DEF ReadsStayInTheirTenant, NoAnswer
<1>4. WritesStayInTheirTenant /\ StagedWritesStayInTheirTenant /\ OneTenantPerRow
  BY NothingIsStaged DEF WritesStayInTheirTenant, StagedWritesStayInTheirTenant, OneTenantPerRow
<1>5. ReferencesStayInTheirTenant /\ StagedReferencesStayInTheirTenant
  BY NothingIsStaged DEF ReferencesStayInTheirTenant, StagedReferencesStayInTheirTenant
<1> QED
  BY <1>1, <1>2, <1>3, <1>4, <1>5 DEF IInv

\* What a connection has under an id is a row of the schema, written under its
\* own tenant, and of the tenant everybody else has there.
LEMMA PresentRows ==
  ASSUME IInv, NEW n \in Connection, NEW c \in Customer
  PROVE  /\ Present(n, c) \in CustomerRow \cup {NoRow}
         /\ Present(n, c) # NoRow => Present(n, c).under = Present(n, c).tenant
         /\ customers[c] # NoRow =>
              Present(n, c) # NoRow /\ Present(n, c).tenant = customers[c].tenant
         /\ staged[n].customers[c] # NoRow => Present(n, c) = staged[n].customers[c]
         /\ \A m \in Connection : staged[m].customers[c] # NoRow /\ Present(n, c) # NoRow =>
              Present(n, c).tenant = staged[m].customers[c].tenant
BY DEF IInv, TypeOK, Present, WritesStayInTheirTenant, StagedWritesStayInTheirTenant,
       OneTenantPerRow

-----------------------------------------------------------------------------
(* Statements.                                                             *)

\* What a statement may stage: rows written under the tenant they are of and
\* nobody else's, references to rows of the same tenant, all that was staged
\* before; and nothing at all in autocommit, where no tenant lasts.
Stageable(n, w) ==
  /\ w \in Staging
  /\ n \in autocommit => w = Nothing
  /\ \A c \in Customer : staged[n].customers[c] # NoRow => w.customers[c] # NoRow
  /\ \A c \in Customer : w.customers[c] # NoRow =>
       /\ w.customers[c].under = w.customers[c].tenant
       /\ customers[c] # NoRow => customers[c].tenant = w.customers[c].tenant
       /\ \A m \in Connection : staged[m].customers[c] # NoRow =>
            staged[m].customers[c].tenant = w.customers[c].tenant
  /\ \A a \in w.acceptances :
       \/ w.customers[a.customer] # NoRow /\ w.customers[a.customer].tenant = a.tenant
       \/ customers[a.customer] # NoRow /\ customers[a.customer].tenant = a.tenant

\* A statement that stages such rows keeps every part of the invariant but the
\* one about reads.
LEMMA StageKeeps ==
  ASSUME IInv, NEW n \in Connection, NEW w, Stageable(n, w), Stage(n, w),
         UNCHANGED autocommit,
         answer' \in [Connection -> [saw : SUBSET Tenant, asked : Tenant \cup {NoTenant}]],
         ReadsStayInTheirTenant'
  PROVE  IInv'
<1>1. CASE n \in autocommit
  <2>1. w = Nothing
    BY <1>1 DEF Stageable
  <2>2. customers' = customers
    BY <1>1, <2>1, NothingIsStaged DEF Stage, IInv, TypeOK
  <2>3. acceptances' = acceptances /\ staged' = staged
    BY <1>1, <2>1, NothingIsStaged DEF Stage
  <2>4. setting' = [setting EXCEPT ![n] = Lapsed(n)] /\ asked' = [asked EXCEPT ![n] = NoTenant]
    BY <1>1 DEF Stage
  <2>5. TypeOK'
    BY <2>2, <2>3, <2>4 DEF IInv, TypeOK, Lapsed
  <2>6. ContextIsAsked'
    BY <2>4 DEF IInv, TypeOK, ContextIsAsked, CurrentTenant, Lapsed
  <2>7. AutocommitHasNoTenant'
    BY <2>3, <2>4 DEF IInv, TypeOK, AutocommitHasNoTenant
  <2>8. /\ WritesStayInTheirTenant' /\ StagedWritesStayInTheirTenant'
        /\ OneTenantPerRow' /\ ReferencesStayInTheirTenant'
    BY <2>2, <2>3 DEF IInv, WritesStayInTheirTenant, StagedWritesStayInTheirTenant,
                      OneTenantPerRow, ReferencesStayInTheirTenant
  <2>9. StagedReferencesStayInTheirTenant'
    BY <2>2, <2>3 DEF IInv, StagedReferencesStayInTheirTenant, CompositeKey, Present
  <2> QED
    BY <2>5, <2>6, <2>7, <2>8, <2>9 DEF IInv
<1>2. CASE n \notin autocommit
  <2>1. staged' = [staged EXCEPT ![n] = w]
    BY <1>2 DEF Stage
  <2>2. UNCHANGED <<customers, acceptances, setting, asked>>
    BY <1>2 DEF Stage
  <2>3. TypeOK'
    BY <2>1, <2>2 DEF IInv, TypeOK, Stageable, Staging
  <2>4. ContextIsAsked'
    BY <2>2 DEF IInv, ContextIsAsked, CurrentTenant
  <2>5. AutocommitHasNoTenant'
    BY <1>2, <2>1, <2>2 DEF IInv, TypeOK, AutocommitHasNoTenant
  <2>6. WritesStayInTheirTenant' /\ ReferencesStayInTheirTenant'
    BY <2>2 DEF IInv, WritesStayInTheirTenant, ReferencesStayInTheirTenant
  <2>7. StagedWritesStayInTheirTenant'
    BY <2>1 DEF IInv, TypeOK, StagedWritesStayInTheirTenant, Stageable
  <2>8. OneTenantPerRow'
    BY <2>1, <2>2 DEF IInv, TypeOK, OneTenantPerRow, Stageable
  <2>9. StagedReferencesStayInTheirTenant'
    <3> SUFFICES ASSUME NEW m \in Connection, NEW a \in staged'[m].acceptances
                 PROVE  CompositeKey(m, a.tenant, a.customer)'
      BY DEF StagedReferencesStayInTheirTenant
    <3>1. a \in [tenant : Tenant, customer : Customer]
      BY <2>3 DEF TypeOK
    <3>2. CASE m = n
      BY <2>1, <2>2, <3>1, <3>2 DEF IInv, TypeOK, CompositeKey, Present, Stageable
    <3>3. CASE m # n
      BY <2>1, <2>2, <3>3
         DEF IInv, TypeOK, CompositeKey, Present, StagedReferencesStayInTheirTenant
    <3> QED
      BY <3>2, <3>3
  <2> QED
    BY <2>3, <2>4, <2>5, <2>6, <2>7, <2>8, <2>9 DEF IInv
<1> QED
  BY <1>1, <1>2

\* What is staged already may be staged.
LEMMA StagedIsStageable ==
  ASSUME IInv, NEW n \in Connection
  PROVE  Stageable(n, staged[n])
BY DEF IInv, TypeOK, Stageable, Staging, AutocommitHasNoTenant, StagedWritesStayInTheirTenant,
       OneTenantPerRow, StagedReferencesStayInTheirTenant, CompositeKey, Present

\* A read sees what the policy lets it see.
LEMMA SelectKeepsIInv ==
  ASSUME IInv, NEW n \in Connection, Select(n)
  PROVE  IInv'
<1>1. CurrentTenant(n) = asked[n] /\ CurrentTenant(n) # Empty
  BY SettingsAreNoTenant DEF IInv, TypeOK, ContextIsAsked, CurrentTenant
<1>2. PICK saw : /\ answer' = [answer EXCEPT ![n] = [saw |-> saw, asked |-> asked[n]]]
                 /\ saw = {Present(n, c).tenant : c \in {d \in Customer : Using(n, d)}}
  BY <1>1 DEF Select
<1>3. saw \subseteq {asked[n]} /\ saw \subseteq Tenant
  BY <1>1, <1>2, PresentRows DEF Using, CustomerRow
<1>4. /\ answer' \in [Connection -> [saw : SUBSET Tenant, asked : Tenant \cup {NoTenant}]]
      /\ ReadsStayInTheirTenant'
  BY <1>2, <1>3 DEF IInv, TypeOK, ReadsStayInTheirTenant
<1> QED
  BY <1>4, StagedIsStageable, StageKeeps DEF Select

\* A statement that reads nothing leaves the answers as they were.
LEMMA AnswersKept ==
  ASSUME IInv, UNCHANGED answer
  PROVE  /\ answer' \in [Connection -> [saw : SUBSET Tenant, asked : Tenant \cup {NoTenant}]]
         /\ ReadsStayInTheirTenant'
BY DEF IInv, TypeOK, ReadsStayInTheirTenant

\* An inserted row is of the tenant asked for, under an id nobody else has.
LEMMA InsertCustomerKeepsIInv ==
  ASSUME IInv, NEW n \in Connection, NEW t \in Tenant, NEW c \in Customer,
         InsertCustomer(n, t, c)
  PROVE  IInv'
<1> DEFINE w == [staged[n] EXCEPT !.customers[c] = [tenant |-> t, under |-> asked[n]]]
<1>1. t = asked[n] /\ n \notin autocommit
  BY NullsAreNoTenant
     DEF InsertCustomer, WithCheck, IInv, ContextIsAsked, AutocommitHasNoTenant
<1>2. /\ customers[c] = NoRow
      /\ \A m \in Connection : staged[m].customers[c] = NoRow
  BY DEF InsertCustomer
<1>3. staged[n] \in Staging
  BY DEF IInv, TypeOK, Staging
<1>4. /\ w \in Staging
      /\ w.acceptances = staged[n].acceptances
      /\ w.customers = [staged[n].customers EXCEPT ![c] = [tenant |-> t, under |-> t]]
  BY <1>1, <1>3 DEF Staging, CustomerRow
<1>5. w.customers[c] = [tenant |-> t, under |-> t]
  BY <1>3, <1>4 DEF Staging
<1>6. \A d \in Customer : d # c => w.customers[d] = staged[n].customers[d]
  BY <1>3, <1>4 DEF Staging
<1>7. Stageable(n, w)
  <2>1. \A d \in Customer : w.customers[d] # NoRow =>
          /\ w.customers[d].under = w.customers[d].tenant
          /\ customers[d] # NoRow => customers[d].tenant = w.customers[d].tenant
          /\ \A m \in Connection : staged[m].customers[d] # NoRow =>
               staged[m].customers[d].tenant = w.customers[d].tenant
    BY <1>2, <1>5, <1>6, StagedIsStageable DEF Stageable
  <2>2. \A d \in Customer : staged[n].customers[d] # NoRow => w.customers[d] # NoRow
    BY <1>2, <1>6
  <2>3. \A a \in w.acceptances :
          \/ w.customers[a.customer] # NoRow /\ w.customers[a.customer].tenant = a.tenant
          \/ customers[a.customer] # NoRow /\ customers[a.customer].tenant = a.tenant
    <3>1. \A a \in w.acceptances : a.customer \in Customer
      BY <1>3, <1>4 DEF Staging
    <3> QED
      BY <1>2, <1>4, <1>6, <3>1, StagedIsStageable DEF Stageable
  <2> QED
    BY <1>1, <1>4, <2>1, <2>2, <2>3 DEF Stageable
<1>8. Stage(n, w) /\ UNCHANGED <<autocommit, answer>>
  BY DEF InsertCustomer
<1> QED
  BY <1>7, <1>8, AnswersKept, StageKeeps

\* An update touches what the policy lets it see, whatever its WHERE leaves out,
\* and moves no row to another tenant, whatever its SET says.
LEMMA UpdateCustomersKeepsIInv ==
  ASSUME IInv, NEW n \in Connection, NEW t \in Tenant, UpdateCustomers(n, t)
  PROVE  IInv'
<1> DEFINE rows == [c \in Customer |-> IF Using(n, c)
                                       THEN [tenant |-> t, under |-> asked[n]]
                                       ELSE staged[n].customers[c]]
           w == [staged[n] EXCEPT !.customers = rows]
<1>1. staged[n] \in Staging
  BY DEF IInv, TypeOK, Staging
<1>2. \A c \in Customer : Using(n, c) =>
        /\ rows[c] \in CustomerRow /\ rows[c] # NoRow
        /\ rows[c].tenant = Present(n, c).tenant /\ rows[c].under = rows[c].tenant
  <2> SUFFICES ASSUME NEW c \in Customer, Using(n, c)
               PROVE  /\ rows[c] \in CustomerRow /\ rows[c] # NoRow
                      /\ rows[c].tenant = Present(n, c).tenant
                      /\ rows[c].under = rows[c].tenant
    OBVIOUS
  <2>1. rows[c] = [tenant |-> t, under |-> asked[n]]
    OBVIOUS
  <2>2. Present(n, c).tenant = asked[n] /\ t = asked[n]
    BY DEF UpdateCustomers, Using, WithCheck, IInv, ContextIsAsked
  <2> HIDE DEF rows
  <2>3. rows[c] \in CustomerRow /\ rows[c].tenant = asked[n] /\ rows[c].under = asked[n]
    BY <2>1, <2>2 DEF CustomerRow
  <2> QED
    BY <2>2, <2>3, NoRowIsNoCustomer
<1>3. \A c \in Customer : ~Using(n, c) => rows[c] = staged[n].customers[c]
  OBVIOUS
<1>4. rows \in [Customer -> CustomerRow \cup {NoRow}]
  <2>1. \A c \in Customer : rows[c] \in CustomerRow \cup {NoRow}
    BY <1>1, <1>2, <1>3 DEF Staging
  <2> QED
    BY <2>1
<1> HIDE DEF rows
<1>5. w \in Staging /\ w.customers = rows /\ w.acceptances = staged[n].acceptances
  BY <1>1, <1>4 DEF Staging
<1>6. n \in autocommit => w = Nothing
  <2> SUFFICES ASSUME n \in autocommit PROVE w = Nothing
    OBVIOUS
  <2>1. CurrentTenant(n) = NoTenant /\ staged[n] = Nothing
    BY DEF IInv, ContextIsAsked, AutocommitHasNoTenant
  <2>2. \A c \in Customer : ~Using(n, c)
    BY <2>1, PresentRows, NullsAreNoTenant DEF Using, CustomerRow
  <2>3. rows = Nothing.customers
    BY <1>3, <1>4, <2>1, <2>2 DEF Nothing
  <2> QED
    BY <2>1, <2>3 DEF Nothing
<1>7. \A c \in Customer : staged[n].customers[c] # NoRow => rows[c] # NoRow
  BY <1>2, <1>3
<1>8. \A c \in Customer : rows[c] # NoRow =>
        /\ rows[c].under = rows[c].tenant
        /\ customers[c] # NoRow => customers[c].tenant = rows[c].tenant
        /\ \A m \in Connection : staged[m].customers[c] # NoRow =>
             staged[m].customers[c].tenant = rows[c].tenant
  <2> SUFFICES ASSUME NEW c \in Customer, rows[c] # NoRow
               PROVE  /\ rows[c].under = rows[c].tenant
                      /\ customers[c] # NoRow => customers[c].tenant = rows[c].tenant
                      /\ \A m \in Connection : staged[m].customers[c] # NoRow =>
                           staged[m].customers[c].tenant = rows[c].tenant
    OBVIOUS
  <2>1. CASE Using(n, c)
    BY <1>2, <2>1, PresentRows DEF Using
  <2>2. CASE ~Using(n, c)
    BY <1>3, <2>2, StagedIsStageable DEF Stageable
  <2> QED
    BY <2>1, <2>2
<1>9. \A a \in staged[n].acceptances :
        \/ rows[a.customer] # NoRow /\ rows[a.customer].tenant = a.tenant
        \/ customers[a.customer] # NoRow /\ customers[a.customer].tenant = a.tenant
  <2> SUFFICES ASSUME NEW a \in staged[n].acceptances
               PROVE  \/ rows[a.customer] # NoRow /\ rows[a.customer].tenant = a.tenant
                      \/ customers[a.customer] # NoRow /\ customers[a.customer].tenant = a.tenant
    OBVIOUS
  <2>1. a.customer \in Customer /\ CompositeKey(n, a.tenant, a.customer)
    BY <1>1 DEF Staging, IInv, StagedReferencesStayInTheirTenant
  <2> QED
    BY <1>2, <1>3, <2>1 DEF CompositeKey, Present
<1>10. Stageable(n, w)
  BY <1>5, <1>6, <1>7, <1>8, <1>9 DEF Stageable
<1>11. Stage(n, w) /\ UNCHANGED <<autocommit, answer>>
  BY DEF UpdateCustomers, rows
<1> QED
  BY <1>10, <1>11, AnswersKept, StageKeeps

\* A reference passes the composite key and so stays in its tenant.
LEMMA InsertAcceptanceKeepsIInv ==
  ASSUME IInv, NEW n \in Connection, NEW t \in Tenant, NEW c \in Customer,
         InsertAcceptance(n, t, c)
  PROVE  IInv'
<1> DEFINE w == [staged[n] EXCEPT !.acceptances = @ \cup {[tenant |-> t, customer |-> c]}]
<1>1. n \notin autocommit
  BY NullsAreNoTenant
     DEF InsertAcceptance, WithCheck, IInv, ContextIsAsked, AutocommitHasNoTenant
<1>2. staged[n] \in Staging
  BY DEF IInv, TypeOK, Staging
<1>3. /\ w \in Staging /\ w.customers = staged[n].customers
      /\ w.acceptances = staged[n].acceptances \cup {[tenant |-> t, customer |-> c]}
  BY <1>2 DEF Staging
<1>4. \/ staged[n].customers[c] # NoRow /\ staged[n].customers[c].tenant = t
      \/ customers[c] # NoRow /\ customers[c].tenant = t
  BY DEF InsertAcceptance, CompositeKey, Present
<1>5. Stageable(n, w)
  BY <1>1, <1>3, <1>4, StagedIsStageable DEF Stageable
<1>6. Stage(n, w) /\ UNCHANGED <<autocommit, answer>>
  BY DEF InsertAcceptance
<1> QED
  BY <1>5, <1>6, AnswersKept, StageKeeps

\* A tenant set in a transaction is what its policies will ask; in autocommit
\* it is gone again with its statement.
LEMMA SetTenantKeepsIInv ==
  ASSUME IInv, NEW n \in Connection, NEW t \in Tenant, SetTenant(n, t)
  PROVE  IInv'
<1>1. UNCHANGED <<customers, acceptances, autocommit, staged, answer>>
  BY DEF SetTenant, tables
<1>2. TypeOK'
  BY <1>1 DEF SetTenant, IInv, TypeOK
<1>3. ContextIsAsked'
  BY SettingsAreNoTenant
     DEF SetTenant, IInv, TypeOK, ContextIsAsked, AutocommitHasNoTenant, CurrentTenant
<1>4. AutocommitHasNoTenant'
  BY <1>1 DEF SetTenant, IInv, TypeOK, AutocommitHasNoTenant
<1>5. /\ ReadsStayInTheirTenant' /\ WritesStayInTheirTenant' /\ StagedWritesStayInTheirTenant'
      /\ OneTenantPerRow' /\ ReferencesStayInTheirTenant'
  BY <1>1 DEF IInv, ReadsStayInTheirTenant, WritesStayInTheirTenant,
              StagedWritesStayInTheirTenant, OneTenantPerRow, ReferencesStayInTheirTenant
<1>6. StagedReferencesStayInTheirTenant'
  BY <1>1 DEF IInv, StagedReferencesStayInTheirTenant, CompositeKey, Present
<1> QED
  BY <1>2, <1>3, <1>4, <1>5, <1>6 DEF IInv

-----------------------------------------------------------------------------
(* The end of a transaction.                                               *)

\* A connection that drops what it staged, and its tenant, keeps the invariant.
LEMMA DroppingKeeps ==
  ASSUME IInv, NEW n \in Connection, NEW left \in {Never, Empty},
         UNCHANGED <<tables, autocommit>>,
         staged' = [staged EXCEPT ![n] = Nothing],
         setting' = [setting EXCEPT ![n] = left],
         asked' = [asked EXCEPT ![n] = NoTenant],
         answer' \in [Connection -> [saw : SUBSET Tenant, asked : Tenant \cup {NoTenant}]],
         ReadsStayInTheirTenant'
  PROVE  IInv'
<1>1. UNCHANGED <<customers, acceptances>>
  BY DEF tables
<1>2. TypeOK'
  BY <1>1, NothingIsStaged DEF IInv, TypeOK, Staging
<1>3. ContextIsAsked'
  BY DEF IInv, TypeOK, ContextIsAsked, CurrentTenant
<1>4. AutocommitHasNoTenant'
  BY DEF IInv, TypeOK, AutocommitHasNoTenant
<1>5. \A m \in Connection : m # n => staged'[m] = staged[m]
  BY DEF IInv, TypeOK
<1>6. staged'[n] = Nothing
  BY DEF IInv, TypeOK
<1>7. WritesStayInTheirTenant' /\ ReferencesStayInTheirTenant'
  BY <1>1 DEF IInv, WritesStayInTheirTenant, ReferencesStayInTheirTenant
<1>8. StagedWritesStayInTheirTenant' /\ OneTenantPerRow'
  BY <1>1, <1>5, <1>6, NothingIsStaged DEF IInv, StagedWritesStayInTheirTenant, OneTenantPerRow
<1>9. StagedReferencesStayInTheirTenant'
  BY <1>1, <1>5, <1>6, NothingIsStaged
     DEF IInv, StagedReferencesStayInTheirTenant, CompositeKey, Present
<1> QED
  BY <1>2, <1>3, <1>4, <1>7, <1>8, <1>9 DEF IInv

\* A rollback writes nothing.
LEMMA RollbackKeepsIInv ==
  ASSUME IInv, NEW n \in Connection, Rollback(n)
  PROVE  IInv'
<1>1. Lapsed(n) \in {Never, Empty}
  BY DEF Lapsed
<1> QED
  BY <1>1, AnswersKept, DroppingKeeps DEF Rollback, Over

\* Neither does a connection that is replaced.
LEMMA ReconnectKeepsIInv ==
  ASSUME IInv, NEW n \in Connection, Reconnect(n)
  PROVE  IInv'
<1>1. /\ answer' \in [Connection -> [saw : SUBSET Tenant, asked : Tenant \cup {NoTenant}]]
      /\ ReadsStayInTheirTenant'
  BY DEF Reconnect, IInv, TypeOK, NoAnswer, ReadsStayInTheirTenant
<1> QED
  BY <1>1, DroppingKeeps DEF Reconnect

\* A commit publishes rows that were held to the policies as they were written.
LEMMA CommitKeepsIInv ==
  ASSUME IInv, NEW n \in Connection, Commit(n)
  PROVE  IInv'
<1>1. /\ customers' = [c \in Customer |-> Present(n, c)]
      /\ acceptances' = acceptances \cup staged[n].acceptances
      /\ staged' = [staged EXCEPT ![n] = Nothing]
      /\ setting' = [setting EXCEPT ![n] = Lapsed(n)]
      /\ asked' = [asked EXCEPT ![n] = NoTenant]
      /\ UNCHANGED <<autocommit, answer>>
  BY DEF Commit, Over
<1>2. \A c \in Customer : customers'[c] = Present(n, c)
  BY <1>1
<1>3. customers' \in [Customer -> CustomerRow \cup {NoRow}]
  BY <1>1, PresentRows
<1>4. TypeOK'
  BY <1>1, <1>3, NothingIsStaged DEF IInv, TypeOK, Staging, Lapsed
<1>5. ContextIsAsked' /\ AutocommitHasNoTenant'
  BY <1>1 DEF IInv, TypeOK, ContextIsAsked, CurrentTenant, AutocommitHasNoTenant, Lapsed
<1>6. ReadsStayInTheirTenant'
  BY <1>1, AnswersKept
<1>7. \A m \in Connection : m # n => staged'[m] = staged[m]
  BY <1>1 DEF IInv, TypeOK
<1>8. staged'[n] = Nothing
  BY <1>1 DEF IInv, TypeOK
<1>9. WritesStayInTheirTenant'
  BY <1>2, PresentRows DEF WritesStayInTheirTenant
<1>10. StagedWritesStayInTheirTenant'
  BY <1>7, <1>8, NothingIsStaged DEF IInv, StagedWritesStayInTheirTenant
<1>11. OneTenantPerRow'
  BY <1>2, <1>7, <1>8, NothingIsStaged, PresentRows DEF IInv, OneTenantPerRow
<1>12. ReferencesStayInTheirTenant'
  <2> SUFFICES ASSUME NEW a \in acceptances'
               PROVE  customers'[a.customer] # NoRow /\ customers'[a.customer].tenant = a.tenant
    BY DEF ReferencesStayInTheirTenant
  <2>1. a.customer \in Customer
    BY <1>4 DEF TypeOK
  <2>2. CASE a \in acceptances
    BY <1>2, <2>1, <2>2, PresentRows DEF IInv, ReferencesStayInTheirTenant
  <2>3. CASE a \in staged[n].acceptances
    BY <1>2, <2>1, <2>3 DEF IInv, StagedReferencesStayInTheirTenant, CompositeKey
  <2> QED
    BY <1>1, <2>2, <2>3
<1>13. StagedReferencesStayInTheirTenant'
  <2> SUFFICES ASSUME NEW m \in Connection, NEW a \in staged'[m].acceptances
               PROVE  CompositeKey(m, a.tenant, a.customer)'
    BY DEF StagedReferencesStayInTheirTenant
  <2>1. m # n
    BY <1>8, NothingIsStaged
  <2>2. a.customer \in Customer /\ staged'[m] = staged[m]
    BY <1>4, <1>7, <2>1 DEF TypeOK
  <2>3. Present(m, a.customer) # NoRow /\ Present(m, a.customer).tenant = a.tenant
    BY <2>2 DEF IInv, StagedReferencesStayInTheirTenant, CompositeKey
  <2>4. Present(m, a.customer)' # NoRow
        /\ Present(m, a.customer)'.tenant = Present(m, a.customer).tenant
    BY <1>2, <2>2, <2>3, PresentRows DEF Present
  <2> QED
    BY <2>3, <2>4 DEF CompositeKey
<1> QED
  BY <1>4, <1>5, <1>6, <1>9, <1>10, <1>11, <1>12, <1>13 DEF IInv

-----------------------------------------------------------------------------

\* Every statement, of every connection, keeps the invariant.
LEMMA NextKeepsIInv == IInv /\ [Next]_vars => IInv'
<1> SUFFICES ASSUME IInv, [Next]_vars PROVE IInv'
  OBVIOUS
<1>1. CASE UNCHANGED vars
  BY <1>1 DEF vars, IInv, TypeOK, ContextIsAsked, CurrentTenant, AutocommitHasNoTenant,
              ReadsStayInTheirTenant, WritesStayInTheirTenant, StagedWritesStayInTheirTenant,
              OneTenantPerRow, ReferencesStayInTheirTenant, StagedReferencesStayInTheirTenant,
              CompositeKey, Present
<1>2. ASSUME NEW n \in Connection,
             Commit(n) \/ Rollback(n) \/ Reconnect(n) \/ Select(n)
      PROVE  IInv'
  BY <1>2, CommitKeepsIInv, RollbackKeepsIInv, ReconnectKeepsIInv, SelectKeepsIInv
<1>3. ASSUME NEW n \in Connection, NEW t \in Tenant,
             SetTenant(n, t) \/ UpdateCustomers(n, t)
      PROVE  IInv'
  BY <1>3, SetTenantKeepsIInv, UpdateCustomersKeepsIInv
<1>4. ASSUME NEW n \in Connection, NEW t \in Tenant, NEW c \in Customer,
             InsertCustomer(n, t, c) \/ InsertAcceptance(n, t, c)
      PROVE  IInv'
  BY <1>4, InsertCustomerKeepsIInv, InsertAcceptanceKeepsIInv
<1> QED
  BY <1>1, <1>2, <1>3, <1>4 DEF Next

\* The inductive invariant holds of every reachable state.
THEOREM Invariance == Spec => []IInv
<1>1. Init => IInv
  BY InitIInv
<1>2. IInv /\ [Next]_vars => IInv'
  BY NextKeepsIInv
<1> QED
  BY <1>1, <1>2, PTL DEF Spec

\* Every table holds rows of its columns and every setting is a tenant or none:
\* no statement meets a setting it cannot cast.
THEOREM TypeCorrect == Spec => []TypeOK
<1>1. IInv => TypeOK
  BY DEF IInv
<1> QED
  BY <1>1, Invariance, PTL

\* No read sees a row of a tenant its transaction did not set.
THEOREM ReadsAreIsolated == Spec => []ReadsStayInTheirTenant
<1>1. IInv => ReadsStayInTheirTenant
  BY DEF IInv
<1> QED
  BY <1>1, Invariance, PTL

\* No row is written on behalf of another tenant than its own.
THEOREM WritesAreIsolated == Spec => []WritesStayInTheirTenant
<1>1. IInv => WritesStayInTheirTenant
  BY DEF IInv
<1> QED
  BY <1>1, Invariance, PTL

\* No reference crosses from one tenant to another.
THEOREM ReferencesAreIsolated == Spec => []ReferencesStayInTheirTenant
<1>1. IInv => ReferencesStayInTheirTenant
  BY DEF IInv
<1> QED
  BY <1>1, Invariance, PTL
=============================================================================
