----------------------------- MODULE Catalogue -----------------------------
(***************************************************************************)
(* The questions the store asks of the catalogue before it believes in the *)
(* isolation of tenants, beside what the server does with a table so       *)
(* declared.  A table is judged on its row-level security, its tenant      *)
(* column and its foreign keys; a connection on its role.                  *)
(***************************************************************************)
EXTENDS Naturals, Sequences

\* pg_roles of the connection, and whether it owns the table.
Role == [super : BOOLEAN, bypass : BOOLEAN, owner : BOOLEAN]

\* A foreign key on customers: its columns here, and the ones they refer to.
Key ==
  {[conkey |-> <<"customer_id">>, confkey |-> <<"id">>],
   [conkey |-> <<"tenant_id">>, confkey |-> <<"tenant_id">>],
   [conkey |-> <<"tenant_id", "customer_id">>, confkey |-> <<"tenant_id", "id">>],
   [conkey |-> <<"customer_id", "tenant_id">>, confkey |-> <<"id", "tenant_id">>],
   [conkey |-> <<"tenant_id", "customer_id">>, confkey |-> <<"id", "tenant_id">>]}

TableShape ==
  [enabled : BOOLEAN, forced : BOOLEAN, policies : 0..1, tenantColumn : BOOLEAN,
   keys : SUBSET Key]

\* A key needs its columns.
WellFormed(table) ==
  \A key \in table.keys : "tenant_id" \in {key.conkey[i] : i \in DOMAIN key.conkey}
                            => table.tenantColumn

-----------------------------------------------------------------------------
(* What postgres.py asks.                                                  *)

CannotBypass(role) == ~role.super /\ ~role.bypass

\* Mutant: FORCE is not asked for.
EnabledWithAPolicy(table) == table.enabled /\ table.policies # 0

HasRls(table) == table.enabled /\ table.forced /\ table.policies # 0

\* Mutant: any key that carries the column will do.
KeyOnTheColumn(table) ==
  \E key \in table.keys : "customer_id" \in {key.conkey[i] : i \in DOMAIN key.conkey}

\* The same two columns, in the same order, on both sides.
HasCompositeKey(table) ==
  \E key \in table.keys : /\ key.conkey = <<"tenant_id", "customer_id">>
                          /\ key.confkey = <<"tenant_id", "id">>

GreenCatalogue(role, table) ==
  CannotBypass(role) /\ HasRls(table) /\ table.tenantColumn /\ HasCompositeKey(table)

-----------------------------------------------------------------------------
(* What the server does.                                                   *)

\* The policies decide for every role but those that run past them.
PoliciesApply(role, table) ==
  /\ table.enabled
  /\ ~role.super /\ ~role.bypass
  /\ role.owner => table.forced

\* Two tenants with a customer each, and the rows one may try to write.
TheirCustomers == {[tenant_id |-> "A", id |-> "1"], [tenant_id |-> "B", id |-> "2"]}
AnyRow == [tenant_id : {"A", "B"}, customer_id : {"1", "2"}]

\* A key is satisfied by a row to refer to, whatever the policies hide.
Satisfies(row, key) ==
  \E there \in TheirCustomers :
    \A i \in DOMAIN key.conkey : row[key.conkey[i]] = there[key.confkey[i]]

\* Every row the keys let in refers to a customer of its own tenant.
ReferencesStayHome(table) ==
  \A row \in AnyRow :
    (\A key \in table.keys : Satisfies(row, key)) =>
      [tenant_id |-> row.tenant_id, id |-> row.customer_id] \in TheirCustomers
=============================================================================
