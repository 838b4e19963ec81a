----------------------------- MODULE MCTenancy -----------------------------
(***************************************************************************)
(* Tenancy on a small instance: two operators and two connections.         *)
(***************************************************************************)
EXTENDS Tenancy, TLC

MCSymmetry ==
  Permutations(Tenant) \cup Permutations(Customer) \cup Permutations(Connection)
=============================================================================
