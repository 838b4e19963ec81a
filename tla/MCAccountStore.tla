--------------------------- MODULE MCAccountStore ---------------------------
(***************************************************************************)
(* AccountStore on small instances: two spellings of one mailbox beside    *)
(* another mailbox, one or two instants, and the doors each run names.     *)
(***************************************************************************)
EXTENDS AccountStore, TLC

MCFold(a) == IF a = "Alice@" THEN "alice@" ELSE a

AllDoors == DOMAIN Route

MCSymmetry ==
  Permutations(Customer) \cup Permutations(ChangeId) \cup Permutations(ResetId)
    \cup Permutations(Salt) \cup Permutations(Session)
=============================================================================
