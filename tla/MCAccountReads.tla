--------------------------- MODULE MCAccountReads ---------------------------
(***************************************************************************)
(* AccountReads on a small instance: two confirmations of one account, two *)
(* instants they may both be stated at, and one reader.                    *)
(***************************************************************************)
EXTENDS AccountReads, TLC

MCFold(a) == a

MCSymmetry ==
  Permutations(ChangeId) \cup Permutations(Confirmer) \cup Permutations(Salt)
    \cup Permutations(Address)
=============================================================================
