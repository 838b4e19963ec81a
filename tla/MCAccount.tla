----------------------------- MODULE MCAccount -----------------------------
(***************************************************************************)
(* Account on a small instance: three spellings of two mailboxes, so that  *)
(* a clash of spellings, a move away and a move onto a freed address all   *)
(* happen.                                                                 *)
(***************************************************************************)
EXTENDS Account, TLC

MCFold(a) == IF a = "Alice@" THEN "alice@" ELSE a
MCAddress == {"alice@", "Alice@", "bob@"}

MCInstant == 1..2
MCWindow == {1, 3}

MCSymmetry ==
  Permutations(Customer) \cup Permutations(ChangeId) \cup Permutations(ResetId)
    \cup Permutations(Salt)
=============================================================================
