----------------------------- MODULE MCConsent -----------------------------
(***************************************************************************)
(* Consent on a small instance: two sessions, two accounts, up to two      *)
(* --channel options, one of the names unknown and one of the texts blank. *)
(***************************************************************************)
EXTENDS Consent, TLC

MCSymmetry ==
  Permutations(Customer) \cup Permutations(AcceptanceId) \cup Permutations(Session)
    \cup Permutations(Channel) \cup Permutations(Text \ {BlankText})
=============================================================================
