----------------------------- MODULE MCCommand -----------------------------
(***************************************************************************)
(* Command on a small instance: a command and its reruns.                  *)
(***************************************************************************)
EXTENDS Command, TLC
=============================================================================
