----------------------------- MODULE MCControls -----------------------------
(***************************************************************************)
(* Controls on a small instance: two faults in a file of the package, one  *)
(* that keeps its anchor and one as long as it, and one in a test file.    *)
(***************************************************************************)
EXTENDS Controls

MCFileOf == [c \in Control |-> IF c = "luhn" THEN "test_g13" ELSE "cli"]
MCSees == [c \in Control |-> IF c = "luhn" THEN {"test_g13"} ELSE {"cli", "test_g13"}]
=============================================================================
