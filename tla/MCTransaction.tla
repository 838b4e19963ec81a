---------------------------- MODULE MCTransaction ----------------------------
(***************************************************************************)
(* Transaction on two customers and a third to be: the first with a live   *)
(* change to an address that others may take, a password and a live reset. *)
(***************************************************************************)
EXTENDS Transaction, TLC

CONSTANTS c1, c2, c3, k1, k2, r1, r2, salt1, salt2, p1

MCFold(a) == IF a = "Alice@" THEN "alice@" ELSE a

Create(c, a)         == [door |-> "create_account", c |-> c, a |-> a, ref |-> NoReference]
Password(c, salt)    == [door |-> "set_password", c |-> c, p |-> p1, salt |-> salt]
Change(c, k, a, proof, window) ==
  [door |-> "start_email_change", c |-> c, k |-> k, a |-> a, proof |-> proof, at |-> 1,
   window |-> window]
Confirm(k, at)       == [door |-> "confirm_email_change", k |-> k, at |-> at]
Reset(c, r)          == [door |-> "start_password_reset", c |-> c, r |-> r, at |-> 1, window |-> 1]
Consume(r, salt)     == [door |-> "consume_password_reset", r |-> r, p |-> p1, salt |-> salt,
                         at |-> 1]
Acceptance(c)        == [door |-> "record_acceptance", c |-> c]

TwoAccounts == <<Create(c1, "alice@"), Create(c2, "bob@")>>

MCSeed == {TwoAccounts \o <<Password(c1, salt1), Change(c1, k1, "carol@", p1, 2), Reset(c1, r1)>>}

MCCall ==
  {Create(c3, "carol@"), Create(c3, "Alice@"),
   Password(c1, salt2), Password(c2, salt2),
   Change(c1, k2, "bob@", p1, 2), Change(c1, k2, "dave@", p1, 3), Change(c2, k2, "carol@", ByCaller, 2),
   Confirm(k1, 1), Confirm(k1, 3), Confirm(k2, 2),
   Reset(c1, r2), Consume(r1, salt2),
   Acceptance(c1)}

MCSymmetry == Permutations(Session)
=============================================================================
