------------------------------ MODULE Instants ------------------------------
(***************************************************************************)
(* Instants and windows at the edges of what a datetime can hold.          *)
(*                                                                         *)
(* Time is counted in hours from the first instant of the year 1 in UTC.   *)
(* A Python datetime is a wall clock, which must stay between the first    *)
(* and the last one there is, and an offset from UTC; the driver reads a   *)
(* stored instant back as a wall clock in the time zone of the session.    *)
(***************************************************************************)
EXTENDS Integers

CONSTANTS
  LastHour,         \* bound: the last wall clock (the end of the year 9999)
  ReadBackMargin,   \* READ_BACK_MARGIN, in hours
  WidestOffset,     \* the largest offset a datetime may carry
  WidestZone        \* the largest session TimeZone the server accepts

ASSUME HoursAreWhole ==
  LastHour \in Nat /\ ReadBackMargin \in Nat /\ WidestOffset \in Nat /\ WidestZone \in Nat

\* A zone moves an instant by less than the margin, and so does an offset.
ASSUME MarginCovers == WidestZone < ReadBackMargin /\ WidestOffset < ReadBackMargin

OnTheClock(wall) == 0 <= wall /\ wall <= LastHour

\* An aware datetime: the clock reads wall where UTC reads wall - offset.
Aware(wall, offset) == [wall |-> wall, offset |-> offset]
IsAware(t) ==
  OnTheClock(t.wall) /\ -WidestOffset <= t.offset /\ t.offset <= WidestOffset
Utc(t) == t.wall - t.offset

FirstReadable == 0 + ReadBackMargin
LastReadable  == LastHour - ReadBackMargin

(***************************************************************************)
(* tokens.expiry: issued_at plus the window on its own clock, turned to    *)
(* UTC, between the two bounds.  Either step may overflow, which is the    *)
(* same refusal.                                                           *)
(***************************************************************************)
ExpiryOf(issued, hours) == Aware(issued.wall + hours, issued.offset)

\* Mutant: what reads back is judged in UTC only.
JudgedInUtc(t) == OnTheClock(Utc(t))

WithinTheBounds(t) == FirstReadable <= Utc(t) /\ Utc(t) <= LastReadable

ExpiryAccepted(issued, hours) ==
  LET t == ExpiryOf(issued, hours)
  IN  OnTheClock(t.wall) /\ OnTheClock(Utc(t)) /\ WithinTheBounds(t)

\* What the driver makes of a stored instant in a session's zone.
ReadsBack(utc, zone) == OnTheClock(utc + zone)

ReadsBackEverywhere(utc) == \A zone \in {-WidestZone, WidestZone} : ReadsBack(utc, zone)
=============================================================================
