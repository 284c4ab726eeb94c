------------------------------ MODULE Recurrence -----------------------------
(***************************************************************************)
(* The dates of a planned payment: how `next_due' advances, as the server  *)
(* computes it (domain/planned_payment.go) and as a device does            *)
(* (packages/local-data/src/recurrence.ts), and what its series is.        *)
(*                                                                         *)
(* A date is a day of the proleptic Gregorian calendar at UTC midnight.    *)
(* Days are added, and month lengths known, by the date libraries.  Years  *)
(* below 100, which the device's Date.UTC reads as 19xx, are left out: no   *)
(* user chooses them.                                                      *)
(***************************************************************************)
EXTENDS Integers

Regularities == {"daily", "weekly", "monthly", "yearly"}

LeapYear(y) == (y % 4 = 0 /\ y % 100 # 0) \/ y % 400 = 0

LastDay(y, m) ==
  IF m = 2 THEN (IF LeapYear(y) THEN 29 ELSE 28)
  ELSE IF m \in {4, 6, 9, 11} THEN 30 ELSE 31

Date ==
  {d \in [year : Nat, month : 1..12, day : 1..31] :
     d.day <= LastDay(d.year, d.month)}

Dated(y, m, d) == [year |-> y, month |-> m, day |-> d]

-----------------------------------------------------------------------------
(* Advancing.                                                              *)

\* clampDay.
ClampDay(day, y, m) == IF day > LastDay(y, m) THEN LastDay(y, m) ELSE day

\* The date n days later, n at most the length of a month (AddDate, and the
\* millisecond arithmetic of the device).
AddDays(d, n) ==
  IF d.day + n <= LastDay(d.year, d.month) THEN Dated(d.year, d.month, d.day + n)
  ELSE LET rest == d.day + n - LastDay(d.year, d.month)
       IN  IF d.month = 12 THEN Dated(d.year + 1, 1, rest)
           ELSE Dated(d.year, d.month + 1, rest)

\* Mutant: the date just reached becomes the anchor.
AdvanceNextDueMutant(nextDue, anchor, regularity) ==
  IF regularity = "daily" THEN AddDays(nextDue, 1)
  ELSE IF regularity = "weekly" THEN AddDays(nextDue, 7)
  ELSE IF regularity = "yearly"
  THEN Dated(nextDue.year + 1, nextDue.month,
             ClampDay(nextDue.day, nextDue.year + 1, nextDue.month))
  ELSE LET y == IF nextDue.month = 12 THEN nextDue.year + 1 ELSE nextDue.year
           m == IF nextDue.month = 12 THEN 1 ELSE nextDue.month + 1
       IN  Dated(y, m, ClampDay(nextDue.day, y, m))

\* AdvanceNextDue of the server.
AdvanceNextDue(nextDue, anchor, regularity) ==
  IF regularity = "daily" THEN AddDays(nextDue, 1)
  ELSE IF regularity = "weekly" THEN AddDays(nextDue, 7)
  ELSE IF regularity = "yearly"
  THEN Dated(nextDue.year + 1, anchor.month,
             ClampDay(anchor.day, nextDue.year + 1, anchor.month))
  ELSE LET y == IF nextDue.month = 12 THEN nextDue.year + 1 ELSE nextDue.year
           m == IF nextDue.month = 12 THEN 1 ELSE nextDue.month + 1
       IN  Dated(y, m, ClampDay(anchor.day, y, m))

\* advanceNextDue of a device, whose months are numbered from 0.
LocalAdvance(nextDue, anchor, regularity) ==
  IF regularity = "daily" THEN AddDays(nextDue, 1)
  ELSE IF regularity = "weekly" THEN AddDays(nextDue, 7)
  ELSE LET clamped(y, index) ==
             Dated(y, index + 1, ClampDay(anchor.day, y, index + 1))
           index == (nextDue.month - 1) + 1
       IN  IF regularity = "yearly" THEN clamped(nextDue.year + 1, anchor.month - 1)
           ELSE IF index > 11 THEN clamped(nextDue.year + 1, 0)
           ELSE clamped(nextDue.year, index)

-----------------------------------------------------------------------------
(* What a series is, stated without advancing.                             *)

\* The days before a month of a common year.
DaysBefore ==
  <<0, 31, 59, 90, 120, 151, 181, 212, 243, 273, 304, 334>>

\* The number of a day, counted from the first day of year 0.
DayNumber(d) ==
  LET y == d.year
      leaps == IF y = 0 THEN 0 ELSE (y - 1) \div 4 - (y - 1) \div 100 + (y - 1) \div 400 + 1
  IN  365 * y + leaps + DaysBefore[d.month]
        + (IF d.month > 2 /\ LeapYear(y) THEN 1 ELSE 0) + (d.day - 1)

\* The period a date lies in; a series has one date in each.
Period(d, regularity) ==
  IF regularity = "daily" THEN DayNumber(d)
  ELSE IF regularity = "weekly" THEN DayNumber(d) \div 7
  ELSE IF regularity = "monthly" THEN 12 * d.year + d.month
  ELSE d.year

\* d is a date of the series anchored at `anchor': its day, weekday, day of
\* the month or day of the year, or the last day of a month too short for it.
OnSeries(d, anchor, regularity) ==
  /\ Period(d, regularity) >= Period(anchor, regularity)
  /\ regularity = "weekly" => DayNumber(d) % 7 = DayNumber(anchor) % 7
  /\ regularity \in {"monthly", "yearly"} =>
       d.day = ClampDay(anchor.day, d.year, d.month)
  /\ regularity = "yearly" => d.month = anchor.month

\* The order of dates (`After').
OnOrBefore(d, e) ==
  \/ d.year < e.year
  \/ d.year = e.year /\ d.month < e.month
  \/ d.year = e.year /\ d.month = e.month /\ d.day <= e.day
=============================================================================
