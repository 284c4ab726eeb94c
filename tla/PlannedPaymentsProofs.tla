------------------------ MODULE PlannedPaymentsProofs ------------------------
(***************************************************************************)
(* Advancing a date, for every date, anchor and regularity; and planned    *)
(* payments, for any number of devices, plans and overlapping sweeps.      *)
(***************************************************************************)
EXTENDS PlannedPayments, TLAPS

-----------------------------------------------------------------------------
(* Facts about the calendar.                                               *)

LEMMA LastDayRange ==
  ASSUME NEW y \in Nat, NEW m \in 1..12
  PROVE  LastDay(y, m) \in 28..31
BY DEF LastDay

LEMMA DatedIsDate ==
  ASSUME NEW y \in Nat, NEW m \in 1..12, NEW k \in 1..31, k <= LastDay(y, m)
  PROVE  Dated(y, m, k) \in Date
BY DEF Dated, Date

LEMMA DateFields ==
  ASSUME NEW d \in Date
  PROVE  /\ d.year \in Nat /\ d.month \in 1..12 /\ d.day \in 1..31
         /\ d.day <= LastDay(d.year, d.month)
         /\ d = Dated(d.year, d.month, d.day)
BY DEF Date, Dated

LEMMA ClampDayRange ==
  ASSUME NEW k \in 1..31, NEW y \in Nat, NEW m \in 1..12
  PROVE  ClampDay(k, y, m) \in 1..31 /\ ClampDay(k, y, m) <= LastDay(y, m)
BY LastDayRange DEF ClampDay

LEMMA AddDaysIsDate ==
  ASSUME NEW d \in Date, NEW n \in 0..28
  PROVE  AddDays(d, n) \in Date
<1> DEFINE last == LastDay(d.year, d.month)
           rest == d.day + n - last
<1>1. d.year \in Nat /\ d.month \in 1..12 /\ d.day \in 1..31 /\ d.day <= last
  BY DateFields
<1>2. last \in 28..31
  BY <1>1, LastDayRange
<1>3. CASE d.day + n <= last
  <2>1. d.day + n \in 1..31
    BY <1>1, <1>2, <1>3
  <2>2. Dated(d.year, d.month, d.day + n) \in Date
    BY <1>1, <1>3, <2>1, DatedIsDate
  <2> QED BY <1>3, <2>2 DEF AddDays
<1>4. CASE ~ d.day + n <= last
  <2>1. rest \in 1..28
    BY <1>1, <1>2, <1>4
  <2>2. rest \in 1..31
    BY <2>1
  <2>3. CASE d.month = 12
    <3>1. d.year + 1 \in Nat /\ 1 \in 1..12
      BY <1>1
    <3>2. LastDay(d.year + 1, 1) \in 28..31
      BY <3>1, LastDayRange
    <3>3. rest <= LastDay(d.year + 1, 1)
      BY <2>1, <3>2
    <3>4. Dated(d.year + 1, 1, rest) \in Date
      <4> HIDE DEF rest
      <4> QED BY <2>2, <3>1, <3>3, DatedIsDate
    <3> QED BY <1>4, <2>3, <3>4 DEF AddDays
  <2>4. CASE d.month # 12
    <3>1. d.month + 1 \in 1..12
      BY <1>1, <2>4
    <3>2. LastDay(d.year, d.month + 1) \in 28..31
      BY <1>1, <3>1, LastDayRange
    <3>3. rest <= LastDay(d.year, d.month + 1)
      BY <2>1, <3>2
    <3>4. Dated(d.year, d.month + 1, rest) \in Date
      <4> HIDE DEF rest
      <4> QED BY <1>1, <2>2, <3>1, <3>3, DatedIsDate
    <3> QED BY <1>4, <2>4, <3>4 DEF AddDays
  <2> QED BY <2>3, <2>4
<1> QED BY <1>3, <1>4

\* Advancing a date gives a date: the clamp never leaves the month, whatever
\* the anchor (AdvanceNextDue).
THEOREM AdvanceIsDate ==
  ASSUME NEW d \in Date, NEW a \in Date, NEW r \in Regularities
  PROVE  AdvanceNextDue(d, a, r) \in Date
<1>1. /\ d.year \in Nat /\ d.month \in 1..12
      /\ a.month \in 1..12 /\ a.day \in 1..31
  BY DateFields
<1>2. CASE r \in {"daily", "weekly"}
  BY <1>2, AddDaysIsDate DEF AdvanceNextDue
<1>3. CASE r = "yearly"
  <2>1. d.year + 1 \in Nat
    BY <1>1
  <2>2. Dated(d.year + 1, a.month, ClampDay(a.day, d.year + 1, a.month)) \in Date
    BY <1>1, <2>1, ClampDayRange, DatedIsDate
  <2> QED BY <1>3, <2>2 DEF AdvanceNextDue
<1>4. CASE r = "monthly"
  <2> DEFINE y == IF d.month = 12 THEN d.year + 1 ELSE d.year
             m == IF d.month = 12 THEN 1 ELSE d.month + 1
  <2>1. y \in Nat /\ m \in 1..12
    BY <1>1
  <2>2. Dated(y, m, ClampDay(a.day, y, m)) \in Date
    <3> HIDE DEF y, m
    <3> QED BY <1>1, <2>1, ClampDayRange, DatedIsDate
  <2> QED BY <1>4, <2>2 DEF AdvanceNextDue
<1> QED BY <1>2, <1>3, <1>4 DEF Regularities

\* A device computes the date the server computes (recurrence.ts: "a locally
\* confirmed plan and the server's auto job compute identical series").
THEOREM TwinsAgree ==
  ASSUME NEW d \in Date, NEW a \in Date, NEW r \in Regularities
  PROVE  LocalAdvance(d, a, r) = AdvanceNextDue(d, a, r)
<1>1. d.month \in 1..12 /\ a.month \in 1..12
  BY DateFields
<1>2. CASE r \in {"daily", "weekly"}
  BY <1>2 DEF LocalAdvance, AdvanceNextDue
<1>3. CASE r = "yearly"
  <2>1. (a.month - 1) + 1 = a.month
    BY <1>1
  <2> QED BY <1>3, <2>1 DEF LocalAdvance, AdvanceNextDue
<1>4. CASE r = "monthly"
  <2>1. CASE d.month = 12
    <3>1. (d.month - 1) + 1 > 11 /\ 0 + 1 = 1
      BY <2>1
    <3> QED BY <1>4, <2>1, <3>1 DEF LocalAdvance, AdvanceNextDue
  <2>2. CASE d.month # 12
    <3>1. ~ (d.month - 1) + 1 > 11 /\ (d.month - 1) + 1 = d.month
      BY <1>1, <2>2
    <3> QED BY <1>4, <2>2, <3>1 DEF LocalAdvance, AdvanceNextDue
  <2> QED BY <2>1, <2>2
<1> QED BY <1>2, <1>3, <1>4 DEF Regularities
(* Days, numbered.                                                         *)

\* The leap days before a year.
Leaps(y) ==
  IF y = 0 THEN 0 ELSE (y - 1) \div 4 - (y - 1) \div 100 + (y - 1) \div 400 + 1

LEMMA LeapsGrow ==
  ASSUME NEW y \in Nat
  PROVE  Leaps(y + 1) = Leaps(y) + (IF LeapYear(y) THEN 1 ELSE 0)
<1>1. CASE y = 0
  <2>1. Leaps(0) = 0 /\ Leaps(1) = 1
    BY DEF Leaps
  <2>2. LeapYear(0)
    BY DEF LeapYear
  <2> QED BY <1>1, <2>1, <2>2
<1>2. CASE y # 0
  <2>1. y \div 4 = (y - 1) \div 4 + (IF y % 4 = 0 THEN 1 ELSE 0)
    BY <1>2
  <2>2. y \div 100 = (y - 1) \div 100 + (IF y % 100 = 0 THEN 1 ELSE 0)
    BY <1>2
  <2>3. y \div 400 = (y - 1) \div 400 + (IF y % 400 = 0 THEN 1 ELSE 0)
    BY <1>2
  <2>4. (y % 400 = 0 => y % 100 = 0) /\ (y % 100 = 0 => y % 4 = 0)
    OBVIOUS
  <2>5. Leaps(y + 1) = y \div 4 - y \div 100 + y \div 400 + 1
    BY <1>2 DEF Leaps
  <2>6. Leaps(y) = (y - 1) \div 4 - (y - 1) \div 100 + (y - 1) \div 400 + 1
    BY <1>2 DEF Leaps
  <2> QED BY <1>2, <2>1, <2>2, <2>3, <2>4, <2>5, <2>6 DEF LeapYear
<1> QED BY <1>1, <1>2

\* The number of the first day of a month.
MonthStart(y, m) ==
  365 * y + Leaps(y) + DaysBefore[m] + (IF m > 2 /\ LeapYear(y) THEN 1 ELSE 0)

LEMMA MonthStartType ==
  ASSUME NEW y \in Nat, NEW m \in 1..12
  PROVE  MonthStart(y, m) \in Int
<1>1. Leaps(y) \in Int
  BY DEF Leaps
<1>2. DaysBefore[m] \in Int
  BY DEF DaysBefore
<1> QED BY <1>1, <1>2 DEF MonthStart

LEMMA DayNumberIs ==
  ASSUME NEW d \in Date
  PROVE  /\ DayNumber(d) = MonthStart(d.year, d.month) + (d.day - 1)
         /\ DayNumber(d) \in Int
<1>1. d.year \in Nat /\ d.month \in 1..12 /\ d.day \in 1..31
  BY DateFields
<1>2. DaysBefore[d.month] \in Int /\ Leaps(d.year) \in Int
  BY <1>1 DEF DaysBefore, Leaps
<1>3. DayNumber(d) = MonthStart(d.year, d.month) + (d.day - 1)
  BY <1>1, <1>2 DEF DayNumber, MonthStart, Leaps
<1> QED BY <1>1, <1>3, MonthStartType

\* A month begins on the day after the last of the month before.
LEMMA MonthsFollow ==
  ASSUME NEW y \in Nat, NEW m \in 1..11
  PROVE  MonthStart(y, m + 1) = MonthStart(y, m) + LastDay(y, m)
<1>1. Leaps(y) \in Int
  BY DEF Leaps
<1>2. DaysBefore[m + 1] + (IF m + 1 > 2 /\ LeapYear(y) THEN 1 ELSE 0) =
        DaysBefore[m] + (IF m > 2 /\ LeapYear(y) THEN 1 ELSE 0) + LastDay(y, m)
  <2>1. \/ m = 1 \/ m = 2 \/ m = 3 \/ m = 4 \/ m = 5 \/ m = 6
        \/ m = 7 \/ m = 8 \/ m = 9 \/ m = 10 \/ m = 11
    OBVIOUS
  <2> QED BY <2>1 DEF DaysBefore, LastDay
<1>3. DaysBefore[m] \in Int /\ DaysBefore[m + 1] \in Int /\ LastDay(y, m) \in Int
  BY LastDayRange DEF DaysBefore
<1> QED BY <1>1, <1>2, <1>3 DEF MonthStart

LEMMA YearsFollow ==
  ASSUME NEW y \in Nat
  PROVE  MonthStart(y + 1, 1) = MonthStart(y, 12) + 31
<1>1. Leaps(y) \in Int /\ Leaps(y + 1) = Leaps(y) + (IF LeapYear(y) THEN 1 ELSE 0)
  BY LeapsGrow DEF Leaps
<1>2. DaysBefore[1] = 0 /\ DaysBefore[12] = 334
  BY DEF DaysBefore
<1> QED BY <1>1, <1>2 DEF MonthStart

\* Adding days adds to the number of the day.
LEMMA DayNumberAdds ==
  ASSUME NEW d \in Date, NEW n \in 0..28
  PROVE  DayNumber(AddDays(d, n)) = DayNumber(d) + n
<1> DEFINE last == LastDay(d.year, d.month)
           e == AddDays(d, n)
<1>1. /\ d.year \in Nat /\ d.month \in 1..12 /\ d.day \in 1..31
      /\ last \in 28..31
  BY DateFields, LastDayRange
<1>2. /\ DayNumber(d) = MonthStart(d.year, d.month) + (d.day - 1)
      /\ DayNumber(e) = MonthStart(e.year, e.month) + (e.day - 1)
  BY AddDaysIsDate, DayNumberIs
<1>3. MonthStart(d.year, d.month) \in Int
  BY <1>1, MonthStartType
<1>4. ASSUME d.day + n <= last PROVE DayNumber(e) = DayNumber(d) + n
  <2>1. e.year = d.year /\ e.month = d.month /\ e.day = d.day + n
    BY <1>4 DEF AddDays, Dated
  <2> HIDE DEF last, e
  <2> QED BY <1>1, <1>2, <1>3, <2>1
<1>5. ASSUME ~ d.day + n <= last PROVE DayNumber(e) = DayNumber(d) + n
  <2>1. e.day = d.day + n - last
    BY <1>5 DEF AddDays, Dated
  <2>2. MonthStart(e.year, e.month) = MonthStart(d.year, d.month) + last
    <3>1. CASE d.month = 12
      <4>1. e.year = d.year + 1 /\ e.month = 1 /\ last = 31
        BY <1>5, <3>1 DEF AddDays, Dated, LastDay
      <4> HIDE DEF last, e
      <4> QED BY <1>1, <3>1, <4>1, YearsFollow
    <3>2. CASE d.month # 12
      <4>1. e.year = d.year /\ e.month = d.month + 1 /\ d.month \in 1..11
        BY <1>1, <1>5, <3>2 DEF AddDays, Dated
      <4>2. MonthStart(d.year, d.month + 1) = MonthStart(d.year, d.month) + last
        BY <1>1, <4>1, MonthsFollow
      <4> QED BY <4>1, <4>2
    <3> QED BY <3>1, <3>2
  <2> HIDE DEF last, e
  <2> QED BY <1>1, <1>2, <1>3, <2>1, <2>2
<1> QED BY <1>4, <1>5

(* Series.                                                                 *)

LEMMA PeriodType ==
  ASSUME NEW d \in Date, NEW r \in Regularities
  PROVE  Period(d, r) \in Int
<1>1. DayNumber(d) \in Int /\ d.year \in Nat /\ d.month \in 1..12
  BY DayNumberIs, DateFields
<1> QED BY <1>1 DEF Period, Regularities

\* A date begins the series it is the anchor of.
LEMMA AnchorOnSeries ==
  ASSUME NEW a \in Date, NEW r \in Regularities
  PROVE  OnSeries(a, a, r)
<1>1. Period(a, r) \in Int
  BY PeriodType
<1>2. ClampDay(a.day, a.year, a.month) = a.day
  <2>1. a.day \in 1..31 /\ a.day <= LastDay(a.year, a.month) /\ LastDay(a.year, a.month) \in Int
    BY DateFields, LastDayRange
  <2> QED BY <2>1 DEF ClampDay
<1> QED BY <1>1, <1>2 DEF OnSeries

\* No period is passed over and none is met twice: the due date moves from
\* its day, week, month or year to the next one (AdvanceNextDue), also from
\* the 31st and from February 29.
THEOREM AdvanceIsNextPeriod ==
  ASSUME NEW d \in Date, NEW a \in Date, NEW r \in Regularities
  PROVE  Period(AdvanceNextDue(d, a, r), r) = Period(d, r) + 1
<1>1. d.year \in Nat /\ d.month \in 1..12 /\ DayNumber(d) \in Int
  BY DateFields, DayNumberIs
<1>2. CASE r = "daily"
  BY <1>2, DayNumberAdds DEF AdvanceNextDue, Period
<1>3. CASE r = "weekly"
  <2>1. AdvanceNextDue(d, a, r) = AddDays(d, 7)
    BY <1>3 DEF AdvanceNextDue
  <2>2. DayNumber(AddDays(d, 7)) = DayNumber(d) + 7
    BY DayNumberAdds
  <2>3. (DayNumber(d) + 7) \div 7 = DayNumber(d) \div 7 + 1
    BY <1>1
  <2> QED BY <1>3, <2>1, <2>2, <2>3 DEF Period
<1>4. CASE r = "yearly"
  BY <1>1, <1>4 DEF AdvanceNextDue, Period, Dated
<1>5. CASE r = "monthly"
  BY <1>1, <1>5 DEF AdvanceNextDue, Period, Dated
<1> QED BY <1>2, <1>3, <1>4, <1>5 DEF Regularities

\* Advancing stays on the series of the anchor: clamping to a short month
\* never sticks, and a yearly February 29 comes back in leap years.
THEOREM AdvanceStaysOnSeries ==
  ASSUME NEW d \in Date, NEW a \in Date, NEW r \in Regularities,
         OnSeries(d, a, r)
  PROVE  OnSeries(AdvanceNextDue(d, a, r), a, r)
<1> DEFINE e == AdvanceNextDue(d, a, r)
<1>1. Period(e, r) >= Period(a, r)
  <2>1. Period(a, r) \in Int /\ Period(d, r) \in Int /\ Period(d, r) >= Period(a, r)
    BY PeriodType DEF OnSeries
  <2> QED BY <2>1, AdvanceIsNextPeriod
<1>2. ASSUME r = "weekly" PROVE DayNumber(e) % 7 = DayNumber(a) % 7
  <2>1. DayNumber(e) = DayNumber(d) + 7 /\ DayNumber(d) \in Int
    BY <1>2, DayNumberAdds, DayNumberIs DEF AdvanceNextDue
  <2>2. DayNumber(d) % 7 = DayNumber(a) % 7
    BY <1>2 DEF OnSeries
  <2> QED BY <2>1, <2>2
<1>3. ASSUME r \in {"monthly", "yearly"}
      PROVE  e.day = ClampDay(a.day, e.year, e.month)
  BY <1>3 DEF AdvanceNextDue, Dated
<1>4. ASSUME r = "yearly" PROVE e.month = a.month
  BY <1>4 DEF AdvanceNextDue, Dated
<1>5. OnSeries(e, a, r)
  <2> HIDE DEF e
  <2> QED BY <1>1, <1>2, <1>3, <1>4 DEF OnSeries
<1> QED BY <1>5

-----------------------------------------------------------------------------
USE RegularityAssumption, CalendarAssumption, BoundsAssumption

(* What the operators on plans and rows return.                            *)

LEMMA NoFieldsTyped == NoFields \in Fields /\ Absent \in Row /\ NoRow \in LocalRow
<1>1. NoFields \in Fields
  BY DEF NoFields, Fields, Series, Modes
<1> QED BY <1>1 DEF Absent, NoRow, Row, LocalRow

LEMMA NewFieldsTyped ==
  ASSUME NEW due \in Date, NEW mode \in Modes, edits \in Nat
  PROVE  NewFields(due, mode) \in Fields
BY DEF NewFields, Fields, Series

LEMMA RedatedTyped ==
  ASSUME NEW f \in Fields, NEW due \in Date, NEW mode \in Modes, edits \in Nat
  PROVE  Redated(f, due, mode) \in Fields
BY DEF Redated, SeriesOf, Fields, Series

LEMMA WrittenTyped ==
  ASSUME NEW f \in Fields
  PROVE  /\ \A r \in Row : Written(r, f) \in Row
         /\ \A r \in LocalRow : Written(r, f) \in LocalRow
<1>1. ASSUME NEW r \in Row PROVE Written(r, f) \in Row
  <2>1. PICK v \in Nat : v = r.ver + 1
    BY DEF Row
  <2> QED BY <2>1 DEF Written, Row
<1>2. ASSUME NEW r \in LocalRow PROVE Written(r, f) \in LocalRow
  <2>1. PICK v \in Nat : v = r.ver + 1
    BY DEF LocalRow
  <2> QED BY <2>1 DEF Written, LocalRow
<1> QED BY <1>1, <1>2

LEMMA TombstoneTyped ==
  /\ \A r \in Row : [r EXCEPT !.ver = @ + 1, !.deleted = TRUE] \in Row
  /\ \A r \in LocalRow : [r EXCEPT !.ver = @ + 1, !.deleted = TRUE] \in LocalRow
<1>1. ASSUME NEW r \in Row PROVE [r EXCEPT !.ver = @ + 1, !.deleted = TRUE] \in Row
  <2>1. PICK v \in Nat : v = r.ver + 1
    BY DEF Row
  <2> QED BY <2>1 DEF Row
<1>2. ASSUME NEW r \in LocalRow
      PROVE  [r EXCEPT !.ver = @ + 1, !.deleted = TRUE] \in LocalRow
  <2>1. PICK v \in Nat : v = r.ver + 1
    BY DEF LocalRow
  <2> QED BY <2>1 DEF LocalRow
<1> QED BY <1>1, <1>2

LEMMA AdvancedDate ==
  ASSUME NEW f \in Fields, NEW p \in Plan
  PROVE  /\ AdvanceNextDue(f.nextDue, f.anchorDate, Regularity[p]) \in Date
         /\ LocalAdvance(f.nextDue, f.anchorDate, Regularity[p]) =
              AdvanceNextDue(f.nextDue, f.anchorDate, Regularity[p])
<1>1. /\ f.nextDue \in Date /\ f.anchorDate \in Date
      /\ Regularity[p] \in Regularities
  BY DEF Fields
<1> QED BY <1>1, AdvanceIsDate, TwinsAgree

LEMMA AdvancedTyped ==
  ASSUME NEW r \in Row, NEW p \in Plan
  PROVE  Advanced(p, r) \in Row
<1>1. r.plan \in Fields /\ r.ver \in Nat
  BY DEF Row
<1>2. AdvanceNextDue(r.plan.nextDue, r.plan.anchorDate, Regularity[p]) \in Date
  BY <1>1, AdvancedDate
<1>3. [r.plan EXCEPT !.nextDue =
         AdvanceNextDue(@, r.plan.anchorDate, Regularity[p])] \in Fields
  BY <1>1, <1>2 DEF Fields
<1> QED BY <1>3, WrittenTyped DEF Advanced

LEMMA CopyTyped ==
  ASSUME NEW r \in LocalRow, NEW v \in Nat, NEW w \in Nat, NEW s \in Row
  PROVE  /\ ConfirmedAt(r, v) \in LocalRow
         /\ Buried(r, v) \in LocalRow
         /\ [r EXCEPT !.sv = v, !.ver = MaxOf(@, w)] \in LocalRow
         /\ [ver |-> v, sv |-> v, deleted |-> FALSE, plan |-> s.plan] \in LocalRow
BY DEF ConfirmedAt, Buried, MaxOf, LocalRow, Row

(* Type correctness.                                                       *)

LEMMA InitTyped == Init => TypeOK
<1> SUFFICES ASSUME Init PROVE TypeOK
  OBVIOUS
<1>1. Idle \in Sweep /\ NoConflict \in Conflict
  BY NoFieldsTyped DEF Idle, Sweep, NoConflict, Conflict
<1> QED BY <1>1, NoFieldsTyped DEF Init, TypeOK

LEMMA JobTyped ==
  ASSUME TypeOK, NEW j \in Sweeper,
         \/ JobLists(j) \/ JobLocks(j) \/ JobCommits(j) \/ JobAborts(j)
         \/ \E p \in Plan : JobExecutes(j, p)
  PROVE  TypeOK'
<1>1. job[j] \in Sweep
  BY DEF TypeOK
<1>2. CASE JobLists(j)
  BY <1>1, <1>2 DEF JobLists, TypeOK, Sweep, device
<1>3. CASE JobLocks(j)
  BY <1>1, <1>3 DEF JobLocks, TypeOK, Sweep, device
<1>4. CASE JobCommits(j)
  BY <1>1, <1>4, NoFieldsTyped DEF JobCommits, TypeOK, Sweep, Idle, device
<1>5. CASE JobAborts(j)
  BY <1>1, <1>5, NoFieldsTyped DEF JobAborts, TypeOK, Sweep, Idle, device
<1>6. ASSUME NEW p \in Plan, JobExecutes(j, p) PROVE TypeOK'
  <2> DEFINE r == job[j].row[p]
             b == Executed(j, p, r)
  <2>1. r \in Row
    BY <1>1 DEF Sweep
  <2>2. b \in Payment
    BY <2>1 DEF Executed, Payment, Row, Fields, Series
  <2>3. Advanced(p, r) \in Row
    BY <2>1, AdvancedTyped
  <2>4. job' = [job EXCEPT ![j].row[p] = Advanced(p, r), ![j].made = @ \cup {b}]
    BY <1>6 DEF JobExecutes
  <2> HIDE DEF b, r
  <2>5. job' \in [Sweeper -> Sweep]
    BY <1>1, <2>2, <2>3, <2>4 DEF TypeOK, Sweep
  <2> QED BY <1>6, <2>5 DEF JobExecutes, TypeOK, device
<1> QED BY <1>2, <1>3, <1>4, <1>5, <1>6

LEMMA RestTyped == ASSUME TypeOK, RestStep PROVE TypeOK'
<1>1. PICK p \in Plan :
        \/ RestDeletes(p)
        \/ \E mode \in Modes : RestUpdates(p, mode)
        \/ \E due \in DueDates : RestSetsDue(p, due)
        \/ \E due \in DueDates, mode \in Modes : RestCreates(p, due, mode)
  BY DEF RestStep
<1>2. srv[p] \in Row /\ srv[p].plan \in Fields /\ srv[p].plan.mode \in Modes
  BY DEF TypeOK, Row, Fields
<1>3. edits \in Nat /\ srv \in [Plan -> Row]
  BY DEF TypeOK
<1>4. ASSUME NEW r \in Row, srv' = [srv EXCEPT ![p] = r], edits' = edits + 1,
             UNCHANGED <<today, paid, job, device, told, aborts>>
      PROVE  TypeOK'
  BY <1>3, <1>4 DEF TypeOK, device
<1>5. CASE RestDeletes(p)
  <2>1. [srv[p] EXCEPT !.ver = @ + 1, !.deleted = TRUE] \in Row
    BY <1>2, TombstoneTyped
  <2>2. srv' = [srv EXCEPT ![p] = [srv[p] EXCEPT !.ver = @ + 1, !.deleted = TRUE]]
    BY <1>3, <1>5 DEF RestDeletes
  <2> QED BY <1>4, <1>5, <2>1, <2>2 DEF RestDeletes, UserWrites, device
<1>6. ASSUME NEW mode \in Modes, RestUpdates(p, mode) PROVE TypeOK'
  <2>1. [srv[p].plan EXCEPT !.mode = mode] \in Fields
    BY <1>2 DEF Fields
  <2>2. Written(srv[p], [srv[p].plan EXCEPT !.mode = mode]) \in Row
    BY <1>2, <2>1, WrittenTyped
  <2>3. srv' = [srv EXCEPT ![p] = Written(srv[p], [srv[p].plan EXCEPT !.mode = mode])]
    BY <1>6 DEF RestUpdates
  <2> QED BY <1>4, <1>6, <2>2, <2>3 DEF RestUpdates, UserWrites, device
<1>7. ASSUME NEW due \in DueDates, RestSetsDue(p, due) PROVE TypeOK'
  <2>1. Written(srv[p], Redated(srv[p].plan, due, srv[p].plan.mode)) \in Row
    BY <1>2, <1>3, RedatedTyped, WrittenTyped
  <2>2. srv' = [srv EXCEPT ![p] =
                  Written(srv[p], Redated(srv[p].plan, due, srv[p].plan.mode))]
    BY <1>7 DEF RestSetsDue
  <2> QED BY <1>4, <1>7, <2>1, <2>2 DEF RestSetsDue, UserWrites, device
<1>8. ASSUME NEW due \in DueDates, NEW mode \in Modes, RestCreates(p, due, mode)
      PROVE  TypeOK'
  <2>1. [ver |-> 1, deleted |-> FALSE, plan |-> NewFields(due, mode)] \in Row
    BY <1>3, NewFieldsTyped DEF Row
  <2> QED BY <1>4, <1>8, <2>1 DEF RestCreates, UserWrites, device
<1> QED BY <1>1, <1>5, <1>6, <1>7, <1>8

LEMMA UserTyped == ASSUME TypeOK, UserStep PROVE TypeOK'
<1>1. /\ edits \in Nat /\ dev \in [Device -> [Plan -> LocalRow]]
      /\ sheet \in [Device -> Sheet \cup {NoSheet}]
      /\ bills \in [Device -> SUBSET Payment]
      /\ conf \in [Device -> [Plan -> Conflict]]
  BY DEF TypeOK
<1>2. PICK d \in Device :
        \/ UserConfirms(d)
        \/ \E p \in Plan :
             \/ UserRemoves(d, p) \/ UserOpensSheet(d, p)
             \/ UserKeepsLocal(d, p) \/ UserTakesServer(d, p)
             \/ \E due \in DueDates, mode \in Modes : UserCreates(d, p, due, mode)
             \/ \E mode \in Modes :
                  \E due \in DueDates \cup {dev[d][p].plan.nextDue} :
                     UserEdits(d, p, due, mode)
  BY DEF UserStep
<1>3. ASSUME NEW p \in Plan, NEW r \in LocalRow, DeviceWrites(d, p, r),
             edits' \in Nat, aborts' = aborts,
             bills' \in [Device -> SUBSET Payment],
             sheet' \in [Device -> Sheet \cup {NoSheet}]
      PROVE  TypeOK'
  BY <1>1, <1>3 DEF DeviceWrites, server, TypeOK
<1>4. CASE UserConfirms(d)
  <2> DEFINE p == sheet[d].plan
             r == dev[d][p]
             f == [r.plan EXCEPT !.nextDue =
                     LocalAdvance(@, r.plan.anchorDate, Regularity[p])]
             b == [plan |-> p, series |-> r.plan.series.no, due |-> r.plan.nextDue,
                   dated |-> sheet[d].due, by |-> d, key |-> sheet[d].no]
  <2>1. sheet[d] \in Sheet
    BY <1>1, <1>4 DEF UserConfirms
  <2>2. p \in Plan /\ r \in LocalRow /\ r.plan \in Fields
    BY <1>1, <2>1 DEF Sheet, LocalRow
  <2>3. f \in Fields
    <3>1. LocalAdvance(r.plan.nextDue, r.plan.anchorDate, Regularity[p]) \in Date
      BY <2>2, AdvancedDate
    <3> QED BY <2>2, <3>1 DEF Fields
  <2>4. Written(r, f) \in LocalRow
    BY <2>2, <2>3, WrittenTyped
  <2>5. b \in Payment
    BY <2>1, <2>2 DEF Payment, Sheet, Fields, Series
  <2>6. /\ DeviceWrites(d, p, Written(r, f))
        /\ bills' = [bills EXCEPT ![d] = @ \cup {b}]
        /\ sheet' = [sheet EXCEPT ![d] = NoSheet]
        /\ UNCHANGED <<edits, aborts>>
    BY <1>4 DEF UserConfirms
  <2> HIDE DEF p, r, f, b
  <2> QED BY <1>1, <1>3, <2>2, <2>4, <2>5, <2>6
<1>5. ASSUME NEW p \in Plan, UserRemoves(d, p) PROVE TypeOK'
  <2>1. dev[d][p] \in LocalRow
    BY <1>1
  <2>2. [dev[d][p] EXCEPT !.ver = @ + 1, !.deleted = TRUE] \in LocalRow
    BY <2>1, TombstoneTyped
  <2> QED BY <1>1, <1>3, <1>5, <2>2, NoFieldsTyped DEF UserRemoves, UserWrites
<1>6. ASSUME NEW p \in Plan, UserOpensSheet(d, p) PROVE TypeOK'
  <2> DEFINE s == [plan |-> p, due |-> dev[d][p].plan.nextDue, no |-> edits]
  <2>1. s \in Sheet
    BY <1>1 DEF Sheet, LocalRow, Fields
  <2>2. sheet' = [sheet EXCEPT ![d] = s] /\ edits' = edits + 1 /\ aborts' = aborts
    BY <1>6 DEF UserOpensSheet, UserWrites
  <2>3. UNCHANGED <<server, dev, bills, conf, told>>
    BY <1>6 DEF UserOpensSheet
  <2> HIDE DEF s
  <2> QED BY <1>1, <2>1, <2>2, <2>3 DEF TypeOK, server
<1>7. ASSUME NEW p \in Plan, UserKeepsLocal(d, p) \/ UserTakesServer(d, p)
      PROVE  TypeOK'
  <2> DEFINE r == dev[d][p]
             s == conf[d][p].state
  <2>1. r \in LocalRow /\ s \in Row /\ s.ver \in Nat /\ s.ver + 1 \in Nat
    BY <1>1 DEF Conflict, Row
  <2>2. [r EXCEPT !.sv = s.ver, !.ver = MaxOf(@, s.ver + 1)] \in LocalRow
    BY <2>1, CopyTyped
  <2>3. /\ Buried(r, s.ver) \in LocalRow
        /\ [ver |-> s.ver, sv |-> s.ver, deleted |-> FALSE, plan |-> s.plan] \in LocalRow
    BY <2>1, CopyTyped
  <2>4. \E q \in LocalRow : dev' = [dev EXCEPT ![d][p] = q]
    <3>1. CASE UserKeepsLocal(d, p)
      <4>1. dev' = [dev EXCEPT ![d][p] = [r EXCEPT !.sv = s.ver, !.ver = MaxOf(@, s.ver + 1)]]
        BY <1>1, <3>1 DEF UserKeepsLocal
      <4> QED BY <2>2, <4>1
    <3>2. CASE UserTakesServer(d, p)
      <4>1. dev' = [dev EXCEPT ![d][p] =
              IF s.deleted THEN Buried(r, s.ver)
              ELSE [ver |-> s.ver, sv |-> s.ver, deleted |-> FALSE, plan |-> s.plan]]
        BY <1>1, <3>2 DEF UserTakesServer
      <4> QED BY <2>3, <4>1
    <3> QED BY <1>7, <3>1, <3>2
  <2>5. /\ conf' = [conf EXCEPT ![d][p] = NoConflict]
        /\ UNCHANGED <<server, bills, sheet, told, edits, aborts>>
    BY <1>7 DEF UserKeepsLocal, UserTakesServer
  <2>6. NoConflict \in Conflict
    BY NoFieldsTyped DEF NoConflict, Conflict
  <2> QED BY <1>1, <2>4, <2>5, <2>6 DEF TypeOK, server
<1>8. ASSUME NEW p \in Plan, NEW due \in DueDates, NEW mode \in Modes,
             UserCreates(d, p, due, mode)
      PROVE  TypeOK'
  <2>1. [ver |-> 1, sv |-> 0, deleted |-> FALSE, plan |-> NewFields(due, mode)] \in LocalRow
    BY <1>1, NewFieldsTyped DEF LocalRow
  <2> QED BY <1>1, <1>3, <1>8, <2>1 DEF UserCreates, UserWrites
<1>9. ASSUME NEW p \in Plan, NEW mode \in Modes,
             NEW due \in DueDates \cup {dev[d][p].plan.nextDue},
             UserEdits(d, p, due, mode)
      PROVE  TypeOK'
  <2>1. dev[d][p] \in LocalRow /\ dev[d][p].plan \in Fields /\ due \in Date
    BY <1>1 DEF LocalRow, Fields
  <2>2. Written(dev[d][p], Redated(dev[d][p].plan, due, mode)) \in LocalRow
    BY <1>1, <2>1, RedatedTyped, WrittenTyped
  <2> QED BY <1>1, <1>3, <1>9, <2>2 DEF UserEdits, UserWrites
<1> QED BY <1>2, <1>4, <1>5, <1>6, <1>7, <1>8, <1>9

LEMMA SyncTyped == ASSUME TypeOK, SyncStep PROVE TypeOK'
<1>1. PICK d \in Device :
        \/ \E b \in bills[d] : PushesBill(d, b)
        \/ \E p \in Plan :
             \/ PushesCreate(d, p) \/ PushesUpdate(d, p) \/ PushesDelete(d, p)
             \/ PushRefused(d, p) \/ PullsOver(d, p) \/ PullsAgainst(d, p)
  BY DEF SyncStep
<1>2. ASSUME NEW b \in bills[d], PushesBill(d, b) PROVE TypeOK'
  BY <1>2 DEF PushesBill, TypeOK
<1>3. ASSUME NEW p \in Plan,
             \/ PushesCreate(d, p) \/ PushesUpdate(d, p) \/ PushesDelete(d, p)
             \/ PushRefused(d, p) \/ PullsOver(d, p) \/ PullsAgainst(d, p)
      PROVE  TypeOK'
  <2> DEFINE r == dev[d][p]
             s == srv[p]
  <2>1. /\ r \in LocalRow /\ r.plan \in Fields /\ r.ver \in Nat /\ r.sv \in Nat
        /\ s \in Row /\ s.ver \in Nat /\ s.ver + 1 \in Nat /\ r.sv + 1 \in Nat
    BY DEF TypeOK, LocalRow, Row
  <2>2. ASSUME NEW q \in Row, Applied(d, p, q, r) PROVE TypeOK'
    <3>1. ConfirmedAt(r, q.ver) \in LocalRow
      BY <2>1, CopyTyped DEF Row
    <3> QED BY <2>2, <3>1 DEF Applied, TypeOK
  <2>3. ASSUME NEW q \in LocalRow, NEW kind \in {"version", "deleted"},
               ConflictOf(d, p, kind, s, q),
               UNCHANGED <<server, bills, sheet, edits, aborts>>
        PROVE  TypeOK'
    <3>1. [kind |-> kind, state |-> s] \in Conflict
      BY <2>1 DEF Conflict
    <3> QED BY <2>3, <3>1 DEF ConflictOf, TypeOK, server
  <2>4. ASSUME NEW q \in LocalRow, dev' = [dev EXCEPT ![d][p] = q],
               UNCHANGED <<server, bills, conf, sheet, told, edits, aborts>>
        PROVE  TypeOK'
    BY <2>4 DEF TypeOK, server
  <2>5. /\ Buried(r, s.ver) \in LocalRow /\ ConfirmedAt(r, s.ver) \in LocalRow
        /\ [ver |-> s.ver, sv |-> s.ver, deleted |-> FALSE, plan |-> s.plan] \in LocalRow
        /\ [r EXCEPT !.sv = s.ver, !.ver = MaxOf(@, s.ver + 1)] \in LocalRow
    BY <2>1, CopyTyped
  <2>6. CASE PushesCreate(d, p)
    <3>1. CreatedFields(r.plan) \in Fields
      BY <2>1 DEF CreatedFields, Fields
    <3>2. [ver |-> 1, deleted |-> FALSE, plan |-> CreatedFields(r.plan)] \in Row
      BY <3>1 DEF Row
    <3> QED BY <2>2, <2>6, <3>2 DEF PushesCreate
  <2>7. CASE PushesUpdate(d, p)
    <3>1. [ver |-> r.sv + 1, deleted |-> FALSE, plan |-> r.plan] \in Row
      BY <2>1 DEF Row
    <3> QED BY <2>2, <2>7, <3>1 DEF PushesUpdate
  <2>8. CASE PushesDelete(d, p)
    <3>1. [s EXCEPT !.ver = @ + 1, !.deleted = TRUE] \in Row
      BY <2>1, TombstoneTyped
    <3> QED BY <2>1, <2>2, <2>8, <3>1 DEF PushesDelete
  <2>9. CASE PushRefused(d, p)
    BY <2>1, <2>3, <2>5, <2>9 DEF PushRefused
  <2>10. CASE PullsOver(d, p)
    BY <2>4, <2>5, <2>10 DEF PullsOver
  <2>11. CASE PullsAgainst(d, p)
    BY <2>1, <2>3, <2>4, <2>5, <2>11 DEF PullsAgainst
  <2> QED BY <1>3, <2>6, <2>7, <2>8, <2>9, <2>10, <2>11
<1> QED BY <1>1, <1>2, <1>3

LEMMA StepTyped == TypeOK /\ [Next]_vars => TypeOK'
<1> SUFFICES ASSUME TypeOK, [Next]_vars PROVE TypeOK'
  OBVIOUS
<1>1. CASE DayPasses
  BY <1>1 DEF DayPasses, TypeOK
<1>2. CASE JobStep
  BY <1>2, JobTyped DEF JobStep
<1>3. CASE UNCHANGED vars
  BY <1>3 DEF vars, TypeOK
<1> QED BY <1>1, <1>2, <1>3, RestTyped, UserTyped, SyncTyped DEF Next

\* Rows, transactions, sweeps, conflicts and sheets keep their types; dates
\* stay dates of the calendar however often a plan advances.
THEOREM PlansTypeCorrect == Spec => []TypeOK
BY InitTyped, StepTyped, PTL DEF Spec

-----------------------------------------------------------------------------
(* Series and payments.  A plan is sound, given the transactions M, if its *)
(* date is on the series of its anchor and every occurrence before it has  *)
(* its transaction.  Plans are copied between the server, devices, noted   *)
(* conflicts and sweeps, so the invariant says it of every copy.           *)

Fits(p, f) == OnSeries(f.nextDue, f.anchorDate, Regularity[p])

PaidIn(p, f, M) ==
  \A q \in Period(f.series.first, Regularity[p])
          ..(Period(f.nextDue, Regularity[p]) - 1) :
    \E b \in M : /\ b.plan = p /\ b.series = f.series.no
                /\ Period(b.due, Regularity[p]) = q

Sound(p, f, M) == Fits(p, f) /\ PaidIn(p, f, M)

CopiesSound ==
  \A p \in Plan :
    /\ Sound(p, srv[p].plan, Made)
    /\ \A d \in Device : /\ Sound(p, dev[d][p].plan, Made)
                         /\ Sound(p, conf[d][p].state.plan, Made)

SweepsSound ==
  \A j \in Sweeper, p \in Plan : Sound(p, job[j].row[p].plan, Made \cup job[j].made)

SInv == TypeOK /\ CopiesSound /\ SweepsSound

LEMMA SoundGrows ==
  ASSUME NEW p, NEW f, NEW M, NEW N, M \subseteq N, Sound(p, f, M)
  PROVE  Sound(p, f, N)
BY DEF Sound, PaidIn

\* The first occurrence is sound without a transaction.
LEMMA FirstSound ==
  ASSUME NEW p \in Plan, NEW f \in Fields, NEW M,
         f.nextDue = f.series.first, f.anchorDate = f.nextDue
  PROVE  Sound(p, f, M)
<1>1. f.nextDue \in Date /\ Regularity[p] \in Regularities
  BY DEF Fields
<1>2. Fits(p, f)
  BY <1>1, AnchorOnSeries DEF Fits
<1>3. Period(f.nextDue, Regularity[p]) \in Int
  BY <1>1, PeriodType
<1>4. PaidIn(p, f, M)
  BY <1>3 DEF PaidIn
<1> QED BY <1>2, <1>4 DEF Sound

LEMMA RedatedSound ==
  ASSUME NEW p \in Plan, NEW f \in Fields, NEW due \in Date, NEW mode \in Modes,
         NEW M, Sound(p, f, M), edits \in Nat
  PROVE  Sound(p, Redated(f, due, mode), M)
<1> DEFINE g == Redated(f, due, mode)
<1>1. g \in Fields
  BY RedatedTyped
<1>2. CASE due = f.nextDue
  <2>1. g.nextDue = f.nextDue /\ g.series = f.series /\ g.anchorDate = g.nextDue
    BY <1>2 DEF Redated, SeriesOf
  <2>2. Fits(p, g)
    <3>1. g.nextDue \in Date /\ Regularity[p] \in Regularities
      BY <1>1 DEF Fields
    <3> QED BY <2>1, <3>1, AnchorOnSeries DEF Fits
  <2>3. PaidIn(p, g, M)
    BY <2>1 DEF Sound, PaidIn
  <2> QED BY <2>2, <2>3 DEF Sound
<1>3. CASE due # f.nextDue
  <2>1. g.nextDue = g.series.first /\ g.anchorDate = g.nextDue
    BY <1>3 DEF Redated, SeriesOf
  <2> QED BY <1>1, <2>1, FirstSound
<1> QED BY <1>2, <1>3

LEMMA CreatedSound ==
  ASSUME NEW p \in Plan, NEW f \in Fields, NEW M, Sound(p, f, M)
  PROVE  Sound(p, CreatedFields(f), M)
<1> DEFINE g == CreatedFields(f)
<1>1. g.nextDue = f.nextDue /\ g.series = f.series /\ g.anchorDate = f.nextDue
  BY DEF CreatedFields, Fields
<1>2. f.nextDue \in Date /\ Regularity[p] \in Regularities
  BY DEF Fields
<1>3. Fits(p, g)
  BY <1>1, <1>2, AnchorOnSeries DEF Fits
<1>4. PaidIn(p, g, M)
  BY <1>1 DEF Sound, PaidIn
<1> QED BY <1>3, <1>4 DEF Sound

\* Advancing past an occurrence with its transaction keeps a plan sound.
LEMMA AdvancedSound ==
  ASSUME NEW p \in Plan, NEW f \in Fields, NEW M, NEW b, Sound(p, f, M),
         b.plan = p, b.series = f.series.no, b.due = f.nextDue
  PROVE  Sound(p, [f EXCEPT !.nextDue = AdvanceNextDue(@, f.anchorDate, Regularity[p])],
               M \cup {b})
<1> DEFINE e == AdvanceNextDue(f.nextDue, f.anchorDate, Regularity[p])
           g == [f EXCEPT !.nextDue = e]
           r == Regularity[p]
<1>1. /\ f.nextDue \in Date /\ f.anchorDate \in Date /\ f.series.first \in Date
      /\ r \in Regularities
  BY DEF Fields, Series
<1>2. g.nextDue = e /\ g.series = f.series /\ g.anchorDate = f.anchorDate
  BY DEF Fields
<1>3. Fits(p, g)
  <2>1. OnSeries(f.nextDue, f.anchorDate, r)
    BY DEF Sound, Fits
  <2> QED BY <1>1, <1>2, <2>1, AdvanceStaysOnSeries DEF Fits
<1>4. Period(e, r) = Period(f.nextDue, r) + 1
  BY <1>1, AdvanceIsNextPeriod
<1>5. Period(f.nextDue, r) \in Int /\ Period(f.series.first, r) \in Int
  BY <1>1, PeriodType
<1>6. ASSUME NEW q \in Period(f.series.first, r)..(Period(e, r) - 1)
      PROVE  \E c \in M \cup {b} : /\ c.plan = p /\ c.series = f.series.no
                                  /\ Period(c.due, r) = q
  <2>1. CASE q = Period(f.nextDue, r)
    BY <2>1
  <2>2. CASE q # Period(f.nextDue, r)
    <3>1. q \in Period(f.series.first, r)..(Period(f.nextDue, r) - 1)
      <4> HIDE DEF e
      <4> QED BY <1>4, <1>5, <2>2
    <3> QED BY <3>1 DEF Sound, PaidIn
  <2> QED BY <2>1, <2>2
<1>7. PaidIn(p, g, M \cup {b})
  <2> HIDE DEF e, g
  <2> QED BY <1>2, <1>6 DEF PaidIn
<1> QED BY <1>3, <1>7 DEF Sound

\* Only written copies are at stake when no transaction disappears.
LEMMA WrittenCopies ==
  ASSUME SInv, Made \subseteq Made', job' = job,
         \A q \in Plan :
           /\ srv'[q].plan = srv[q].plan \/ Sound(q, srv'[q].plan, Made')
           /\ \A e \in Device :
                /\ \/ dev'[e][q].plan = dev[e][q].plan
                   \/ Sound(q, dev'[e][q].plan, Made')
                /\ \/ conf'[e][q].state.plan = conf[e][q].state.plan
                   \/ Sound(q, conf'[e][q].state.plan, Made')
  PROVE  CopiesSound' /\ SweepsSound'
<1>1. CopiesSound'
  BY SoundGrows DEF SInv, CopiesSound
<1>2. SweepsSound'
  <2> SUFFICES ASSUME NEW j \in Sweeper, NEW p \in Plan
               PROVE  Sound(p, job[j].row[p].plan, Made' \cup job[j].made)
    BY DEF SweepsSound
  <2>1. Sound(p, job[j].row[p].plan, Made \cup job[j].made)
    BY DEF SInv, SweepsSound
  <2>2. Made \cup job[j].made \subseteq Made' \cup job[j].made
    OBVIOUS
  <2> QED BY <2>1, <2>2, SoundGrows
<1> QED BY <1>1, <1>2

LEMMA InitSound == Init => CopiesSound /\ SweepsSound
<1> SUFFICES ASSUME Init, NEW p \in Plan, NEW M
             PROVE  Sound(p, NoFields, M)
  BY DEF Init, CopiesSound, SweepsSound, Absent, NoRow, NoConflict, Idle
<1>1. NoFields.nextDue = NoFields.series.first /\ NoFields.anchorDate = NoFields.nextDue
  BY DEF NoFields
<1> QED BY <1>1, NoFieldsTyped, FirstSound

LEMMA JobSound ==
  ASSUME SInv, NEW j \in Sweeper,
         \/ JobLists(j) \/ JobLocks(j) \/ JobCommits(j) \/ JobAborts(j)
         \/ \E p \in Plan : JobExecutes(j, p)
  PROVE  CopiesSound' /\ SweepsSound'
<1>1. TypeOK /\ job \in [Sweeper -> Sweep] /\ job[j] \in Sweep
  BY DEF SInv, TypeOK
<1>2. ASSUME UNCHANGED <<srv, paid, device>>,
             \A i \in Sweeper \ {j} : job'[i] = job[i],
             \A p \in Plan : Sound(p, job'[j].row[p].plan, Made \cup job'[j].made)
      PROVE  CopiesSound' /\ SweepsSound'
  <2>1. Made' = Made
    BY <1>2 DEF Made, device
  <2>2. CopiesSound'
    BY <1>2, <2>1 DEF CopiesSound, SInv, device
  <2>3. SweepsSound'
    BY <1>2, <2>1 DEF SweepsSound, SInv
  <2> QED BY <2>2, <2>3
<1>3. \A p \in Plan : \A M : Sound(p, NoFields, M)
  <2>1. NoFields.nextDue = NoFields.series.first /\ NoFields.anchorDate = NoFields.nextDue
    BY DEF NoFields
  <2> QED BY <2>1, NoFieldsTyped, FirstSound
<1>4. CASE JobLists(j)
  <2>1. job'[j].row = job[j].row /\ job'[j].made = job[j].made
    BY <1>1, <1>4 DEF JobLists, Sweep
  <2>2. \A i \in Sweeper \ {j} : job'[i] = job[i]
    BY <1>1, <1>4 DEF JobLists
  <2> QED BY <1>2, <1>4, <2>1, <2>2 DEF JobLists, SInv, SweepsSound
<1>5. CASE JobLocks(j)
  <2>1. job'[j].row = srv /\ job'[j].made = {}
    BY <1>1, <1>5 DEF JobLocks, Sweep
  <2>2. \A i \in Sweeper \ {j} : job'[i] = job[i]
    BY <1>1, <1>5 DEF JobLocks
  <2> QED BY <1>2, <1>5, <2>1, <2>2 DEF JobLocks, SInv, CopiesSound
<1>6. CASE JobAborts(j)
  <2>1. job'[j] = Idle /\ \A i \in Sweeper \ {j} : job'[i] = job[i]
    BY <1>1, <1>6 DEF JobAborts
  <2> QED BY <1>2, <1>3, <1>6, <2>1 DEF JobAborts, Idle, Absent
<1>7. ASSUME NEW p \in Plan, JobExecutes(j, p) PROVE CopiesSound' /\ SweepsSound'
  <2> DEFINE r == job[j].row[p]
             b == Executed(j, p, r)
  <2>1. r \in Row /\ r.plan \in Fields
    BY <1>1 DEF Sweep, Row
  <2>2. Sound(p, r.plan, Made \cup job[j].made)
    BY DEF SInv, SweepsSound
  <2>3. b.plan = p /\ b.series = r.plan.series.no /\ b.due = r.plan.nextDue
    BY DEF Executed
  <2>4. Sound(p, [r.plan EXCEPT !.nextDue =
                    AdvanceNextDue(@, r.plan.anchorDate, Regularity[p])],
              (Made \cup job[j].made) \cup {b})
    <3> HIDE DEF r, b
    <3> QED BY <2>1, <2>2, <2>3, AdvancedSound
  <2>5. Advanced(p, r).plan =
          [r.plan EXCEPT !.nextDue = AdvanceNextDue(@, r.plan.anchorDate, Regularity[p])]
    BY <2>1 DEF Advanced, Written, Row
  <2>6. /\ job'[j].row = [job[j].row EXCEPT ![p] = Advanced(p, r)]
        /\ job'[j].made = job[j].made \cup {b}
        /\ \A i \in Sweeper \ {j} : job'[i] = job[i]
    BY <1>1, <1>7 DEF JobExecutes, Sweep
  <2>7. job[j].row \in [Plan -> Row]
    BY <1>1 DEF Sweep
  <2> HIDE DEF r, b
  <2>8. ASSUME NEW q \in Plan
        PROVE  Sound(q, job'[j].row[q].plan, Made \cup job'[j].made)
    <3>1. Made \cup job'[j].made = (Made \cup job[j].made) \cup {b}
      BY <2>6
    <3>2. CASE q = p
      <4>1. job'[j].row[p] = Advanced(p, r)
        BY <2>6, <2>7
      <4> QED BY <2>4, <2>5, <3>1, <3>2, <4>1
    <3>3. CASE q # p
      <4>1. job'[j].row[q] = job[j].row[q]
        BY <2>6, <2>7, <3>3
      <4>2. Sound(q, job[j].row[q].plan, Made \cup job[j].made)
        BY DEF SInv, SweepsSound
      <4> QED BY <3>1, <4>1, <4>2, SoundGrows
    <3> QED BY <3>2, <3>3
  <2> QED BY <1>2, <1>7, <2>6, <2>8 DEF JobExecutes
<1>8. CASE JobCommits(j)
  <2>1. /\ srv' = job[j].row /\ paid' = paid \cup job[j].made
        /\ job'[j] = Idle /\ \A i \in Sweeper \ {j} : job'[i] = job[i]
        /\ UNCHANGED <<dev, bills, conf>>
    BY <1>1, <1>8 DEF JobCommits, device
  <2>2. Made' = Made \cup job[j].made
    BY <2>1 DEF Made
  <2>3. CopiesSound'
    <3> SUFFICES ASSUME NEW p \in Plan
                 PROVE  /\ Sound(p, job[j].row[p].plan, Made')
                        /\ \A d \in Device : /\ Sound(p, dev[d][p].plan, Made')
                                             /\ Sound(p, conf[d][p].state.plan, Made')
      BY <2>1 DEF CopiesSound
    <3>1. Sound(p, job[j].row[p].plan, Made')
      BY <2>2 DEF SInv, SweepsSound
    <3>2. Made \subseteq Made'
      BY <2>2
    <3> QED BY <3>1, <3>2, SoundGrows DEF SInv, CopiesSound
  <2>4. SweepsSound'
    <3> SUFFICES ASSUME NEW i \in Sweeper, NEW p \in Plan
                 PROVE  Sound(p, job'[i].row[p].plan, Made' \cup job'[i].made)
      BY DEF SweepsSound
    <3>1. CASE i = j
      BY <1>3, <2>1, <3>1 DEF Idle, Absent
    <3>2. CASE i # j
      <4>1. Sound(p, job[i].row[p].plan, Made \cup job[i].made)
        BY DEF SInv, SweepsSound
      <4>2. Made \cup job[i].made \subseteq Made' \cup job[i].made
        BY <2>2
      <4> QED BY <2>1, <3>2, <4>1, <4>2, SoundGrows
    <3> QED BY <3>1, <3>2
  <2> QED BY <2>3, <2>4
<1> QED BY <1>4, <1>5, <1>6, <1>7, <1>8

LEMMA RestSound == ASSUME SInv, RestStep PROVE CopiesSound' /\ SweepsSound'
<1>1. PICK p \in Plan :
        \/ RestDeletes(p)
        \/ \E mode \in Modes : RestUpdates(p, mode)
        \/ \E due \in DueDates : RestSetsDue(p, due)
        \/ \E due \in DueDates, mode \in Modes : RestCreates(p, due, mode)
  BY DEF RestStep
<1> DEFINE s == srv[p]
<1>2. /\ srv \in [Plan -> Row] /\ s \in Row /\ s.plan \in Fields
      /\ s.plan.mode \in Modes /\ edits \in Nat
  BY DEF SInv, TypeOK, Row, Fields
<1>3. Sound(p, s.plan, Made)
  BY DEF SInv, CopiesSound
<1>4. ASSUME NEW r, srv' = [srv EXCEPT ![p] = r], Sound(p, r.plan, Made),
             UNCHANGED <<paid, job, device>>
      PROVE  CopiesSound' /\ SweepsSound'
  <2>1. Made' = Made
    BY <1>4 DEF Made, device
  <2>2. \A q \in Plan : srv'[q].plan = srv[q].plan \/ Sound(q, srv'[q].plan, Made')
    BY <1>2, <1>4, <2>1
  <2> QED BY <1>4, <2>1, <2>2, WrittenCopies DEF device
<1>5. CASE RestDeletes(p)
  <2> DEFINE r == [s EXCEPT !.ver = @ + 1, !.deleted = TRUE]
  <2>1. srv' = [srv EXCEPT ![p] = r]
    BY <1>2, <1>5 DEF RestDeletes
  <2>2. r.plan = s.plan
    BY <1>2 DEF Row
  <2> HIDE DEF r
  <2> QED BY <1>3, <1>4, <1>5, <2>1, <2>2 DEF RestDeletes
<1>6. ASSUME NEW mode \in Modes, RestUpdates(p, mode) PROVE CopiesSound' /\ SweepsSound'
  <2> DEFINE g == [s.plan EXCEPT !.mode = mode]
             r == Written(s, g)
  <2>1. srv' = [srv EXCEPT ![p] = r]
    BY <1>6 DEF RestUpdates
  <2>2. r.plan = g
    BY <1>2 DEF Written, Row
  <2>3. g.nextDue = s.plan.nextDue /\ g.anchorDate = s.plan.anchorDate
        /\ g.series = s.plan.series
    BY <1>2 DEF Fields
  <2> HIDE DEF g, r
  <2>4. Sound(p, g, Made)
    BY <1>3, <2>3 DEF Sound, Fits, PaidIn
  <2> QED BY <1>4, <1>6, <2>1, <2>2, <2>4 DEF RestUpdates
<1>7. ASSUME NEW due \in DueDates, RestSetsDue(p, due) PROVE CopiesSound' /\ SweepsSound'
  <2> DEFINE g == Redated(s.plan, due, s.plan.mode)
             r == Written(s, g)
  <2>1. srv' = [srv EXCEPT ![p] = r]
    BY <1>7 DEF RestSetsDue
  <2>2. r.plan = g
    BY <1>2 DEF Written, Row
  <2>3. Sound(p, g, Made)
    BY <1>2, <1>3, RedatedSound
  <2> HIDE DEF g, r
  <2> QED BY <1>4, <1>7, <2>1, <2>2, <2>3 DEF RestSetsDue
<1>8. ASSUME NEW due \in DueDates, NEW mode \in Modes, RestCreates(p, due, mode)
      PROVE  CopiesSound' /\ SweepsSound'
  <2> DEFINE g == NewFields(due, mode)
             r == [ver |-> 1, deleted |-> FALSE, plan |-> g]
  <2>1. g \in Fields /\ g.nextDue = g.series.first /\ g.anchorDate = g.nextDue
    BY <1>2, NewFieldsTyped DEF NewFields
  <2>2. Sound(p, g, Made)
    BY <2>1, FirstSound
  <2>3. srv' = [srv EXCEPT ![p] = r] /\ r.plan = g
    BY <1>8 DEF RestCreates
  <2> HIDE DEF g, r
  <2> QED BY <1>4, <1>8, <2>2, <2>3 DEF RestCreates
<1> QED BY <1>1, <1>5, <1>6, <1>7, <1>8

LEMMA UserSound == ASSUME SInv, UserStep PROVE CopiesSound' /\ SweepsSound'
<1>1. PICK d \in Device :
        \/ UserConfirms(d)
        \/ \E p \in Plan :
             \/ UserRemoves(d, p) \/ UserOpensSheet(d, p)
             \/ UserKeepsLocal(d, p) \/ UserTakesServer(d, p)
             \/ \E due \in DueDates, mode \in Modes : UserCreates(d, p, due, mode)
             \/ \E mode \in Modes :
                  \E due \in DueDates \cup {dev[d][p].plan.nextDue} :
                     UserEdits(d, p, due, mode)
  BY DEF UserStep
<1>2. /\ dev \in [Device -> [Plan -> LocalRow]] /\ edits \in Nat
      /\ conf \in [Device -> [Plan -> Conflict]]
      /\ sheet \in [Device -> Sheet \cup {NoSheet}]
      /\ bills \in [Device -> SUBSET Payment]
  BY DEF SInv, TypeOK
<1>3. \A p \in Plan : \A M : Sound(p, NoFields, M)
  <2>1. NoFields.nextDue = NoFields.series.first /\ NoFields.anchorDate = NoFields.nextDue
    BY DEF NoFields
  <2> QED BY <2>1, NoFieldsTyped, FirstSound
<1>4. ASSUME NEW p \in Plan, NEW r, dev' = [dev EXCEPT ![d][p] = r],
             Sound(p, r.plan, Made'), Made \subseteq Made', UNCHANGED <<srv, job>>,
             conf' = conf \/ conf' = [conf EXCEPT ![d][p] = NoConflict]
      PROVE  CopiesSound' /\ SweepsSound'
  <2>1. \A e \in Device, q \in Plan :
          dev'[e][q].plan = dev[e][q].plan \/ Sound(q, dev'[e][q].plan, Made')
    BY <1>2, <1>4
  <2>2. \A e \in Device, q \in Plan :
          \/ conf'[e][q].state.plan = conf[e][q].state.plan
          \/ conf'[e][q].state.plan = NoFields
    <3>1. \A e \in Device, q \in Plan :
            conf'[e][q] = conf[e][q] \/ conf'[e][q] = NoConflict
      <4>1. CASE conf' = conf
        BY <4>1
      <4>2. CASE conf' = [conf EXCEPT ![d][p] = NoConflict]
        BY <1>2, <4>2
      <4> QED BY <1>4, <4>1, <4>2
    <3> QED BY <3>1 DEF NoConflict, Absent
  <2> QED BY <1>3, <1>4, <2>1, <2>2, WrittenCopies
<1>5. CASE UserConfirms(d)
  <2> DEFINE p == sheet[d].plan
             r == dev[d][p]
             g == [r.plan EXCEPT !.nextDue =
                     LocalAdvance(@, r.plan.anchorDate, Regularity[p])]
             b == [plan |-> p, series |-> r.plan.series.no, due |-> r.plan.nextDue,
                   dated |-> sheet[d].due, by |-> d, key |-> sheet[d].no]
  <2>1. sheet[d] \in Sheet
    BY <1>2, <1>5 DEF UserConfirms
  <2>2. p \in Plan /\ r \in LocalRow /\ r.plan \in Fields
    BY <1>2, <2>1 DEF Sheet, LocalRow
  <2>3. b.plan = p /\ b.series = r.plan.series.no /\ b.due = r.plan.nextDue
    OBVIOUS
  <2>4. Sound(p, g, Made \cup {b})
    <3>1. Sound(p, r.plan, Made)
      BY <2>2 DEF SInv, CopiesSound
    <3>2. g = [r.plan EXCEPT !.nextDue =
                 AdvanceNextDue(@, r.plan.anchorDate, Regularity[p])]
      BY <2>2, AdvancedDate
    <3> HIDE DEF p, r, g, b
    <3> QED BY <2>2, <2>3, <3>1, <3>2, AdvancedSound
  <2>5. /\ dev' = [dev EXCEPT ![d][p] = Written(r, g)]
        /\ bills' = [bills EXCEPT ![d] = @ \cup {b}]
        /\ UNCHANGED <<srv, job, conf, paid>>
    BY <1>5 DEF UserConfirms, DeviceWrites, server
  <2>6. Written(r, g).plan = g
    BY <2>2 DEF Written, LocalRow
  <2> HIDE DEF p, r, g, b
  <2>7. Made' = Made \cup {b}
    BY <1>2, <2>5 DEF Made
  <2> QED BY <1>4, <2>2, <2>4, <2>5, <2>6, <2>7
<1>6. ASSUME NEW p \in Plan, UserRemoves(d, p) PROVE CopiesSound' /\ SweepsSound'
  <2> DEFINE r == dev[d][p]
             t == [r EXCEPT !.ver = @ + 1, !.deleted = TRUE]
  <2>1. t.plan = r.plan /\ NoRow.plan = NoFields
    BY <1>2 DEF LocalRow, NoRow
  <2>2. Sound(p, r.plan, Made)
    BY DEF SInv, CopiesSound
  <2>3. dev' = [dev EXCEPT ![d][p] = IF r.sv = 0 THEN NoRow ELSE t]
    BY <1>6 DEF UserRemoves, DeviceWrites
  <2>4. Made' = Made /\ UNCHANGED <<srv, job, conf>>
    BY <1>6 DEF UserRemoves, DeviceWrites, server, Made
  <2> HIDE DEF t
  <2> QED BY <1>3, <1>4, <2>1, <2>2, <2>3, <2>4
<1>7. ASSUME NEW p \in Plan, UserOpensSheet(d, p) PROVE CopiesSound' /\ SweepsSound'
  <2>1. UNCHANGED <<srv, job, dev, conf>> /\ Made' = Made
    BY <1>7 DEF UserOpensSheet, server, Made
  <2> QED BY <2>1, WrittenCopies
<1>8. ASSUME NEW p \in Plan, UserKeepsLocal(d, p) PROVE CopiesSound' /\ SweepsSound'
  <2> DEFINE r == dev[d][p]
             v == conf[d][p].state.ver
             q == [r EXCEPT !.sv = v, !.ver = MaxOf(@, v + 1)]
  <2>1. q.plan = r.plan
    BY <1>2 DEF LocalRow
  <2>2. Sound(p, r.plan, Made)
    BY DEF SInv, CopiesSound
  <2>3. dev' = [dev EXCEPT ![d][p] = q]
    BY <1>2, <1>8 DEF UserKeepsLocal
  <2>4. /\ Made' = Made /\ UNCHANGED <<srv, job>>
        /\ conf' = [conf EXCEPT ![d][p] = NoConflict]
    BY <1>8 DEF UserKeepsLocal, server, Made
  <2> HIDE DEF q
  <2> QED BY <1>4, <2>1, <2>2, <2>3, <2>4
<1>9. ASSUME NEW p \in Plan, UserTakesServer(d, p) PROVE CopiesSound' /\ SweepsSound'
  <2> DEFINE r == dev[d][p]
             s == conf[d][p].state
             q == IF s.deleted THEN Buried(r, s.ver)
                  ELSE [ver |-> s.ver, sv |-> s.ver, deleted |-> FALSE, plan |-> s.plan]
  <2>1. q.plan = r.plan \/ q.plan = s.plan
    BY <1>2 DEF Buried, LocalRow
  <2>2. Sound(p, r.plan, Made) /\ Sound(p, s.plan, Made)
    BY DEF SInv, CopiesSound
  <2>3. dev' = [dev EXCEPT ![d][p] = q]
    BY <1>2, <1>9 DEF UserTakesServer
  <2>4. /\ Made' = Made /\ UNCHANGED <<srv, job>>
        /\ conf' = [conf EXCEPT ![d][p] = NoConflict]
    BY <1>9 DEF UserTakesServer, server, Made
  <2> HIDE DEF q, s
  <2> QED BY <1>4, <2>1, <2>2, <2>3, <2>4
<1>10. ASSUME NEW p \in Plan, NEW due \in DueDates, NEW mode \in Modes,
              UserCreates(d, p, due, mode)
       PROVE  CopiesSound' /\ SweepsSound'
  <2> DEFINE g == NewFields(due, mode)
             r == [ver |-> 1, sv |-> 0, deleted |-> FALSE, plan |-> g]
  <2>1. g \in Fields /\ g.nextDue = g.series.first /\ g.anchorDate = g.nextDue
    BY <1>2, NewFieldsTyped DEF NewFields
  <2>2. Sound(p, g, Made)
    BY <2>1, FirstSound
  <2>3. dev' = [dev EXCEPT ![d][p] = r] /\ r.plan = g
    BY <1>10 DEF UserCreates, DeviceWrites
  <2>4. Made' = Made /\ UNCHANGED <<srv, job, conf>>
    BY <1>10 DEF UserCreates, DeviceWrites, server, Made
  <2> HIDE DEF g, r
  <2> QED BY <1>4, <2>2, <2>3, <2>4
<1>11. ASSUME NEW p \in Plan, NEW mode \in Modes,
              NEW due \in DueDates \cup {dev[d][p].plan.nextDue},
              UserEdits(d, p, due, mode)
       PROVE  CopiesSound' /\ SweepsSound'
  <2> DEFINE r == dev[d][p]
             g == Redated(r.plan, due, mode)
  <2>1. r \in LocalRow /\ r.plan \in Fields /\ due \in Date
    BY <1>2 DEF LocalRow, Fields
  <2>2. Sound(p, r.plan, Made)
    BY DEF SInv, CopiesSound
  <2>3. Sound(p, g, Made)
    BY <1>2, <2>1, <2>2, RedatedSound
  <2>4. Written(r, g).plan = g
    BY <2>1 DEF Written, LocalRow
  <2>5. dev' = [dev EXCEPT ![d][p] = Written(r, g)]
    BY <1>11 DEF UserEdits, DeviceWrites
  <2>6. Made' = Made /\ UNCHANGED <<srv, job, conf>>
    BY <1>11 DEF UserEdits, DeviceWrites, server, Made
  <2> HIDE DEF g
  <2> QED BY <1>4, <2>3, <2>4, <2>5, <2>6
<1> QED BY <1>1, <1>5, <1>6, <1>7, <1>8, <1>9, <1>10, <1>11

LEMMA SyncSound == ASSUME SInv, SyncStep PROVE CopiesSound' /\ SweepsSound'
<1>1. PICK d \in Device :
        \/ \E b \in bills[d] : PushesBill(d, b)
        \/ \E p \in Plan :
             \/ PushesCreate(d, p) \/ PushesUpdate(d, p) \/ PushesDelete(d, p)
             \/ PushRefused(d, p) \/ PullsOver(d, p) \/ PullsAgainst(d, p)
  BY DEF SyncStep
<1>2. /\ dev \in [Device -> [Plan -> LocalRow]] /\ srv \in [Plan -> Row]
      /\ conf \in [Device -> [Plan -> Conflict]]
      /\ bills \in [Device -> SUBSET Payment]
  BY DEF SInv, TypeOK
<1>3. ASSUME NEW b \in bills[d], PushesBill(d, b) PROVE CopiesSound' /\ SweepsSound'
  <2>1. /\ bills' = [bills EXCEPT ![d] = @ \ {b}] /\ paid' = paid \cup {b}
        /\ UNCHANGED <<srv, job, dev, conf>>
    BY <1>3 DEF PushesBill
  <2>2. Made \subseteq Made'
    <3> SUFFICES ASSUME NEW c \in Made PROVE c \in Made'
      OBVIOUS
    <3>1. CASE c \in paid \/ c = b
      BY <2>1, <3>1 DEF Made
    <3>2. CASE c \notin paid /\ c # b
      <4>1. PICK e \in Device : c \in bills[e]
        BY <3>2 DEF Made
      <4>2. c \in bills'[e]
        BY <1>2, <2>1, <3>2, <4>1
      <4> QED BY <4>2 DEF Made
    <3> QED BY <3>1, <3>2
  <2> QED BY <2>1, <2>2, WrittenCopies
<1>4. ASSUME NEW p \in Plan,
             \/ PushesCreate(d, p) \/ PushesUpdate(d, p) \/ PushesDelete(d, p)
             \/ PushRefused(d, p) \/ PullsOver(d, p) \/ PullsAgainst(d, p)
      PROVE  CopiesSound' /\ SweepsSound'
  <2> DEFINE r == dev[d][p]
             s == srv[p]
  <2>1. r \in LocalRow /\ r.plan \in Fields /\ s \in Row
    BY <1>2 DEF LocalRow
  <2>2. Sound(p, r.plan, Made) /\ Sound(p, s.plan, Made)
    BY DEF SInv, CopiesSound
  <2>3. Made' = Made /\ job' = job
    BY <1>4 DEF PushesCreate, PushesUpdate, PushesDelete, Applied, PushRefused,
                PullsOver, PullsAgainst, server, Made
  <2>4. /\ \A v : ConfirmedAt(r, v).plan = r.plan /\ Buried(r, v).plan = r.plan
        /\ \A v, w : [r EXCEPT !.sv = v, !.ver = w].plan = r.plan
    BY <2>1 DEF ConfirmedAt, Buried, LocalRow
  <2>5. ASSUME NEW q, dev' = [dev EXCEPT ![d][p] = q], Sound(p, q.plan, Made),
               \/ conf' = conf
               \/ \E kind : conf' = [conf EXCEPT ![d][p] = [kind |-> kind, state |-> s]],
               \/ srv' = srv
               \/ \E t : srv' = [srv EXCEPT ![p] = t] /\ Sound(p, t.plan, Made)
        PROVE  CopiesSound' /\ SweepsSound'
    <3>1. \A e \in Device, o \in Plan :
            dev'[e][o].plan = dev[e][o].plan \/ Sound(o, dev'[e][o].plan, Made)
      BY <1>2, <2>5
    <3>2. \A e \in Device, o \in Plan :
            \/ conf'[e][o].state.plan = conf[e][o].state.plan
            \/ Sound(o, conf'[e][o].state.plan, Made)
      <4> SUFFICES ASSUME NEW e \in Device, NEW o \in Plan
                   PROVE  \/ conf'[e][o] = conf[e][o]
                          \/ o = p /\ conf'[e][o].state = s
        BY <2>2
      <4>1. CASE e = d /\ o = p
        BY <1>2, <2>5, <4>1
      <4>2. CASE ~ (e = d /\ o = p)
        BY <1>2, <2>5, <4>2
      <4> QED BY <4>1, <4>2
    <3>3. \A o \in Plan : srv'[o].plan = srv[o].plan \/ Sound(o, srv'[o].plan, Made)
      BY <1>2, <2>5
    <3> QED BY <2>3, <3>1, <3>2, <3>3, WrittenCopies
  <2>6. ASSUME NEW t, Applied(d, p, t, r), Sound(p, t.plan, Made)
        PROVE  CopiesSound' /\ SweepsSound'
    <3>1. /\ srv' = [srv EXCEPT ![p] = t] /\ conf' = conf
          /\ dev' = [dev EXCEPT ![d][p] = ConfirmedAt(r, t.ver)]
      BY <2>6 DEF Applied
    <3> QED BY <2>2, <2>4, <2>5, <2>6, <3>1
  <2>7. CASE PushesCreate(d, p)
    <3> DEFINE t == [ver |-> 1, deleted |-> FALSE, plan |-> CreatedFields(r.plan)]
    <3>1. Sound(p, t.plan, Made)
      BY <2>1, <2>2, CreatedSound
    <3> QED BY <2>6, <2>7, <3>1 DEF PushesCreate
  <2>8. CASE PushesUpdate(d, p)
    BY <2>2, <2>6, <2>8 DEF PushesUpdate
  <2>9. CASE PushesDelete(d, p)
    <3> DEFINE t == [s EXCEPT !.ver = @ + 1, !.deleted = TRUE]
    <3>1. t.plan = s.plan
      BY <2>1 DEF Row
    <3>2. Applied(d, p, IF Live(s) THEN t ELSE s, r)
      BY <2>9 DEF PushesDelete
    <3> HIDE DEF t, s, r
    <3> QED BY <2>2, <2>6, <3>1, <3>2
  <2>10. CASE PushRefused(d, p)
    <3>1. PICK kind : \/ ConflictOf(d, p, kind, s, Buried(r, s.ver))
                      \/ ConflictOf(d, p, kind, s, r)
      BY <2>10 DEF PushRefused
    <3>2. srv' = srv
      BY <2>10 DEF PushRefused, server
    <3> QED BY <2>2, <2>4, <2>5, <3>1, <3>2 DEF ConflictOf
  <2>11. CASE PullsOver(d, p)
    <3> DEFINE q == IF s.deleted THEN Buried(r, s.ver)
                    ELSE [ver |-> s.ver, sv |-> s.ver, deleted |-> FALSE, plan |-> s.plan]
    <3>1. dev' = [dev EXCEPT ![d][p] = q] /\ conf' = conf /\ srv' = srv
      BY <2>11 DEF PullsOver, server
    <3>2. Sound(p, q.plan, Made)
      BY <2>2, <2>4
    <3> HIDE DEF q
    <3> QED BY <2>5, <3>1, <3>2
  <2>12. CASE PullsAgainst(d, p)
    <3> DEFINE risen == [r EXCEPT !.sv = s.ver, !.ver = MaxOf(@, s.ver + 1)]
    <3>1. srv' = srv
      BY <2>12 DEF PullsAgainst, server
    <3>2. \/ dev' = [dev EXCEPT ![d][p] = ConfirmedAt(r, s.ver)] /\ conf' = conf
          \/ \E kind : \/ ConflictOf(d, p, kind, s, Buried(r, s.ver))
                       \/ ConflictOf(d, p, kind, s, risen)
                       \/ ConflictOf(d, p, kind, s, r)
      BY <2>12 DEF PullsAgainst
    <3>3. risen.plan = r.plan
      BY <2>4
    <3> HIDE DEF risen
    <3> QED BY <2>2, <2>4, <2>5, <3>1, <3>2, <3>3 DEF ConflictOf
  <2> QED BY <1>4, <2>7, <2>8, <2>9, <2>10, <2>11, <2>12
<1> QED BY <1>1, <1>3, <1>4

LEMMA StepSound == SInv /\ [Next]_vars => SInv'
<1> SUFFICES ASSUME SInv, [Next]_vars PROVE SInv'
  OBVIOUS
<1>1. TypeOK'
  BY StepTyped DEF SInv
<1>2. CASE DayPasses \/ UNCHANGED vars
  <2>1. UNCHANGED <<srv, job, dev, conf>> /\ Made' = Made
    BY <1>2 DEF DayPasses, vars, Made
  <2> QED BY <1>1, <2>1, WrittenCopies DEF SInv
<1>3. CASE JobStep
  BY <1>1, <1>3, JobSound DEF JobStep, SInv
<1> QED BY <1>1, <1>2, <1>3, RestSound, UserSound, SyncSound DEF Next, SInv

LEMMA SoundAlways == Spec => []SInv
<1>1. Init => SInv
  BY InitTyped, InitSound DEF SInv
<1> QED BY <1>1, StepSound, PTL DEF Spec

\* A due date never drifts off the series of its anchor, however devices, the
\* job and the REST writes advance, copy and overwrite the plan (advanceNextDue
\* and AdvanceNextDue).
THEOREM SeriesNeverDrifts == Spec => []DueOnSeries
<1>1. SInv => DueOnSeries
  BY DEF SInv, CopiesSound, Sound, Fits, DueOnSeries
<1> QED BY <1>1, SoundAlways, PTL

\* No occurrence is skipped: wherever a plan stands, each occurrence it was
\* advanced past has its transaction - through rolled back sweeps, conflicts
\* and the choices of users (executeOccurrence, confirmPlannedPayment).
THEOREM NoOccurrenceSkipped == Spec => []NoneMissed
<1>1. SInv => NoneMissed
  BY DEF SInv, CopiesSound, Sound, PaidIn, PaidUpTo, NoneMissed
<1> QED BY <1>1, SoundAlways, PTL

-----------------------------------------------------------------------------
(* The line of a plan.  While no conflict has been recorded about it and   *)
(* it is not deleted, its versions are one line on which series and dates  *)
(* only move on; a device is on it until the server goes on without it.    *)

\* Occurrence b was passed before plan p stood at f.
Before(b, f, p) ==
  \/ b.series < f.series.no
  \/ /\ b.series = f.series.no
     /\ Period(b.due, Regularity[p]) < Period(f.nextDue, Regularity[p])

\* Plan p moved on from f to g, or stayed.
Onward(f, g, p) ==
  \/ f.series.no < g.series.no
  \/ /\ f.series = g.series
     /\ OnOrBefore(f.nextDue, g.nextDue)
     /\ Period(f.nextDue, Regularity[p]) <= Period(g.nextDue, Regularity[p])

Twin(b, c, p) ==
  /\ b.series = c.series
  /\ Period(b.due, Regularity[p]) = Period(c.due, Regularity[p])

LEMMA FieldsParts ==
  ASSUME NEW f \in Fields, NEW p \in Plan
  PROVE  /\ f.nextDue \in Date /\ f.anchorDate \in Date /\ f.series.no \in Nat
         /\ Regularity[p] \in Regularities
         /\ Period(f.nextDue, Regularity[p]) \in Int
<1>1. f.nextDue \in Date /\ f.anchorDate \in Date /\ f.series.no \in Nat
  BY DEF Fields, Series
<1>2. Regularity[p] \in Regularities
  OBVIOUS
<1> QED BY <1>1, <1>2, PeriodType

LEMMA PaymentParts ==
  ASSUME NEW b \in Payment, NEW p \in Plan
  PROVE  b.series \in Nat /\ Period(b.due, Regularity[p]) \in Int
<1>1. b.series \in Nat /\ b.due \in Date /\ Regularity[p] \in Regularities
  BY DEF Payment
<1> QED BY <1>1, PeriodType

LEMMA DatesOrdered ==
  ASSUME NEW d \in Date, NEW e \in Date, NEW f \in Date,
         OnOrBefore(d, e), OnOrBefore(e, f)
  PROVE  OnOrBefore(d, f) /\ OnOrBefore(d, d)
<1>1. /\ d.year \in Nat /\ d.month \in Nat /\ d.day \in Nat
      /\ e.year \in Nat /\ e.month \in Nat /\ e.day \in Nat
      /\ f.year \in Nat /\ f.month \in Nat /\ f.day \in Nat
  BY DEF Date
<1> QED BY <1>1 DEF OnOrBefore

LEMMA DateOnItself == ASSUME NEW d \in Date PROVE OnOrBefore(d, d)
BY DEF OnOrBefore, Date

\* A date never moves back when it is advanced.
LEMMA AdvanceIsLater ==
  ASSUME NEW d \in Date, NEW a \in Date, NEW r \in Regularities
  PROVE  OnOrBefore(d, AdvanceNextDue(d, a, r))
<1>1. /\ d.year \in Nat /\ d.month \in 1..12 /\ d.day \in 1..31
      /\ a.month \in 1..12 /\ a.day \in 1..31
  BY DateFields
<1>2. ASSUME NEW n \in {1, 7} PROVE OnOrBefore(d, AddDays(d, n))
  <2>1. CASE d.day + n <= LastDay(d.year, d.month)
    BY <1>1, <2>1 DEF AddDays, Dated, OnOrBefore
  <2>2. CASE ~ (d.day + n <= LastDay(d.year, d.month))
    BY <1>1, <2>2 DEF AddDays, Dated, OnOrBefore
  <2> QED BY <2>1, <2>2
<1>3. CASE r \in {"daily", "weekly"}
  BY <1>2, <1>3 DEF AdvanceNextDue
<1>4. CASE r = "yearly"
  BY <1>1, <1>4 DEF AdvanceNextDue, Dated, OnOrBefore
<1>5. CASE r = "monthly"
  BY <1>1, <1>5 DEF AdvanceNextDue, Dated, OnOrBefore
<1> QED BY <1>3, <1>4, <1>5 DEF Regularities

LEMMA OnwardSame ==
  ASSUME NEW f \in Fields, NEW g \in Fields, NEW p \in Plan,
         g.series = f.series, g.nextDue = f.nextDue
  PROVE  Onward(f, g, p)
BY FieldsParts, DateOnItself DEF Onward

LEMMA OnwardTwice ==
  ASSUME NEW f \in Fields, NEW g \in Fields, NEW h \in Fields, NEW p \in Plan,
         Onward(f, g, p), Onward(g, h, p)
  PROVE  Onward(f, h, p)
<1>1. /\ f.series.no \in Nat /\ Period(f.nextDue, Regularity[p]) \in Int
      /\ g.series.no \in Nat /\ Period(g.nextDue, Regularity[p]) \in Int
      /\ h.series.no \in Nat /\ Period(h.nextDue, Regularity[p]) \in Int
      /\ f.nextDue \in Date /\ g.nextDue \in Date /\ h.nextDue \in Date
  BY FieldsParts
<1>2. CASE f.series.no < g.series.no \/ g.series.no < h.series.no
  BY <1>1, <1>2 DEF Onward
<1>3. CASE ~ (f.series.no < g.series.no \/ g.series.no < h.series.no)
  <2>1. OnOrBefore(f.nextDue, h.nextDue)
    BY <1>1, <1>3, DatesOrdered DEF Onward
  <2> QED BY <1>1, <1>3, <2>1 DEF Onward
<1> QED BY <1>2, <1>3

LEMMA BeforeOnward ==
  ASSUME NEW f \in Fields, NEW g \in Fields, NEW p \in Plan, NEW b \in Payment,
         Before(b, f, p), Onward(f, g, p)
  PROVE  Before(b, g, p)
<1>1. /\ f.series.no \in Nat /\ Period(f.nextDue, Regularity[p]) \in Int
      /\ g.series.no \in Nat /\ Period(g.nextDue, Regularity[p]) \in Int
      /\ b.series \in Nat /\ Period(b.due, Regularity[p]) \in Int
  BY FieldsParts, PaymentParts
<1> QED BY <1>1 DEF Before, Onward

\* The occurrence a plan is at is passed when it moves on, not before.
LEMMA PaidAtItsDate ==
  ASSUME NEW f \in Fields, NEW g \in Fields, NEW p \in Plan, NEW b \in Payment,
         b.series = g.series.no, b.due = g.nextDue, Onward(f, g, p)
  PROVE  ~ Before(b, f, p) /\ ~ Before(b, g, p)
<1>1. /\ f.series.no \in Nat /\ Period(f.nextDue, Regularity[p]) \in Int
      /\ g.series.no \in Nat /\ Period(g.nextDue, Regularity[p]) \in Int
  BY FieldsParts
<1> QED BY <1>1 DEF Before, Onward

LEMMA TwinsBefore ==
  ASSUME NEW b \in Payment, NEW c \in Payment, NEW f \in Fields, NEW p \in Plan,
         Twin(b, c, p), Before(b, f, p)
  PROVE  Before(c, f, p)
BY DEF Twin, Before

LEMMA AdvancedMovesOn ==
  ASSUME NEW f \in Fields, NEW p \in Plan
  PROVE  LET g == [f EXCEPT !.nextDue = AdvanceNextDue(@, f.anchorDate, Regularity[p])]
         IN  /\ g \in Fields /\ g.series = f.series /\ Onward(f, g, p)
             /\ \A b \in Payment :
                  b.series = f.series.no /\ b.due = f.nextDue => Before(b, g, p)
<1> DEFINE e == AdvanceNextDue(f.nextDue, f.anchorDate, Regularity[p])
           g == [f EXCEPT !.nextDue = e]
<1>1. e \in Date
  BY AdvancedDate
<1>2. g \in Fields /\ g.series = f.series /\ g.nextDue = e
  BY <1>1 DEF Fields
<1>3. /\ Period(e, Regularity[p]) = Period(f.nextDue, Regularity[p]) + 1
      /\ OnOrBefore(f.nextDue, e)
  BY FieldsParts, AdvanceIsNextPeriod, AdvanceIsLater
<1>4. Period(f.nextDue, Regularity[p]) \in Int
  BY FieldsParts
<1> HIDE DEF e, g
<1>5. Onward(f, g, p)
  BY <1>2, <1>3, <1>4 DEF Onward
<1>6. \A b \in Payment :
        b.series = f.series.no /\ b.due = f.nextDue => Before(b, g, p)
  BY <1>2, <1>3, <1>4 DEF Before
<1> QED BY <1>2, <1>5, <1>6 DEF g, e

LEMMA RedatedMovesOn ==
  ASSUME NEW f \in Fields, NEW p \in Plan, NEW due \in Date, NEW mode \in Modes,
         edits \in Nat, f.series.no <= edits
  PROVE  LET g == Redated(f, due, mode)
         IN  g \in Fields /\ Onward(f, g, p) /\ g.series.no <= edits + 1
<1> DEFINE g == Redated(f, due, mode)
<1>1. g \in Fields /\ g.nextDue = due /\ g.series = SeriesOf(f, due)
  BY RedatedTyped DEF Redated
<1>2. f.series.no \in Nat
  BY FieldsParts
<1>3. CASE due = f.nextDue
  <2>1. g.series = f.series /\ g.nextDue = f.nextDue
    BY <1>1, <1>3 DEF SeriesOf
  <2>2. Onward(f, g, p)
    <3> HIDE DEF g
    <3> QED BY <1>1, <2>1, OnwardSame
  <2> QED BY <1>1, <1>2, <2>1, <2>2
<1>4. CASE due # f.nextDue
  <2>1. g.series.no = edits + 1
    BY <1>1, <1>4 DEF SeriesOf
  <2> QED BY <1>1, <1>2, <2>1 DEF Onward
<1> QED BY <1>3, <1>4

LEMMA NewSeriesMovesOn ==
  ASSUME NEW g \in Fields, NEW p \in Plan, NEW n \in Nat, g.series.no = n + 1,
         NEW b \in Payment, b.series <= n
  PROVE  Before(b, g, p)
BY PaymentParts DEF Before


Dirty(r) == r.ver > 0 /\ ~ Clean(r)

\* The parts of the line of plan p: s is the server's row, R the rows of the
\* devices, B the payments made from p, n the number of edits so far.

\* Series are counted by the edits.
Counted(s, R, B, n) ==
  /\ s.ver > 0 => s.plan.series.no <= n
  /\ \A d \in Device : R[d].ver > 0 => R[d].plan.series.no <= n
  /\ \A b \in B : b.series <= n

\* A device is past what it has paid itself, and pays nothing twice.
OwnPast(R, B, p) ==
  \A d \in Device : \A b \in B :
    b.by = d =>
      /\ R[d].ver > 0 => Before(b, R[d].plan, p)
      /\ \A c \in B : c.by = d /\ Twin(b, c, p) => b = c

\* A plan the server does not know is one device's.
Unborn(s, R, B, p) ==
  s.ver = 0 =>
    /\ \A d \in Device : R[d].ver > 0 => \A b \in B : Before(b, R[d].plan, p)
    /\ \A b \in B, c \in B : Twin(b, c, p) => b = c

\* The server is past what is paid, if not by a device that has still to
\* push the plan.
Accounted(s, R, B, p) ==
  s.ver > 0 =>
    \A b \in B : Before(b, s.plan, p) \/ \E d \in Device : b.by = d /\ Dirty(R[d])

\* A device that paid b has a plan to push that the server will refuse, or
\* delete, or that is the first to be past b.
Excused(s, R, b, p) ==
  \E d \in Device :
    /\ b.by = d /\ Dirty(R[d])
    /\ R[d].sv < s.ver \/ R[d].deleted \/ ~ Before(b, s.plan, p)

Apart(s, R, B, p) ==
  s.ver > 0 =>
    \A b \in B, c \in B :
      Twin(b, c, p) => b = c \/ Excused(s, R, b, p) \/ Excused(s, R, c, p)

\* A device at the server's version is where the server is, or further.
Ahead(s, R, p) ==
  s.ver > 0 =>
    \A d \in Device :
      R[d].ver > 0 /\ ~ R[d].deleted /\ R[d].sv = s.ver => Onward(s.plan, R[d].plan, p)

Line(s, R, B, n, p) ==
  /\ Counted(s, R, B, n) /\ OwnPast(R, B, p) /\ Unborn(s, R, B, p)
  /\ Accounted(s, R, B, p) /\ Apart(s, R, B, p) /\ Ahead(s, R, p)

LEMMA LineGrows ==
  ASSUME NEW s \in Row, NEW R \in [Device -> LocalRow], NEW B \in SUBSET Payment,
         NEW n \in Nat, NEW m \in Nat, NEW p \in Plan, n <= m, Line(s, R, B, n, p)
  PROVE  Line(s, R, B, m, p)
<1>1. Counted(s, R, B, m)
  <2>1. s.plan.series.no \in Nat
    BY FieldsParts DEF Row
  <2>2. \A d \in Device : R[d].plan.series.no \in Nat
    BY FieldsParts DEF LocalRow
  <2>3. \A b \in B : b.series \in Nat
    BY PaymentParts
  <2> QED BY <2>1, <2>2, <2>3 DEF Line, Counted
<1> QED BY <1>1 DEF Line

\* The server moves on by itself: a write, or a sweep that paid M.
LEMMA LineServerMoves ==
  ASSUME NEW s \in Row, NEW t \in Row, NEW R \in [Device -> LocalRow],
         NEW B \in SUBSET Payment, NEW M \in SUBSET Payment,
         NEW n \in Nat, NEW m \in Nat, NEW p \in Plan, n <= m,
         Line(s, R, B, n, p), s.ver > 0, t.ver > s.ver,
         Onward(s.plan, t.plan, p), t.plan.series.no <= m,
         \A d \in Device : R[d].sv <= s.ver,
         \A b \in M : /\ b.by \notin Device /\ b.series <= m
                      /\ ~ Before(b, s.plan, p) /\ Before(b, t.plan, p),
         \A b \in M, c \in M : Twin(b, c, p) => b = c
  PROVE  Line(t, R, B \cup M, m, p)
<1>1. /\ s.ver \in Nat /\ t.ver \in Nat /\ s.plan \in Fields /\ t.plan \in Fields
      /\ \A d \in Device : R[d].sv \in Nat /\ R[d].ver \in Nat
  BY DEF Row, LocalRow
<1>2. Line(s, R, B, m, p)
  BY LineGrows
<1>3. \A d \in Device : R[d].sv < t.ver
  BY <1>1
<1>4. Counted(t, R, B \cup M, m)
  BY <1>2 DEF Line, Counted
<1>5. OwnPast(R, B \cup M, p)
  BY <1>2 DEF Line, OwnPast
<1>6. Unborn(t, R, B \cup M, p)
  BY <1>1 DEF Unborn
<1>7. Accounted(t, R, B \cup M, p)
  <2> SUFFICES ASSUME NEW b \in B \cup M
               PROVE  Before(b, t.plan, p) \/ \E d \in Device : b.by = d /\ Dirty(R[d])
    BY DEF Accounted
  <2>1. CASE b \in M
    BY <2>1
  <2>2. CASE b \in B
    BY <1>1, <1>2, <2>2, BeforeOnward DEF Line, Accounted
  <2> QED BY <2>1, <2>2
<1>8. Apart(t, R, B \cup M, p)
  <2>1. ASSUME NEW b \in B, Excused(s, R, b, p) PROVE Excused(t, R, b, p)
    BY <1>3, <2>1 DEF Excused
  <2>2. ASSUME NEW b \in M, NEW c \in B, Twin(b, c, p) PROVE Excused(t, R, c, p)
    <3>1. ~ Before(c, s.plan, p)
      <4>1. Twin(c, b, p)
        BY <2>2 DEF Twin
      <4> QED BY <1>1, <4>1, TwinsBefore
    <3>2. PICK d \in Device : c.by = d /\ Dirty(R[d])
      BY <1>2, <3>1 DEF Line, Accounted
    <3> QED BY <1>3, <3>2 DEF Excused
  <2>3. ASSUME NEW b \in B \cup M, NEW c \in B \cup M, Twin(b, c, p)
        PROVE  b = c \/ Excused(t, R, b, p) \/ Excused(t, R, c, p)
    <3>1. CASE b \in B /\ c \in B
      BY <1>2, <2>1, <2>3, <3>1 DEF Line, Apart
    <3>2. CASE b \in M /\ c \in B
      BY <2>2, <2>3, <3>2
    <3>3. CASE b \in B /\ c \in M
      <4>1. Twin(c, b, p)
        BY <2>3 DEF Twin
      <4> QED BY <2>2, <3>3, <4>1
    <3>4. CASE b \in M /\ c \in M
      BY <2>3, <3>4
    <3> QED BY <3>1, <3>2, <3>3, <3>4
  <2> QED BY <2>3 DEF Apart
<1>9. Ahead(t, R, p)
  BY <1>1, <1>3 DEF Ahead
<1> QED BY <1>4, <1>5, <1>6, <1>7, <1>8, <1>9 DEF Line

\* A plan is created, in a series of its own, on the server.
LEMMA LineBorn ==
  ASSUME NEW s \in Row, NEW t \in Row, NEW R \in [Device -> LocalRow],
         NEW B \in SUBSET Payment, NEW n \in Nat, NEW p \in Plan,
         Line(s, R, B, n, p), s.ver = 0, \A d \in Device : R[d].ver = 0,
         t.ver > 0, t.plan.series.no = n + 1
  PROVE  Line(t, R, B, n + 1, p)
<1>1. s.ver \in Nat /\ t.ver \in Nat /\ t.plan \in Fields
  BY DEF Row
<1>2. \A b \in B : b.series <= n /\ b.series \in Nat
  BY PaymentParts DEF Line, Counted
<1>3. \A b \in B : Before(b, t.plan, p)
  BY <1>1, <1>2, NewSeriesMovesOn
<1>4. Counted(t, R, B, n + 1)
  BY <1>1, <1>2 DEF Counted
<1>5. OwnPast(R, B, p)
  BY DEF Line
<1>6. Unborn(t, R, B, p) /\ Accounted(t, R, B, p) /\ Ahead(t, R, p)
  BY <1>1, <1>3 DEF Unborn, Accounted, Ahead
<1>7. Apart(t, R, B, p)
  BY DEF Line, Unborn, Apart
<1> QED BY <1>4, <1>5, <1>6, <1>7 DEF Line

\* A plan is created on device d.
LEMMA LineCreated ==
  ASSUME NEW s \in Row, NEW R \in [Device -> LocalRow], NEW d \in Device,
         NEW r \in LocalRow, NEW B \in SUBSET Payment, NEW n \in Nat, NEW p \in Plan,
         Line(s, R, B, n, p), s.ver = 0, \A e \in Device : R[e].ver = 0,
         r.plan.series.no = n + 1
  PROVE  Line(s, [R EXCEPT ![d] = r], B, n + 1, p)
<1> DEFINE Q == [R EXCEPT ![d] = r]
<1>1. Q[d] = r /\ \A e \in Device \ {d} : Q[e] = R[e]
  OBVIOUS
<1>2. r.plan \in Fields
  BY DEF LocalRow
<1>3. \A b \in B : b.series <= n /\ b.series \in Nat
  BY PaymentParts DEF Line, Counted
<1>4. \A b \in B : Before(b, r.plan, p)
  BY <1>2, <1>3, NewSeriesMovesOn
<1> HIDE DEF Q
<1>5. Counted(s, Q, B, n + 1)
  BY <1>1, <1>2, <1>3 DEF Counted
<1>6. OwnPast(Q, B, p)
  BY <1>1, <1>4 DEF Line, OwnPast
<1>7. Unborn(s, Q, B, p)
  BY <1>1, <1>4 DEF Line, Unborn
<1>8. Accounted(s, Q, B, p) /\ Apart(s, Q, B, p) /\ Ahead(s, Q, p)
  BY DEF Accounted, Apart, Ahead
<1> QED BY <1>5, <1>6, <1>7, <1>8 DEF Line, Q

\* A plan is edited on device d, or advanced with payments M.
LEMMA LineEdited ==
  ASSUME NEW s \in Row, NEW R \in [Device -> LocalRow], NEW d \in Device,
         NEW r \in LocalRow, NEW B \in SUBSET Payment, NEW M \in SUBSET Payment,
         NEW n \in Nat, NEW m \in Nat, NEW p \in Plan, n <= m,
         Line(s, R, B, n, p), R[d].ver > 0, ~ R[d].deleted,
         s.ver = 0 => \A e \in Device \ {d} : R[e].ver = 0,
         Dirty(r), r.sv = R[d].sv, r.sv <= s.ver, ~ r.deleted,
         Onward(R[d].plan, r.plan, p), r.plan.series.no <= m,
         \A b \in M : /\ b.by = d /\ b.series = R[d].plan.series.no
                      /\ b.due = R[d].plan.nextDue /\ Before(b, r.plan, p),
         \A b \in M, c \in M : b = c
  PROVE  Line(s, [R EXCEPT ![d] = r], B \cup M, m, p)
<1> DEFINE Q == [R EXCEPT ![d] = r]
<1>1. Q[d] = r /\ \A e \in Device \ {d} : Q[e] = R[e]
  OBVIOUS
<1> HIDE DEF Q
<1>2. /\ r.plan \in Fields /\ R[d].plan \in Fields /\ s.plan \in Fields
      /\ r.sv \in Nat /\ r.ver \in Nat /\ s.ver \in Nat
      /\ R[d].ver \in Nat /\ R[d].plan.series.no \in Nat /\ r.plan.series.no \in Nat
  BY FieldsParts DEF LocalRow, Row
<1>3. Line(s, R, B, m, p)
  BY LineGrows
<1>4. ASSUME NEW b \in B, Before(b, R[d].plan, p) PROVE Before(b, r.plan, p)
  BY <1>2, <1>4, BeforeOnward
<1>5. ASSUME NEW b \in M, NEW c \in B, c.by = d \/ s.ver = 0
      PROVE  ~ Twin(b, c, p) /\ ~ Twin(c, b, p)
  <2>1. Before(c, R[d].plan, p)
    BY <1>2, <1>3, <1>5 DEF Line, OwnPast, Unborn
  <2>2. ~ Before(b, R[d].plan, p)
    <3>1. Onward(R[d].plan, R[d].plan, p)
      BY <1>2, OnwardSame
    <3> QED BY <1>2, <3>1, PaidAtItsDate
  <2>3. ~ Twin(c, b, p)
    BY <1>2, <2>1, <2>2, TwinsBefore
  <2> QED BY <2>3 DEF Twin
<1>6. Counted(s, Q, B \cup M, m)
  <2>1. \A b \in M : b.series <= m
    <3>1. R[d].plan.series.no <= m
      BY <1>3 DEF Line, Counted
    <3> QED BY <3>1
  <2>2. \A e \in Device : Q[e].ver > 0 => Q[e].plan.series.no <= m
    BY <1>1, <1>3 DEF Line, Counted
  <2> QED BY <1>3, <2>1, <2>2 DEF Line, Counted
<1>7. OwnPast(Q, B \cup M, p)
  <2> SUFFICES ASSUME NEW e \in Device, NEW b \in B \cup M, b.by = e
               PROVE  /\ Q[e].ver > 0 => Before(b, Q[e].plan, p)
                      /\ \A c \in B \cup M : c.by = e /\ Twin(b, c, p) => b = c
    BY DEF OwnPast
  <2>1. CASE e # d
    <3>1. b \in B /\ \A c \in B \cup M : c.by = e => c \in B
      BY <2>1
    <3> QED BY <1>1, <1>3, <2>1, <3>1 DEF Line, OwnPast
  <2>2. CASE e = d
    <3>1. Before(b, r.plan, p)
      BY <1>3, <1>4, <2>2 DEF Line, OwnPast
    <3>2. ASSUME NEW c \in B \cup M, c.by = e, Twin(b, c, p) PROVE b = c
      BY <1>3, <1>5, <2>2, <3>2 DEF Line, OwnPast
    <3> QED BY <1>1, <2>2, <3>1, <3>2
  <2> QED BY <2>1, <2>2
<1>8. Unborn(s, Q, B \cup M, p)
  <2> SUFFICES ASSUME s.ver = 0
               PROVE  /\ \A e \in Device : Q[e].ver > 0 =>
                           \A b \in B \cup M : Before(b, Q[e].plan, p)
                      /\ \A b \in B \cup M, c \in B \cup M : Twin(b, c, p) => b = c
    BY DEF Unborn
  <2>1. \A b \in B \cup M : Before(b, r.plan, p)
    BY <1>3, <1>4 DEF Line, Unborn
  <2>2. \A b \in B \cup M, c \in B \cup M : Twin(b, c, p) => b = c
    BY <1>3, <1>5 DEF Line, Unborn
  <2> QED BY <1>1, <2>1, <2>2
<1>9. Accounted(s, Q, B \cup M, p)
  <2> SUFFICES ASSUME s.ver > 0, NEW b \in B \cup M
               PROVE  Before(b, s.plan, p) \/ \E e \in Device : b.by = e /\ Dirty(Q[e])
    BY DEF Accounted
  <2>1. CASE b \in M
    BY <1>1, <2>1
  <2>2. CASE b \in B
    BY <1>1, <1>3, <2>2 DEF Line, Accounted
  <2> QED BY <2>1, <2>2
<1>10. Apart(s, Q, B \cup M, p)
  <2>1. ASSUME NEW b \in B, Excused(s, R, b, p) PROVE Excused(s, Q, b, p)
    <3>1. PICK e \in Device : /\ b.by = e /\ Dirty(R[e])
                              /\ R[e].sv < s.ver \/ R[e].deleted \/ ~ Before(b, s.plan, p)
      BY <2>1 DEF Excused
    <3>2. CASE e = d
      BY <1>1, <3>1, <3>2 DEF Excused
    <3>3. CASE e # d
      BY <1>1, <3>1, <3>3 DEF Excused
    <3> QED BY <3>2, <3>3
  <2>2. ASSUME NEW b \in M, s.ver > 0 PROVE Excused(s, Q, b, p)
    <3>1. CASE r.sv < s.ver
      BY <1>1, <3>1 DEF Excused
    <3>2. CASE ~ (r.sv < s.ver)
      <4>1. R[d].sv = s.ver
        BY <1>2, <3>2
      <4>2. Onward(s.plan, R[d].plan, p)
        BY <1>3, <2>2, <4>1 DEF Line, Ahead
      <4>3. ~ Before(b, s.plan, p)
        BY <1>2, <4>2, PaidAtItsDate
      <4> QED BY <1>1, <4>3 DEF Excused
    <3> QED BY <3>1, <3>2
  <2> QED BY <1>3, <2>1, <2>2 DEF Line, Apart
<1>11. Ahead(s, Q, p)
  <2> SUFFICES ASSUME s.ver > 0, NEW e \in Device, Q[e].ver > 0, ~ Q[e].deleted,
                      Q[e].sv = s.ver
               PROVE  Onward(s.plan, Q[e].plan, p)
    BY DEF Ahead
  <2>1. CASE e # d
    BY <1>1, <1>3, <2>1 DEF Line, Ahead
  <2>2. CASE e = d
    <3>1. Onward(s.plan, R[d].plan, p)
      BY <1>1, <1>3, <2>2 DEF Line, Ahead
    <3> QED BY <1>1, <1>2, <2>2, <3>1, OnwardTwice
  <2> QED BY <2>1, <2>2
<1> QED BY <1>6, <1>7, <1>8, <1>9, <1>10, <1>11 DEF Line, Q


\* A plan is removed on device d: it vanishes if the server does not know it.
LEMMA LineRemoved ==
  ASSUME NEW s \in Row, NEW R \in [Device -> LocalRow], NEW d \in Device,
         NEW r \in LocalRow, NEW B \in SUBSET Payment, NEW n \in Nat, NEW p \in Plan,
         Line(s, R, B, n, p), R[d].ver > 0,
         \/ r.ver = 0 /\ s.ver = 0
         \/ Dirty(r) /\ r.deleted /\ r.plan = R[d].plan
  PROVE  Line(s, [R EXCEPT ![d] = r], B, n, p)
<1> DEFINE Q == [R EXCEPT ![d] = r]
<1>1. Q[d] = r /\ \A e \in Device \ {d} : Q[e] = R[e]
  OBVIOUS
<1> HIDE DEF Q
<1>2. s.ver \in Nat /\ r.ver \in Nat
  BY DEF LocalRow, Row
<1>3. r.ver > 0 => r.plan = R[d].plan
  BY <1>2
<1>4. Counted(s, Q, B, n)
  BY <1>1, <1>3 DEF Line, Counted
<1>5. OwnPast(Q, B, p)
  BY <1>1, <1>3 DEF Line, OwnPast
<1>6. Unborn(s, Q, B, p)
  BY <1>1, <1>3 DEF Line, Unborn
<1>7. s.ver > 0 => Dirty(r) /\ r.deleted
  BY <1>2
<1>8. Accounted(s, Q, B, p)
  <2> SUFFICES ASSUME s.ver > 0, NEW b \in B, ~ Before(b, s.plan, p)
               PROVE  \E e \in Device : b.by = e /\ Dirty(Q[e])
    BY DEF Accounted
  <2>1. PICK e \in Device : b.by = e /\ Dirty(R[e])
    BY DEF Line, Accounted
  <2> QED BY <1>1, <1>7, <2>1
<1>9. Apart(s, Q, B, p)
  <2>1. ASSUME NEW b \in B, s.ver > 0, Excused(s, R, b, p) PROVE Excused(s, Q, b, p)
    <3>1. PICK e \in Device : /\ b.by = e /\ Dirty(R[e])
                              /\ R[e].sv < s.ver \/ R[e].deleted \/ ~ Before(b, s.plan, p)
      BY <2>1 DEF Excused
    <3>2. CASE e = d
      BY <1>1, <1>7, <2>1, <3>1, <3>2 DEF Excused
    <3>3. CASE e # d
      BY <1>1, <3>1, <3>3 DEF Excused
    <3> QED BY <3>2, <3>3
  <2> QED BY <2>1 DEF Line, Apart
<1>10. Ahead(s, Q, p)
  BY <1>1, <1>7 DEF Line, Ahead
<1> QED BY <1>4, <1>5, <1>6, <1>8, <1>9, <1>10 DEF Line, Q

\* Device d, with nothing to push about the plan, takes the server's row.
LEMMA LinePulled ==
  ASSUME NEW s \in Row, NEW R \in [Device -> LocalRow], NEW d \in Device,
         NEW r \in LocalRow, NEW B \in SUBSET Payment, NEW n \in Nat, NEW p \in Plan,
         Line(s, R, B, n, p), s.ver > 0, ~ Dirty(R[d]), ~ Dirty(r), r.plan = s.plan
  PROVE  Line(s, [R EXCEPT ![d] = r], B, n, p)
<1> DEFINE Q == [R EXCEPT ![d] = r]
<1>1. Q[d] = r /\ \A e \in Device \ {d} : Q[e] = R[e]
  OBVIOUS
<1> HIDE DEF Q
<1>2. s.ver \in Nat /\ s.plan \in Fields
  BY DEF Row
<1>3. Counted(s, Q, B, n)
  BY <1>1 DEF Line, Counted
<1>4. ASSUME NEW b \in B, b.by = d PROVE Before(b, s.plan, p)
  BY <1>4 DEF Line, Accounted
<1>5. OwnPast(Q, B, p)
  BY <1>1, <1>4 DEF Line, OwnPast
<1>6. Unborn(s, Q, B, p)
  BY <1>2 DEF Unborn
<1>7. Accounted(s, Q, B, p)
  <2> SUFFICES ASSUME NEW b \in B, ~ Before(b, s.plan, p)
               PROVE  \E e \in Device : b.by = e /\ Dirty(Q[e])
    BY DEF Accounted
  <2>1. PICK e \in Device : b.by = e /\ Dirty(R[e])
    BY DEF Line, Accounted
  <2> QED BY <1>1, <2>1
<1>8. Apart(s, Q, B, p)
  <2>1. ASSUME NEW b \in B, Excused(s, R, b, p) PROVE Excused(s, Q, b, p)
    BY <1>1, <2>1 DEF Excused
  <2> QED BY <2>1 DEF Line, Apart
<1>9. Ahead(s, Q, p)
  BY <1>1, <1>2, OnwardSame DEF Line, Ahead
<1> QED BY <1>3, <1>5, <1>6, <1>7, <1>8, <1>9 DEF Line, Q

\* Device d pushes a create, or an update of the server's version: the
\* server stands where the device does.
LEMMA LinePushed ==
  ASSUME NEW s \in Row, NEW t \in Row, NEW R \in [Device -> LocalRow],
         NEW d \in Device, NEW r \in LocalRow, NEW B \in SUBSET Payment,
         NEW n \in Nat, NEW p \in Plan,
         Line(s, R, B, n, p), R[d].ver > 0, ~ R[d].deleted, R[d].sv = s.ver,
         \A e \in Device : R[e].sv <= s.ver,
         s.ver = 0 => \A e \in Device \ {d} : R[e].ver = 0,
         t.ver > s.ver, t.plan.series = R[d].plan.series,
         t.plan.nextDue = R[d].plan.nextDue, ~ Dirty(r), r.plan = R[d].plan
  PROVE  Line(t, [R EXCEPT ![d] = r], B, n, p)
<1> DEFINE Q == [R EXCEPT ![d] = r]
<1>1. Q[d] = r /\ \A e \in Device \ {d} : Q[e] = R[e]
  OBVIOUS
<1> HIDE DEF Q
<1>2. /\ s.ver \in Nat /\ t.ver \in Nat /\ s.plan \in Fields /\ t.plan \in Fields
      /\ R[d].plan \in Fields /\ \A e \in Device : R[e].sv \in Nat
  BY DEF Row, LocalRow
<1>3. \A e \in Device : R[e].sv < t.ver
  BY <1>2
<1>4. ASSUME NEW b \in B, Before(b, R[d].plan, p) PROVE Before(b, t.plan, p)
  BY <1>4 DEF Before
<1>5. Counted(t, Q, B, n)
  BY <1>1 DEF Line, Counted
<1>6. OwnPast(Q, B, p)
  BY <1>1 DEF Line, OwnPast
<1>7. Unborn(t, Q, B, p)
  BY <1>2 DEF Unborn
<1>8. Accounted(t, Q, B, p)
  <2> SUFFICES ASSUME NEW b \in B, ~ Before(b, t.plan, p)
               PROVE  \E e \in Device : b.by = e /\ Dirty(Q[e])
    BY DEF Accounted
  <2>1. ~ Before(b, R[d].plan, p)
    BY <1>4
  <2>2. s.ver > 0
    BY <1>2, <2>1 DEF Line, Unborn
  <2>3. ~ Before(b, s.plan, p)
    BY <1>2, <2>1, <2>2, BeforeOnward DEF Line, Ahead
  <2>4. PICK e \in Device : b.by = e /\ Dirty(R[e])
    BY <2>2, <2>3 DEF Line, Accounted
  <2>5. e # d
    BY <2>1, <2>4 DEF Line, OwnPast
  <2> QED BY <1>1, <2>4, <2>5
<1>9. Apart(t, Q, B, p)
  <2>1. ASSUME NEW b \in B, NEW e \in Device, e # d, b.by = e, Dirty(R[e])
        PROVE  Excused(t, Q, b, p)
    BY <1>1, <1>3, <2>1 DEF Excused
  <2>2. ASSUME NEW b \in B, NEW c \in B, s.ver > 0, Twin(b, c, p), Excused(s, R, b, p)
        PROVE  b = c \/ Excused(t, Q, b, p) \/ Excused(t, Q, c, p)
    <3>1. PICK e \in Device : /\ b.by = e /\ Dirty(R[e])
                              /\ R[e].sv < s.ver \/ R[e].deleted \/ ~ Before(b, s.plan, p)
      BY <2>2 DEF Excused
    <3>2. CASE e # d
      BY <2>1, <3>1, <3>2
    <3>3. CASE e = d
      <4>1. ~ Before(b, s.plan, p)
        BY <1>2, <3>1, <3>3
      <4>2. ~ Before(c, s.plan, p)
        <5>1. Twin(c, b, p)
          BY <2>2 DEF Twin
        <5> QED BY <1>2, <4>1, <5>1, TwinsBefore
      <4>3. PICK g \in Device : c.by = g /\ Dirty(R[g])
        BY <2>2, <4>2 DEF Line, Accounted
      <4>4. CASE g = d
        BY <2>2, <3>1, <3>3, <4>3, <4>4 DEF Line, OwnPast
      <4>5. CASE g # d
        BY <2>1, <4>3, <4>5
      <4> QED BY <4>4, <4>5
    <3> QED BY <3>2, <3>3
  <2>3. ASSUME NEW b \in B, NEW c \in B, Twin(b, c, p)
        PROVE  b = c \/ Excused(t, Q, b, p) \/ Excused(t, Q, c, p)
    <3>1. CASE s.ver = 0
      BY <2>3, <3>1 DEF Line, Unborn
    <3>2. CASE s.ver # 0
      <4>1. s.ver > 0 /\ Twin(c, b, p)
        BY <1>2, <2>3, <3>2 DEF Twin
      <4>2. b = c \/ Excused(s, R, b, p) \/ Excused(s, R, c, p)
        BY <2>3, <4>1 DEF Line, Apart
      <4> QED BY <2>2, <2>3, <4>1, <4>2
    <3> QED BY <3>1, <3>2
  <2> QED BY <2>3 DEF Apart
<1>10. Ahead(t, Q, p)
  <2> SUFFICES ASSUME NEW e \in Device, Q[e].sv = t.ver
               PROVE  Onward(t.plan, Q[e].plan, p)
    BY DEF Ahead
  <2>1. e = d
    BY <1>1, <1>2, <1>3
  <2> QED BY <1>1, <1>2, <2>1, OnwardSame
<1> QED BY <1>5, <1>6, <1>7, <1>8, <1>9, <1>10 DEF Line, Q


(* Versions.                                                               *)

\* x is what version v held, as far as the server's row s still tells.
Reports(x, v, s) ==
  /\ v <= s.ver
  /\ v = s.ver =>
       /\ x.deleted = s.deleted
       /\ ~ x.deleted => /\ x.plan.nextDue = s.plan.nextDue
                         /\ x.plan.mode = s.plan.mode

\* A device's row r knows a version the server has had.
RowKept(s, r) ==
  /\ r.sv <= r.ver /\ r.sv <= s.ver
  /\ r.deleted => r.sv > 0
  /\ s.ver > 0 /\ r.ver > 0 => r.sv > 0
  /\ r.ver > 0 /\ Clean(r) => Reports(r, r.sv, s)

\* So does a conflict it has noted.
ConfKept(s, c) ==
  c.kind = "version" => c.state.ver > 0 /\ Reports(c.state, c.state.ver, s)

Kept(s, R, C) ==
  /\ s.deleted => s.ver > 0
  /\ s.ver = 0 => \A d \in Device, e \in Device : R[d].ver > 0 /\ R[e].ver > 0 => d = e
  /\ \A d \in Device : RowKept(s, R[d]) /\ ConfKept(s, C[d])

Rows(p) == [d \in Device |-> dev[d][p]]
Confs(p) == [d \in Device |-> conf[d][p]]
Of(p) == {b \in Made : b.plan = p}

KeptAt(p) == Kept(srv[p], Rows(p), Confs(p))

NotedAt(p) == \A d \in Device : conf[d][p].kind # "none" => p \in told

LineAt(p) ==
  p \notin told /\ ~ srv[p].deleted => Line(srv[p], Rows(p), Of(p), edits, p)

\* What sweep j would commit about plan p: its row t, and payments M.
Advancing(s, t, M, j, p) ==
  /\ \/ t = s /\ M = {}
     \/ /\ t.ver > s.ver /\ s.ver > 0 /\ ~ s.deleted /\ ~ t.deleted
        /\ t.plan.series = s.plan.series /\ Onward(s.plan, t.plan, p)
  /\ \A b \in M : /\ b.by = j /\ b.series = s.plan.series.no
                  /\ ~ Before(b, s.plan, p) /\ Before(b, t.plan, p)
  /\ \A b \in M, c \in M : Twin(b, c, p) => b = c

MadeOf(j, p) == {b \in job[j].made : b.plan = p}

Locks ==
  /\ \A j \in Sweeper, k \in Sweeper :
       job[j].step = "locked" /\ job[k].step = "locked" => j = k
  /\ \A j \in Sweeper, p \in Plan :
       job[j].step = "locked" => Advancing(srv[p], job[j].row[p], MadeOf(j, p), j, p)

LInv ==
  /\ TypeOK /\ Locks
  /\ \A p \in Plan : KeptAt(p) /\ NotedAt(p) /\ LineAt(p)

LEMMA AtPlan ==
  ASSUME TypeOK, NEW p \in Plan
  PROVE  /\ srv[p] \in Row /\ srv[p].plan \in Fields
         /\ Rows(p) \in [Device -> LocalRow] /\ Confs(p) \in [Device -> Conflict]
         /\ Of(p) \in SUBSET Payment /\ edits \in Nat
         /\ srv[p].ver \in Nat
<1>1. srv[p] \in Row
  BY DEF TypeOK
<1>2. Made \subseteq Payment
  BY DEF TypeOK, Made
<1> QED BY <1>1, <1>2 DEF TypeOK, Rows, Confs, Of, Row

LEMMA AtRow ==
  ASSUME TypeOK, NEW p \in Plan, NEW d \in Device
  PROVE  /\ dev[d][p] \in LocalRow /\ dev[d][p].plan \in Fields
         /\ dev[d][p].ver \in Nat /\ dev[d][p].sv \in Nat /\ dev[d][p].deleted \in BOOLEAN
         /\ Rows(p)[d] = dev[d][p] /\ Confs(p)[d] = conf[d][p]
<1>1. dev[d][p] \in LocalRow
  BY DEF TypeOK
<1> QED BY <1>1 DEF LocalRow, Rows, Confs

\* What writing one row, or noting one conflict, does to the rows of plans.
LEMMA RowWritten ==
  ASSUME TypeOK, NEW d \in Device, NEW p \in Plan, NEW r,
         dev' = [dev EXCEPT ![d][p] = r]
  PROVE  /\ Rows(p)' = [Rows(p) EXCEPT ![d] = r]
         /\ \A q \in Plan \ {p} : Rows(q)' = Rows(q)
BY DEF TypeOK, Rows

LEMMA ConfWritten ==
  ASSUME TypeOK, NEW d \in Device, NEW p \in Plan, NEW c,
         conf' = [conf EXCEPT ![d][p] = c]
  PROVE  /\ Confs(p)' = [Confs(p) EXCEPT ![d] = c]
         /\ \A q \in Plan \ {p} : Confs(q)' = Confs(q)
BY DEF TypeOK, Confs

(* A step that touches one plan.                                           *)

LEMMA OnePlan ==
  ASSUME LInv, TypeOK', NEW p \in Plan, told \subseteq told', edits' >= edits, Locks',
         KeptAt(p)', NotedAt(p)', LineAt(p)',
         \A q \in Plan \ {p} :
           /\ srv'[q] = srv[q] /\ Rows(q)' = Rows(q) /\ Confs(q)' = Confs(q)
           /\ Of(q)' = Of(q)
  PROVE  LInv'
<1> SUFFICES ASSUME NEW q \in Plan \ {p} PROVE KeptAt(q)' /\ NotedAt(q)' /\ LineAt(q)'
  BY DEF LInv
<1>1. KeptAt(q) /\ NotedAt(q) /\ LineAt(q) /\ TypeOK
  BY DEF LInv
<1>2. KeptAt(q)'
  BY <1>1 DEF KeptAt
<1>3. NotedAt(q)'
  <2> SUFFICES ASSUME NEW d \in Device, conf'[d][q].kind # "none" PROVE q \in told'
    BY DEF NotedAt
  <2>1. conf'[d][q] = conf[d][q]
    <3>1. Confs(q)'[d] = Confs(q)[d]
      OBVIOUS
    <3> QED BY <3>1 DEF Confs
  <2> QED BY <1>1, <2>1 DEF NotedAt
<1>4. LineAt(q)'
  <2> SUFFICES ASSUME q \notin told', ~ srv'[q].deleted
               PROVE  Line(srv'[q], Rows(q)', Of(q)', edits', q)
    BY DEF LineAt
  <2>1. Line(srv[q], Rows(q), Of(q), edits, q)
    BY <1>1 DEF LineAt
  <2>2. edits \in Nat /\ edits' \in Nat
    BY <1>1 DEF TypeOK
  <2>3. Line(srv[q], Rows(q), Of(q), edits', q)
    BY <1>1, <2>1, <2>2, AtPlan, LineGrows
  <2> QED BY <2>3
<1> QED BY <1>2, <1>3, <1>4

LEMMA LocksSame ==
  ASSUME Locks, job' = job, srv' = srv \/ Unlocked
  PROVE  Locks'
BY DEF Locks, Unlocked, MadeOf

(* Versions through the steps.                                             *)

LEMMA KeptServerMoves ==
  ASSUME NEW s \in Row, NEW t \in Row, NEW R \in [Device -> LocalRow],
         NEW C \in [Device -> Conflict], Kept(s, R, C), t.ver > s.ver,
         s.ver > 0 \/ \A d \in Device : R[d].ver = 0
  PROVE  Kept(t, R, C)
<1>1. s.ver \in Nat /\ t.ver \in Nat
  BY DEF Row
<1>2. ASSUME NEW d \in Device PROVE RowKept(t, R[d]) /\ ConfKept(t, C[d])
  <2>1. R[d].ver \in Nat /\ R[d].sv \in Nat /\ C[d].state.ver \in Nat
    BY DEF LocalRow, Conflict, Row
  <2>2. RowKept(s, R[d]) /\ ConfKept(s, C[d])
    BY DEF Kept
  <2> QED BY <1>1, <2>1, <2>2 DEF RowKept, ConfKept, Reports, Kept
<1> QED BY <1>1, <1>2 DEF Kept

LEMMA KeptRow ==
  ASSUME NEW s \in Row, NEW R \in [Device -> LocalRow], NEW C \in [Device -> Conflict],
         NEW d \in Device, NEW r \in LocalRow, Kept(s, R, C), RowKept(s, r),
         s.ver = 0 /\ r.ver > 0 => \A e \in Device \ {d} : R[e].ver = 0
  PROVE  Kept(s, [R EXCEPT ![d] = r], C)
<1> DEFINE Q == [R EXCEPT ![d] = r]
<1>1. Q[d] = r /\ \A e \in Device \ {d} : Q[e] = R[e]
  OBVIOUS
<1> HIDE DEF Q
<1>2. \A e \in Device : RowKept(s, Q[e])
  BY <1>1 DEF Kept
<1>3. ASSUME s.ver = 0, NEW e \in Device, NEW f \in Device, Q[e].ver > 0, Q[f].ver > 0
      PROVE  e = f
  <2>1. CASE e # d /\ f # d
    BY <1>1, <1>3, <2>1 DEF Kept
  <2>2. CASE e = d \/ f = d
    BY <1>1, <1>3, <2>2
  <2> QED BY <2>1, <2>2
<1> QED BY <1>2, <1>3 DEF Kept, Q

LEMMA KeptConf ==
  ASSUME NEW s \in Row, NEW R \in [Device -> LocalRow], NEW C \in [Device -> Conflict],
         NEW d \in Device, NEW c \in Conflict, Kept(s, R, C), ConfKept(s, c)
  PROVE  Kept(s, R, [C EXCEPT ![d] = c])
BY DEF Kept

LEMMA KeptPushed ==
  ASSUME NEW s \in Row, NEW t \in Row, NEW R \in [Device -> LocalRow],
         NEW C \in [Device -> Conflict], NEW d \in Device, NEW r \in LocalRow,
         Kept(s, R, C), t.ver > s.ver, RowKept(t, r), R[d].ver > 0
  PROVE  Kept(t, [R EXCEPT ![d] = r], C)
<1> DEFINE Q == [R EXCEPT ![d] = r]
<1>1. Q[d] = r /\ \A e \in Device \ {d} : Q[e] = R[e]
  OBVIOUS
<1> HIDE DEF Q
<1>2. s.ver \in Nat /\ t.ver \in Nat
  BY DEF Row
<1>3. ASSUME NEW e \in Device PROVE RowKept(t, Q[e]) /\ ConfKept(t, C[e])
  <2>1. R[e].ver \in Nat /\ R[e].sv \in Nat /\ C[e].state.ver \in Nat
    BY DEF LocalRow, Conflict, Row
  <2>2. RowKept(s, R[e]) /\ ConfKept(s, C[e])
    BY DEF Kept
  <2>3. ConfKept(t, C[e])
    BY <1>2, <2>1, <2>2 DEF ConfKept, Reports
  <2>4. e # d => s.ver > 0 \/ R[e].ver = 0
    BY <1>2, <2>1 DEF Kept
  <2>5. e # d => RowKept(t, R[e])
    BY <1>2, <2>1, <2>2, <2>4 DEF RowKept, Reports
  <2> QED BY <1>1, <2>3, <2>5
<1> QED BY <1>2, <1>3 DEF Kept, Q


LEMMA InitLine == Init => LInv
<1> SUFFICES ASSUME Init PROVE LInv
  OBVIOUS
<1>1. Made = {}
  BY DEF Init, Made
<1>2. \A p \in Plan : Of(p) = {}
  BY <1>1 DEF Of
<1>3. Locks
  BY DEF Init, Locks, Idle
<1>4. ASSUME NEW p \in Plan PROVE KeptAt(p)
  BY <1>2 DEF Init, KeptAt, Kept, RowKept, ConfKept, Rows, Confs, Absent, NoRow, NoConflict
<1>5. ASSUME NEW p \in Plan PROVE NotedAt(p)
  BY DEF Init, NotedAt, NoConflict
<1>6. ASSUME NEW p \in Plan PROVE LineAt(p)
  BY <1>2 DEF Init, LineAt, Line, Counted, OwnPast, Unborn, Accounted, Apart, Ahead,
              Rows, Absent, NoRow
<1> QED BY <1>3, <1>4, <1>5, <1>6, InitTyped DEF LInv

(* The job.                                                                *)

LEMMA JobLine ==
  ASSUME LInv, TypeOK', NEW j \in Sweeper,
         \/ JobLists(j) \/ JobLocks(j) \/ JobCommits(j) \/ JobAborts(j)
         \/ \E p \in Plan : JobExecutes(j, p)
  PROVE  LInv'
<1>1. TypeOK /\ job \in [Sweeper -> Sweep] /\ job[j] \in Sweep /\ Locks
  BY DEF LInv, TypeOK
<1>2. ASSUME UNCHANGED <<srv, paid, device, told, edits>>,
             \A i \in Sweeper \ {j} : job'[i] = job[i],
             job'[j].step = "locked" =>
               /\ \A i \in Sweeper \ {j} : job[i].step # "locked"
               /\ \A p \in Plan :
                    Advancing(srv[p], job'[j].row[p], MadeOf(j, p)', j, p)
      PROVE  LInv'
  <2>1. Locks'
    <3>1. \A i \in Sweeper \ {j} : \A p \in Plan : MadeOf(i, p)' = MadeOf(i, p)
      BY <1>2 DEF MadeOf
    <3> QED BY <1>1, <1>2, <3>1 DEF Locks
  <2>2. ASSUME NEW p \in Plan PROVE KeptAt(p)' /\ NotedAt(p)' /\ LineAt(p)'
    <3>1. Rows(p)' = Rows(p) /\ Confs(p)' = Confs(p) /\ Of(p)' = Of(p)
      BY <1>2 DEF Rows, Confs, Of, Made, device
    <3> QED BY <1>2, <3>1 DEF LInv, KeptAt, NotedAt, LineAt, device
  <2> QED BY <2>1, <2>2 DEF LInv
<1>3. CASE JobLists(j)
  <2>1. job'[j].step = "listed" /\ \A i \in Sweeper \ {j} : job'[i] = job[i]
    BY <1>1, <1>3 DEF JobLists, Sweep
  <2> QED BY <1>2, <1>3, <2>1 DEF JobLists
<1>4. CASE JobLocks(j)
  <2>1. job'[j].row = srv /\ job'[j].made = {} /\ \A i \in Sweeper \ {j} : job'[i] = job[i]
    BY <1>1, <1>4 DEF JobLocks, Sweep
  <2>2. \A p \in Plan : Advancing(srv[p], job'[j].row[p], MadeOf(j, p)', j, p)
    BY <2>1 DEF Advancing, MadeOf
  <2> QED BY <1>2, <1>4, <2>1, <2>2 DEF JobLocks, Unlocked
<1>5. CASE JobAborts(j)
  <2>1. job'[j].step = "idle" /\ \A i \in Sweeper \ {j} : job'[i] = job[i]
    BY <1>1, <1>5 DEF JobAborts, Idle
  <2> QED BY <1>2, <1>5, <2>1 DEF JobAborts
<1>6. ASSUME NEW p \in Plan, JobExecutes(j, p) PROVE LInv'
  <2> DEFINE s == srv[p]
             t == job[j].row[p]
             b == Executed(j, p, t)
             u == Advanced(p, t)
             g == [t.plan EXCEPT !.nextDue =
                     AdvanceNextDue(@, t.plan.anchorDate, Regularity[p])]
  <2>1. /\ t \in Row /\ t.plan \in Fields /\ t.ver \in Nat /\ s.plan \in Fields
        /\ s.ver \in Nat
    BY <1>1, AtPlan DEF Sweep, Row
  <2>2. job[j].step = "locked" /\ t.ver > 0 /\ ~ t.deleted
    BY <1>6 DEF JobExecutes, DueAuto, Live
  <2>3. Advancing(s, t, MadeOf(j, p), j, p)
    BY <1>1, <2>2 DEF Locks
  <2>4. b \in Payment /\ b.plan = p /\ b.by = j /\ b.series = t.plan.series.no
        /\ b.due = t.plan.nextDue
    BY <2>1 DEF Executed, Payment, Row, Fields, Series
  <2>5. /\ u.plan = g /\ u.ver = t.ver + 1 /\ u.deleted = t.deleted
    BY <2>1 DEF Advanced, Written, Row
  <2>6. /\ g \in Fields /\ g.series = t.plan.series /\ Onward(t.plan, g, p)
        /\ Before(b, g, p)
    BY <2>1, <2>4, AdvancedMovesOn
  <2>7. MadeOf(j, p) \subseteq Payment
    BY <1>1 DEF MadeOf, Sweep
  <2>8. /\ job'[j].row = [job[j].row EXCEPT ![p] = u]
        /\ job'[j].made = job[j].made \cup {b}
        /\ job'[j].step = job[j].step
        /\ \A i \in Sweeper \ {j} : job'[i] = job[i]
    BY <1>1, <1>6 DEF JobExecutes, Sweep
  <2>9. job[j].row \in [Plan -> Row]
    BY <1>1 DEF Sweep
  <2> HIDE DEF s, t, b, u, g
  <2>10. Onward(s.plan, t.plan, p) /\ t.plan.series = s.plan.series
    BY <2>1, <2>3, OnwardSame DEF Advancing
  <2>11. Advancing(s, u, MadeOf(j, p) \cup {b}, j, p)
    <3>1. u.ver > s.ver /\ s.ver > 0 /\ ~ s.deleted /\ ~ u.deleted
      BY <2>1, <2>2, <2>3, <2>5 DEF Advancing
    <3>2. u.plan.series = s.plan.series /\ Onward(s.plan, u.plan, p)
      BY <2>1, <2>5, <2>6, <2>10, OnwardTwice
    <3>3. ~ Before(b, s.plan, p) /\ ~ Before(b, t.plan, p)
      BY <2>1, <2>4, <2>10, PaidAtItsDate
    <3>4. ASSUME NEW c \in MadeOf(j, p)
          PROVE  /\ c.by = j /\ c.series = s.plan.series.no /\ ~ Before(c, s.plan, p)
                 /\ Before(c, u.plan, p) /\ ~ Twin(c, b, p) /\ ~ Twin(b, c, p)
      <4>1. /\ c.by = j /\ c.series = s.plan.series.no /\ ~ Before(c, s.plan, p)
            /\ Before(c, t.plan, p)
        BY <2>3 DEF Advancing
      <4>2. c \in Payment
        BY <2>7
      <4>3. Before(c, u.plan, p)
        BY <2>1, <2>5, <2>6, <4>1, <4>2, BeforeOnward
      <4>4. ~ Twin(c, b, p)
        BY <2>1, <2>4, <3>3, <4>1, <4>2, TwinsBefore
      <4>5. ~ Twin(b, c, p)
        BY <4>4 DEF Twin
      <4> QED BY <4>1, <4>3, <4>4, <4>5
    <3>5. \A c \in MadeOf(j, p), e \in MadeOf(j, p) : Twin(c, e, p) => c = e
      BY <2>3 DEF Advancing
    <3>6. b.series = s.plan.series.no /\ Before(b, u.plan, p)
      BY <2>4, <2>5, <2>6, <2>10
    <3> QED BY <2>4, <3>1, <3>2, <3>3, <3>4, <3>5, <3>6 DEF Advancing
  <2>12. MadeOf(j, p)' = MadeOf(j, p) \cup {b}
    BY <2>4, <2>8 DEF MadeOf
  <2>13. ASSUME NEW q \in Plan
         PROVE  Advancing(srv[q], job'[j].row[q], MadeOf(j, q)', j, q)
    <3>1. CASE q = p
      BY <2>8, <2>9, <2>11, <2>12, <3>1 DEF s
    <3>2. CASE q # p
      <4>1. job'[j].row[q] = job[j].row[q] /\ MadeOf(j, q)' = MadeOf(j, q)
        BY <2>4, <2>8, <2>9, <3>2 DEF MadeOf
      <4> QED BY <1>1, <2>2, <4>1 DEF Locks
    <3> QED BY <3>1, <3>2
  <2>14. \A i \in Sweeper \ {j} : job[i].step # "locked"
    BY <1>1, <2>2 DEF Locks
  <2> QED BY <1>2, <1>6, <2>8, <2>13, <2>14 DEF JobExecutes
<1>7. CASE JobCommits(j)
  <2>1. /\ srv' = job[j].row /\ paid' = paid \cup job[j].made /\ job[j].step = "locked"
        /\ job'[j] = Idle /\ \A i \in Sweeper \ {j} : job'[i] = job[i]
        /\ UNCHANGED <<dev, bills, conf, told, edits>>
    BY <1>1, <1>7 DEF JobCommits, device
  <2>2. Locks'
    BY <1>1, <2>1 DEF Locks, Idle
  <2>3. ASSUME NEW p \in Plan PROVE KeptAt(p)' /\ NotedAt(p)' /\ LineAt(p)'
    <3> DEFINE s == srv[p]
               t == job[j].row[p]
               R == Rows(p)
               B == Of(p)
               M == MadeOf(j, p)
    <3>1. /\ R' = R /\ Confs(p)' = Confs(p) /\ B' = B \cup M
      BY <2>1 DEF Rows, Confs, Of, Made, MadeOf
    <3>2. Advancing(s, t, M, j, p)
      BY <1>1, <2>1 DEF Locks
    <3>3. srv'[p] = t /\ NotedAt(p)'
      BY <2>1 DEF LInv, NotedAt
    <3>4. /\ s \in Row /\ t \in Row /\ R \in [Device -> LocalRow] /\ edits \in Nat
          /\ Confs(p) \in [Device -> Conflict] /\ B \in SUBSET Payment
          /\ M \in SUBSET Payment
      BY <1>1, AtPlan DEF Sweep, MadeOf
    <3>5. Kept(s, R, Confs(p))
      BY DEF LInv, KeptAt
    <3>6. p \notin told /\ ~ s.deleted => Line(s, R, B, edits, p)
      BY DEF LInv, LineAt
    <3> HIDE DEF s, t, R, B, M
    <3>7. CASE t = s /\ M = {}
      <4>1. B' = B
        BY <3>1, <3>7
      <4> QED BY <2>1, <3>1, <3>3, <3>5, <3>6, <3>7, <4>1 DEF KeptAt, LineAt, R, B
    <3>8. CASE ~ (t = s /\ M = {})
      <4>1. /\ t.ver > s.ver /\ s.ver > 0 /\ ~ s.deleted /\ ~ t.deleted
            /\ t.plan.series = s.plan.series /\ Onward(s.plan, t.plan, p)
        BY <3>2, <3>8 DEF Advancing
      <4>2. Kept(t, R, Confs(p))
        BY <3>4, <3>5, <4>1, KeptServerMoves
      <4>3. ASSUME p \notin told PROVE Line(t, R, B \cup M, edits, p)
        <5>1. Line(s, R, B, edits, p)
          BY <3>6, <4>1, <4>3
        <5>2. t.plan.series.no <= edits /\ s.plan.series.no <= edits
          BY <4>1, <5>1 DEF Line, Counted
        <5>3. \A d \in Device : R[d].sv <= s.ver
          BY <3>5 DEF Kept, RowKept
        <5>4. \A b \in M : /\ b.by \notin Device /\ b.series <= edits
                           /\ ~ Before(b, s.plan, p) /\ Before(b, t.plan, p)
          BY <3>2, <5>2, SweeperIsNoDevice DEF Advancing
        <5>5. \A b \in M, c \in M : Twin(b, c, p) => b = c
          BY <3>2 DEF Advancing
        <5>6. edits <= edits
          BY <3>4
        <5> QED BY <3>4, <4>1, <5>1, <5>2, <5>3, <5>4, <5>5, <5>6, LineServerMoves
      <4> QED BY <2>1, <3>1, <3>3, <4>2, <4>3 DEF KeptAt, LineAt, R, B
    <3> QED BY <3>7, <3>8
  <2> QED BY <2>2, <2>3 DEF LInv
<1> QED BY <1>3, <1>4, <1>5, <1>6, <1>7

(* The REST writes.                                                        *)

LEMMA RestLine == ASSUME LInv, TypeOK', RestStep PROVE LInv'
<1>1. PICK p \in Plan :
        \/ RestDeletes(p)
        \/ \E mode \in Modes : RestUpdates(p, mode)
        \/ \E due \in DueDates : RestSetsDue(p, due)
        \/ \E due \in DueDates, mode \in Modes : RestCreates(p, due, mode)
  BY DEF RestStep
<1> DEFINE s == srv[p]
<1>2. /\ TypeOK /\ srv \in [Plan -> Row] /\ s \in Row /\ s.plan \in Fields
      /\ s.plan.mode \in Modes /\ edits \in Nat /\ s.ver \in Nat
  BY DEF LInv, TypeOK, Row, Fields
<1>3. /\ Rows(p) \in [Device -> LocalRow] /\ Confs(p) \in [Device -> Conflict]
      /\ Of(p) \in SUBSET Payment
  BY <1>2, AtPlan
<1>4. Kept(s, Rows(p), Confs(p)) /\ (p \notin told /\ ~ s.deleted =>
                                       Line(s, Rows(p), Of(p), edits, p))
  BY DEF LInv, KeptAt, LineAt
<1>5. \A d \in Device : Rows(p)[d].sv <= s.ver
  BY <1>4 DEF Kept, RowKept
<1>6. ASSUME NEW t \in Row, srv' = [srv EXCEPT ![p] = t], UserWrites, Unlocked,
             UNCHANGED <<paid, job, device, told>>,
             t.ver > s.ver, s.ver > 0 \/ \A d \in Device : Rows(p)[d].ver = 0,
             p \notin told /\ ~ t.deleted =>
               Line(t, Rows(p), Of(p), edits + 1, p)
      PROVE  LInv'
  <2>1. \A q \in Plan : /\ Rows(q)' = Rows(q) /\ Confs(q)' = Confs(q) /\ Of(q)' = Of(q)
    BY <1>6 DEF Rows, Confs, Of, Made, device
  <2>2. srv'[p] = t /\ \A q \in Plan \ {p} : srv'[q] = srv[q]
    BY <1>2, <1>6
  <2>3. edits' = edits + 1 /\ told' = told /\ edits' >= edits
    BY <1>2, <1>6 DEF UserWrites
  <2>4. Locks'
    BY <1>6, LocksSame DEF LInv
  <2>5. Kept(t, Rows(p), Confs(p))
    BY <1>2, <1>3, <1>4, <1>6, KeptServerMoves
  <2>6. KeptAt(p)' /\ NotedAt(p)' /\ LineAt(p)'
    BY <1>6, <2>1, <2>2, <2>3, <2>5 DEF LInv, KeptAt, NotedAt, LineAt, device
  <2> QED BY <2>1, <2>2, <2>3, <2>4, <2>6, OnePlan
<1>7. ASSUME NEW t \in Row, s.ver > 0, ~ s.deleted, p \notin told, t.ver > s.ver,
             Onward(s.plan, t.plan, p), t.plan.series.no <= edits + 1
      PROVE  Line(t, Rows(p), Of(p), edits + 1, p)
  <2>1. Line(s, Rows(p), Of(p), edits, p)
    BY <1>4, <1>7
  <2>2. edits + 1 \in Nat /\ edits <= edits + 1 /\ {} \in SUBSET Payment
    BY <1>2
  <2>3. Line(t, Rows(p), Of(p) \cup {}, edits + 1, p)
    <3> HIDE DEF s
    <3> QED BY <1>2, <1>3, <1>5, <1>7, <2>1, <2>2, LineServerMoves
  <2>4. Of(p) \cup {} = Of(p)
    OBVIOUS
  <2> QED BY <2>3, <2>4
<1>8. CASE RestDeletes(p)
  <2> DEFINE t == [s EXCEPT !.ver = @ + 1, !.deleted = TRUE]
  <2>1. t \in Row
    BY <1>2, TombstoneTyped
  <2>3. t.ver = s.ver + 1 /\ t.deleted
    BY <1>2 DEF Row
  <2>2. /\ srv' = [srv EXCEPT ![p] = t] /\ UserWrites /\ Unlocked /\ s.ver > 0
        /\ UNCHANGED <<paid, job, device, told>>
    BY <1>2, <1>8 DEF RestDeletes, Live
  <2> HIDE DEF t, s
  <2>4. t.ver > s.ver
    BY <1>2, <2>3
  <2> QED BY <1>6, <2>1, <2>2, <2>3, <2>4
<1>9. ASSUME NEW g \in Fields, srv' = [srv EXCEPT ![p] = Written(@, g)],
             UserWrites, Unlocked, Live(s), UNCHANGED <<paid, job, device, told>>,
             p \notin told => Onward(s.plan, g, p) /\ g.series.no <= edits + 1
      PROVE  LInv'
  <2> DEFINE t == Written(s, g)
  <2>1. t \in Row
    BY <1>2, WrittenTyped
  <2>2. srv' = [srv EXCEPT ![p] = t] /\ s.ver > 0 /\ ~ s.deleted
    BY <1>9 DEF Live
  <2>3. t.ver = s.ver + 1 /\ t.deleted = s.deleted /\ t.plan = g
    BY <1>2 DEF Written, Row
  <2> HIDE DEF t, s
  <2>4. t.ver > s.ver
    BY <1>2, <2>3
  <2>5. p \notin told => Line(t, Rows(p), Of(p), edits + 1, p)
    BY <1>7, <1>9, <2>1, <2>2, <2>3, <2>4
  <2> QED BY <1>6, <1>9, <2>1, <2>2, <2>4, <2>5
<1>10. p \notin told /\ Live(s) => s.plan.series.no <= edits
  BY <1>4 DEF Live, Line, Counted
<1>11. ASSUME NEW mode \in Modes, RestUpdates(p, mode) PROVE LInv'
  <2> DEFINE g == [s.plan EXCEPT !.mode = mode]
  <2>1. g \in Fields /\ g.series = s.plan.series /\ g.nextDue = s.plan.nextDue
    BY <1>2 DEF Fields
  <2>2. srv' = [srv EXCEPT ![p] = Written(@, g)]
    BY <1>11 DEF RestUpdates
  <2>3. /\ UserWrites /\ Unlocked /\ Live(s) /\ UNCHANGED <<paid, job, device, told>>
    BY <1>11 DEF RestUpdates
  <2>4. s.plan.series.no \in Nat
    BY <1>2, FieldsParts
  <2> HIDE DEF g, s
  <2>5. p \notin told => Onward(s.plan, g, p) /\ g.series.no <= edits + 1
    BY <1>2, <1>10, <2>1, <2>3, <2>4, OnwardSame
  <2> QED BY <1>9, <2>1, <2>2, <2>3, <2>5
<1>12. ASSUME NEW due \in DueDates, RestSetsDue(p, due) PROVE LInv'
  <2> DEFINE g == Redated(s.plan, due, s.plan.mode)
  <2>1. srv' = [srv EXCEPT ![p] = Written(@, g)]
    BY <1>12 DEF RestSetsDue
  <2>2. /\ UserWrites /\ Unlocked /\ Live(s) /\ UNCHANGED <<paid, job, device, told>>
    BY <1>12 DEF RestSetsDue
  <2>3. g \in Fields
    BY <1>2, RedatedTyped
  <2>4. p \notin told => Onward(s.plan, g, p) /\ g.series.no <= edits + 1
    BY <1>2, <1>10, <2>2, RedatedMovesOn
  <2> HIDE DEF g
  <2> QED BY <1>9, <2>1, <2>2, <2>3, <2>4
<1>13. ASSUME NEW due \in DueDates, NEW mode \in Modes, RestCreates(p, due, mode)
       PROVE  LInv'
  <2> DEFINE g == NewFields(due, mode)
             t == [ver |-> 1, deleted |-> FALSE, plan |-> g]
  <2>1. g \in Fields /\ g.series.no = edits + 1
    BY <1>2, NewFieldsTyped DEF NewFields
  <2>2. t \in Row /\ t.ver = 1 /\ t.plan = g
    BY <2>1 DEF Row
  <2>3. /\ UserWrites /\ Unlocked /\ UNCHANGED <<paid, job, device, told>>
        /\ srv' = [srv EXCEPT ![p] = t] /\ s.ver = 0
        /\ \A d \in Device : Rows(p)[d].ver = 0
    BY <1>13 DEF RestCreates, Fresh, Rows
  <2> HIDE DEF g, t
  <2>4. ~ s.deleted
    BY <1>4, <2>3 DEF Kept
  <2>5. p \notin told => Line(t, Rows(p), Of(p), edits + 1, p)
    <3> SUFFICES ASSUME p \notin told PROVE Line(t, Rows(p), Of(p), edits + 1, p)
      OBVIOUS
    <3>1. Line(s, Rows(p), Of(p), edits, p) /\ t.ver > 0 /\ t.plan.series.no = edits + 1
      BY <1>4, <2>1, <2>2, <2>4
    <3> HIDE DEF s
    <3> QED BY <1>2, <1>3, <2>2, <2>3, <3>1, LineBorn
  <2>6. t.ver > s.ver
    BY <2>2, <2>3
  <2> HIDE DEF s
  <2> QED BY <1>6, <2>2, <2>3, <2>5, <2>6
<1> QED BY <1>1, <1>8, <1>11, <1>12, <1>13


(* The user of a device.                                                   *)

\* Writing the row of plan p on device d, with payments M.
LEMMA RowLine ==
  ASSUME LInv, TypeOK', NEW d \in Device, NEW p \in Plan, NEW q \in LocalRow,
         NEW M \in SUBSET Payment,
         dev' = [dev EXCEPT ![d][p] = q], UNCHANGED <<srv, job, conf, told>>,
         Made' = Made \cup M, \A b \in M : b.plan = p, edits' >= edits,
         RowKept(srv[p], q),
         srv[p].ver = 0 /\ q.ver > 0 => \A e \in Device \ {d} : Rows(p)[e].ver = 0,
         p \notin told /\ ~ srv[p].deleted =>
           Line(srv[p], [Rows(p) EXCEPT ![d] = q], Of(p) \cup M, edits', p)
  PROVE  LInv'
<1>1. TypeOK /\ KeptAt(p) /\ NotedAt(p)
  BY DEF LInv
<1>2. /\ Rows(p)' = [Rows(p) EXCEPT ![d] = q]
      /\ \A o \in Plan \ {p} : Rows(o)' = Rows(o)
  BY <1>1, RowWritten
<1>3. \A o \in Plan : Confs(o)' = Confs(o)
  BY DEF Confs
<1>4. Of(p)' = Of(p) \cup M /\ \A o \in Plan \ {p} : Of(o)' = Of(o)
  BY DEF Of
<1>5. Kept(srv[p], [Rows(p) EXCEPT ![d] = q], Confs(p))
  BY <1>1, AtPlan, KeptRow DEF KeptAt
<1>6. KeptAt(p)' /\ NotedAt(p)' /\ LineAt(p)'
  BY <1>1, <1>2, <1>3, <1>4, <1>5 DEF KeptAt, NotedAt, LineAt
<1>7. Locks'
  BY LocksSame DEF LInv
<1> QED BY <1>2, <1>3, <1>4, <1>6, <1>7, OnePlan

\* Settling the conflict about plan p on device d.
LEMMA SettledLine ==
  ASSUME LInv, TypeOK', NEW d \in Device, NEW p \in Plan, NEW q \in LocalRow,
         dev' = [dev EXCEPT ![d][p] = q], conf' = [conf EXCEPT ![d][p] = NoConflict],
         UNCHANGED <<server, bills, told, edits>>, p \in told,
         RowKept(srv[p], q), srv[p].ver > 0
  PROVE  LInv'
<1>1. TypeOK /\ KeptAt(p) /\ NotedAt(p) /\ edits \in Nat
  BY DEF LInv, TypeOK
<1>2. /\ Rows(p)' = [Rows(p) EXCEPT ![d] = q]
      /\ \A o \in Plan \ {p} : Rows(o)' = Rows(o)
  BY <1>1, RowWritten
<1>3. /\ Confs(p)' = [Confs(p) EXCEPT ![d] = NoConflict]
      /\ \A o \in Plan \ {p} : Confs(o)' = Confs(o)
  BY <1>1, ConfWritten
<1>4. \A o \in Plan : Of(o)' = Of(o)
  BY DEF Of, Made, server
<1>5. NoConflict \in Conflict /\ ConfKept(srv[p], NoConflict)
  BY NoFieldsTyped DEF NoConflict, Conflict, ConfKept
<1>6. Kept(srv[p], [Rows(p) EXCEPT ![d] = q], Confs(p))
  <2>1. /\ srv[p] \in Row /\ Rows(p) \in [Device -> LocalRow]
        /\ Confs(p) \in [Device -> Conflict] /\ srv[p].ver # 0
    BY <1>1, AtPlan
  <2>2. Kept(srv[p], Rows(p), Confs(p))
    BY <1>1 DEF KeptAt
  <2> QED BY <2>1, <2>2, KeptRow
<1>7. [Rows(p) EXCEPT ![d] = q] \in [Device -> LocalRow]
  BY <1>1, AtPlan
<1>8. Kept(srv[p], [Rows(p) EXCEPT ![d] = q], [Confs(p) EXCEPT ![d] = NoConflict])
  BY <1>1, <1>5, <1>6, <1>7, AtPlan, KeptConf
<1>9. KeptAt(p)' /\ NotedAt(p)' /\ LineAt(p)'
  BY <1>2, <1>3, <1>8 DEF KeptAt, NotedAt, LineAt, server
<1>10. Locks'
  BY LocksSame DEF LInv, server
<1> QED BY <1>1, <1>2, <1>3, <1>4, <1>9, <1>10, OnePlan DEF server

LEMMA UserLine == ASSUME LInv, TypeOK', UserStep PROVE LInv'
<1>1. PICK d \in Device :
        \/ UserConfirms(d)
        \/ \E p \in Plan :
             \/ UserRemoves(d, p) \/ UserOpensSheet(d, p)
             \/ UserKeepsLocal(d, p) \/ UserTakesServer(d, p)
             \/ \E due \in DueDates, mode \in Modes : UserCreates(d, p, due, mode)
             \/ \E mode \in Modes :
                  \E due \in DueDates \cup {dev[d][p].plan.nextDue} :
                     UserEdits(d, p, due, mode)
  BY DEF UserStep
<1>2. /\ TypeOK /\ edits \in Nat /\ sheet \in [Device -> Sheet \cup {NoSheet}]
      /\ bills \in [Device -> SUBSET Payment]
      /\ conf \in [Device -> [Plan -> Conflict]]
  BY DEF LInv, TypeOK
<1>3. ASSUME NEW p \in Plan
      PROVE  /\ srv[p] \in Row /\ srv[p].ver \in Nat
             /\ Rows(p) \in [Device -> LocalRow] /\ Of(p) \in SUBSET Payment
             /\ RowKept(srv[p], dev[d][p]) /\ ConfKept(srv[p], conf[d][p])
             /\ p \notin told /\ ~ srv[p].deleted =>
                  Line(srv[p], Rows(p), Of(p), edits, p)
  BY <1>2, AtPlan, AtRow DEF LInv, KeptAt, Kept, LineAt
<1>4. ASSUME NEW p \in Plan, dev[d][p].ver > 0, srv[p].ver = 0
      PROVE  \A e \in Device \ {d} : Rows(p)[e].ver = 0
  <2>1. KeptAt(p)
    BY DEF LInv
  <2>2. \A e \in Device : Rows(p)[e].ver \in Nat
    BY <1>2, AtRow
  <2> QED BY <1>2, <1>4, <2>1, <2>2, AtRow DEF KeptAt, Kept
<1>6. ASSUME NEW p \in Plan, Live(dev[d][p]), NEW g \in Fields, NEW M \in SUBSET Payment,
             NEW m \in Nat, edits <= m, dev' = [dev EXCEPT ![d][p] = Written(dev[d][p], g)],
             UNCHANGED <<srv, job, conf, told>>, Made' = Made \cup M, edits' = m,
             p \notin told /\ ~ srv[p].deleted =>
               Onward(dev[d][p].plan, g, p) /\ g.series.no <= m,
             \A b \in M : /\ b.plan = p /\ b.by = d
                          /\ b.series = dev[d][p].plan.series.no
                          /\ b.due = dev[d][p].plan.nextDue /\ Before(b, g, p),
             \A b \in M, c \in M : b = c
      PROVE  LInv'
  <2> DEFINE r == dev[d][p]
             q == Written(r, g)
             s == srv[p]
             R == Rows(p)
             B == Of(p)
  <2>1. /\ r \in LocalRow /\ r.ver \in Nat /\ r.sv \in Nat /\ R[d] = r
        /\ r.ver > 0 /\ ~ r.deleted
    BY <1>2, <1>6, AtRow DEF Live
  <2>2. q \in LocalRow
    BY <1>6, <2>1, WrittenTyped
  <2>3. q.ver = r.ver + 1 /\ q.sv = r.sv /\ q.deleted = r.deleted /\ q.plan = g
    BY <2>1 DEF Written, LocalRow
  <2>4. /\ s \in Row /\ R \in [Device -> LocalRow] /\ B \in SUBSET Payment
        /\ RowKept(s, r)
        /\ p \notin told /\ ~ s.deleted => Line(s, R, B, edits, p)
        /\ s.ver = 0 => \A e \in Device \ {d} : R[e].ver = 0
    BY <1>3, <1>4, <2>1
  <2>5. dev' = [dev EXCEPT ![d][p] = q]
    BY <1>6
  <2> HIDE DEF r, q, s, R, B
  <2>6. Dirty(q) /\ q.sv <= s.ver
    BY <2>1, <2>3, <2>4 DEF Dirty, Clean, RowKept
  <2>7. RowKept(s, q)
    BY <2>1, <2>3, <2>4, <2>6 DEF RowKept, Dirty
  <2>8. ASSUME p \notin told, ~ s.deleted
        PROVE  Line(s, [R EXCEPT ![d] = q], B \cup M, edits', p)
    <3>1. Line(s, R, B, edits, p) /\ R[d].ver > 0 /\ ~ R[d].deleted
      BY <2>1, <2>4, <2>8
    <3>2. q.sv = R[d].sv /\ ~ q.deleted
      BY <2>1, <2>3
    <3>3. Onward(R[d].plan, q.plan, p) /\ q.plan.series.no <= m
      BY <1>6, <2>1, <2>3, <2>8 DEF r, s
    <3>4. \A b \in M : /\ b.by = d /\ b.series = R[d].plan.series.no
                       /\ b.due = R[d].plan.nextDue /\ Before(b, q.plan, p)
      BY <1>6, <2>1, <2>3 DEF r
    <3>5. \A b \in M, c \in M : b = c
      BY <1>6
    <3> QED BY <1>2, <1>6, <2>2, <2>4, <2>6, <3>1, <3>2, <3>3, <3>4, <3>5, LineEdited
  <2>9. \A b \in M : b.plan = p
    BY <1>6
  <2>10. edits' >= edits
    BY <1>2, <1>6
  <2>11. srv[p].ver = 0 /\ q.ver > 0 => \A e \in Device \ {d} : Rows(p)[e].ver = 0
    BY <2>4 DEF s, R
  <2>12. RowKept(srv[p], q)
    BY <2>7 DEF s
  <2>13. p \notin told /\ ~ srv[p].deleted =>
           Line(srv[p], [Rows(p) EXCEPT ![d] = q], Of(p) \cup M, edits', p)
    BY <2>8 DEF s, R, B
  <2> QED BY <1>6, <2>2, <2>5, <2>9, <2>10, <2>11, <2>12, <2>13, RowLine
<1>7. CASE UserConfirms(d)
  <2> DEFINE p == sheet[d].plan
             r == dev[d][p]
             f == r.plan
             g == [f EXCEPT !.nextDue = LocalAdvance(@, f.anchorDate, Regularity[p])]
             b == [plan |-> p, series |-> r.plan.series.no, due |-> r.plan.nextDue,
                   dated |-> sheet[d].due, by |-> d, key |-> sheet[d].no]
  <2>1. sheet[d] \in Sheet
    BY <1>2, <1>7 DEF UserConfirms
  <2>2. p \in Plan
    BY <2>1 DEF Sheet
  <2>3. r \in LocalRow /\ f \in Fields
    BY <1>2, <2>2, AtRow
  <2>4. b \in Payment
    BY <2>1, <2>2, <2>3 DEF Payment, Sheet, Fields, Series
  <2>5. b.plan = p /\ b.by = d /\ b.series = f.series.no /\ b.due = f.nextDue
    OBVIOUS
  <2>6. g = [f EXCEPT !.nextDue = AdvanceNextDue(@, f.anchorDate, Regularity[p])]
    BY <2>2, <2>3, AdvancedDate
  <2>7. /\ dev' = [dev EXCEPT ![d][p] = Written(r, g)]
        /\ bills' = [bills EXCEPT ![d] = @ \cup {b}]
        /\ UNCHANGED <<srv, job, conf, paid, told, edits>> /\ Live(r)
    BY <1>7 DEF UserConfirms, DeviceWrites, server
  <2> HIDE DEF p, r, f, g, b
  <2>8. Made' = Made \cup {b}
    BY <1>2, <2>7 DEF Made
  <2>9. g \in Fields /\ g.series = f.series /\ Onward(f, g, p) /\ Before(b, g, p)
    BY <2>2, <2>3, <2>4, <2>5, <2>6, AdvancedMovesOn
  <2>10. p \notin told /\ ~ srv[p].deleted => g.series.no <= edits
    <3>1. r.ver > 0 /\ Rows(p)[d] = r
      BY <1>2, <2>2, <2>7, AtRow DEF Live, r
    <3> QED BY <1>3, <2>2, <2>9, <3>1 DEF Line, Counted, f
  <2>11. edits <= edits /\ {b} \in SUBSET Payment
    BY <1>2, <2>4
  <2> QED BY <1>2, <1>6, <2>2, <2>5, <2>7, <2>8, <2>9, <2>10, <2>11 DEF r, f
<1>8. ASSUME NEW p \in Plan, UserRemoves(d, p) PROVE LInv'
  <2> DEFINE r == dev[d][p]
             t == [r EXCEPT !.ver = @ + 1, !.deleted = TRUE]
             q == IF r.sv = 0 THEN NoRow ELSE t
             s == srv[p]
             R == Rows(p)
  <2>1. /\ r \in LocalRow /\ r.ver \in Nat /\ r.sv \in Nat /\ R[d] = r /\ r.ver > 0
    BY <1>2, <1>8, AtRow DEF UserRemoves, Live
  <2>2. t \in LocalRow
    BY <2>1, TombstoneTyped
  <2>3. t.ver = r.ver + 1 /\ t.sv = r.sv /\ t.deleted = TRUE /\ t.plan = r.plan
    BY <2>1 DEF LocalRow
  <2>4. NoRow \in LocalRow /\ NoRow.ver = 0 /\ NoRow.sv = 0 /\ NoRow.deleted = FALSE
    BY NoFieldsTyped DEF NoRow
  <2>5. /\ s \in Row /\ s.ver \in Nat /\ RowKept(s, r) /\ R \in [Device -> LocalRow]
        /\ p \notin told /\ ~ s.deleted => Line(s, R, Of(p), edits, p)
        /\ s.ver = 0 => \A e \in Device \ {d} : R[e].ver = 0
    BY <1>3, <1>4, <2>1
  <2>6. /\ dev' = [dev EXCEPT ![d][p] = q] /\ edits' = edits + 1
        /\ UNCHANGED <<srv, job, conf, told>> /\ Made' = Made \cup {}
    BY <1>8 DEF UserRemoves, DeviceWrites, UserWrites, server, Made
  <2> HIDE DEF r, t, s, R
  <2>7. \/ q.ver = 0 /\ s.ver = 0
        \/ Dirty(q) /\ q.deleted /\ q.plan = R[d].plan
    BY <2>1, <2>3, <2>4, <2>5 DEF Dirty, Clean, RowKept
  <2>8. q \in LocalRow /\ RowKept(s, q)
    BY <2>1, <2>2, <2>3, <2>4, <2>5 DEF RowKept, Clean
  <2> HIDE DEF q
  <2>9. p \notin told /\ ~ s.deleted =>
          Line(s, [R EXCEPT ![d] = q], Of(p) \cup {}, edits', p)
    <3> SUFFICES ASSUME p \notin told, ~ s.deleted
                 PROVE  Line(s, [R EXCEPT ![d] = q], Of(p), edits', p)
      OBVIOUS
    <3>1. Of(p) \in SUBSET Payment /\ edits' \in Nat /\ edits <= edits'
      BY <1>2, <1>3, <2>6
    <3>2. Line(s, [R EXCEPT ![d] = q], Of(p), edits, p)
      BY <1>2, <2>1, <2>5, <2>7, <2>8, <3>1, LineRemoved
    <3>3. [R EXCEPT ![d] = q] \in [Device -> LocalRow]
      BY <2>5, <2>8
    <3> QED BY <1>2, <2>5, <3>1, <3>2, <3>3, LineGrows
  <2>10. {} \in SUBSET Payment /\ edits' >= edits
    BY <1>2, <2>6
  <2>11. /\ RowKept(srv[p], q)
         /\ srv[p].ver = 0 /\ q.ver > 0 => \A e \in Device \ {d} : Rows(p)[e].ver = 0
         /\ p \notin told /\ ~ srv[p].deleted =>
              Line(srv[p], [Rows(p) EXCEPT ![d] = q], Of(p) \cup {}, edits', p)
    BY <2>5, <2>8, <2>9 DEF s, R
  <2> QED BY <2>6, <2>8, <2>10, <2>11, RowLine
<1>9. ASSUME NEW p \in Plan, UserOpensSheet(d, p) PROVE LInv'
  <2>1. /\ UNCHANGED <<srv, job, dev, conf, told>> /\ Made' = Made
        /\ edits' = edits + 1
    BY <1>9 DEF UserOpensSheet, UserWrites, server, Made
  <2>2. \A o \in Plan : Rows(o)' = Rows(o) /\ Confs(o)' = Confs(o) /\ Of(o)' = Of(o)
    BY <2>1 DEF Rows, Confs, Of
  <2>3. edits' \in Nat /\ edits <= edits' /\ edits' >= edits
    BY <1>2, <2>1
  <2>4. p \notin told /\ ~ srv[p].deleted => Line(srv[p], Rows(p), Of(p), edits', p)
    BY <1>2, <1>3, <2>3, LineGrows
  <2>5. KeptAt(p)' /\ NotedAt(p)' /\ LineAt(p)'
    BY <2>1, <2>2, <2>4 DEF LInv, KeptAt, NotedAt, LineAt
  <2>6. Locks'
    BY <2>1, LocksSame DEF LInv
  <2> QED BY <2>1, <2>2, <2>3, <2>5, <2>6, OnePlan
<1>10. ASSUME NEW p \in Plan, UserKeepsLocal(d, p) \/ UserTakesServer(d, p)
       PROVE  LInv'
  <2> DEFINE r == dev[d][p]
             c == conf[d][p].state
             s == srv[p]
             kept == [r EXCEPT !.sv = c.ver, !.ver = MaxOf(@, c.ver + 1)]
             taken == IF c.deleted THEN Buried(r, c.ver)
                      ELSE [ver |-> c.ver, sv |-> c.ver, deleted |-> FALSE,
                            plan |-> c.plan]
  <2>1. /\ r \in LocalRow /\ r.ver \in Nat /\ r.sv \in Nat
        /\ c \in Row /\ c.ver \in Nat /\ c.ver + 1 \in Nat
    BY <1>2, AtRow DEF Conflict, Row
  <2>2. kept \in LocalRow /\ taken \in LocalRow
    BY <2>1, CopyTyped
  <2>3. kept.sv = c.ver /\ kept.ver = MaxOf(r.ver, c.ver + 1)
    BY <2>1 DEF LocalRow
  <2>4. /\ taken.ver = c.ver /\ taken.sv = c.ver /\ taken.deleted = c.deleted
        /\ ~ c.deleted => taken.plan = c.plan
    BY <2>1 DEF Buried, LocalRow, Row
  <2>5. /\ conf[d][p].kind = "version"
        /\ conf' = [conf EXCEPT ![d][p] = NoConflict]
        /\ UNCHANGED <<server, bills, told, edits>>
        /\ \/ dev' = [dev EXCEPT ![d][p] = kept]
           \/ dev' = [dev EXCEPT ![d][p] = taken]
    <3>1. dev \in [Device -> [Plan -> LocalRow]]
      BY <1>2 DEF TypeOK
    <3>2. CASE UserKeepsLocal(d, p)
      <4>1. dev' = [dev EXCEPT ![d][p] = kept]
        BY <3>1, <3>2 DEF UserKeepsLocal
      <4> HIDE DEF kept, taken, r, s
      <4> QED BY <3>2, <4>1 DEF UserKeepsLocal
    <3>3. CASE UserTakesServer(d, p)
      <4>1. dev' = [dev EXCEPT ![d][p] = taken]
        BY <3>1, <3>3 DEF UserTakesServer
      <4> HIDE DEF kept, taken, r, s
      <4> QED BY <3>3, <4>1 DEF UserTakesServer
    <3> QED BY <1>10, <3>2, <3>3
  <2>6. s \in Row /\ s.ver \in Nat /\ RowKept(s, r) /\ c.ver > 0 /\ Reports(c, c.ver, s)
    BY <1>3, <2>5 DEF ConfKept
  <2>7. p \in told
    BY <2>5 DEF LInv, NotedAt
  <2> HIDE DEF r, c, s, kept, taken
  <2>8. s.ver > 0
    BY <2>1, <2>6 DEF Reports
  <2>9. RowKept(s, kept)
    BY <2>1, <2>3, <2>6 DEF RowKept, Reports, MaxOf, Clean
  <2>10. RowKept(s, taken)
    BY <2>1, <2>4, <2>6 DEF RowKept, Reports
  <2> QED BY <2>2, <2>5, <2>7, <2>8, <2>9, <2>10, SettledLine DEF s
<1>11. ASSUME NEW p \in Plan, NEW due \in DueDates, NEW mode \in Modes,
              UserCreates(d, p, due, mode)
       PROVE  LInv'
  <2> DEFINE g == NewFields(due, mode)
             q == [ver |-> 1, sv |-> 0, deleted |-> FALSE, plan |-> g]
             s == srv[p]
             R == Rows(p)
  <2>1. g \in Fields /\ g.series.no = edits + 1
    BY <1>2, NewFieldsTyped DEF NewFields
  <2>2. q \in LocalRow /\ q.ver = 1 /\ q.sv = 0 /\ q.deleted = FALSE /\ q.plan = g
    BY <2>1 DEF LocalRow
  <2>3. /\ dev' = [dev EXCEPT ![d][p] = q] /\ edits' = edits + 1
        /\ UNCHANGED <<srv, job, conf, told>> /\ Made' = Made \cup {} /\ s.ver = 0
        /\ \A e \in Device : R[e].ver = 0
    BY <1>11 DEF UserCreates, DeviceWrites, UserWrites, server, Made, Fresh, Rows
  <2>4. /\ s \in Row /\ R \in [Device -> LocalRow] /\ Of(p) \in SUBSET Payment
        /\ p \notin told /\ ~ s.deleted => Line(s, R, Of(p), edits, p)
    BY <1>3
  <2> HIDE DEF g, q, s, R
  <2>5. RowKept(s, q)
    BY <2>2, <2>3 DEF RowKept, Clean
  <2>6. q.plan.series.no = edits + 1
    BY <2>1, <2>2
  <2>7. p \notin told /\ ~ s.deleted =>
          Line(s, [R EXCEPT ![d] = q], Of(p), edits + 1, p)
    BY <1>2, <2>2, <2>3, <2>4, <2>6, LineCreated
  <2>8. Of(p) \cup {} = Of(p) /\ {} \in SUBSET Payment /\ edits' >= edits
    BY <1>2, <2>3
  <2>9. /\ RowKept(srv[p], q)
        /\ srv[p].ver = 0 /\ q.ver > 0 => \A e \in Device \ {d} : Rows(p)[e].ver = 0
        /\ p \notin told /\ ~ srv[p].deleted =>
             Line(srv[p], [Rows(p) EXCEPT ![d] = q], Of(p) \cup {}, edits', p)
    BY <2>3, <2>5, <2>7, <2>8 DEF s, R
  <2> QED BY <2>2, <2>3, <2>8, <2>9, RowLine
<1>12. ASSUME NEW p \in Plan, NEW mode \in Modes,
              NEW due \in DueDates \cup {dev[d][p].plan.nextDue},
              UserEdits(d, p, due, mode)
       PROVE  LInv'
  <2> DEFINE r == dev[d][p]
             g == Redated(r.plan, due, mode)
  <2>1. r \in LocalRow /\ r.plan \in Fields /\ Rows(p)[d] = r
    BY <1>2, AtRow
  <2>2. due \in Date
    BY <2>1, FieldsParts
  <2>3. g \in Fields
    BY <1>2, <2>1, <2>2, RedatedTyped
  <2>4. /\ dev' = [dev EXCEPT ![d][p] = Written(r, g)] /\ Live(r) /\ edits' = edits + 1
        /\ UNCHANGED <<srv, job, conf, told>> /\ Made' = Made \cup {}
    BY <1>12 DEF UserEdits, DeviceWrites, UserWrites, server, Made
  <2>5. p \notin told /\ ~ srv[p].deleted => r.plan.series.no <= edits
    BY <1>3, <2>1, <2>4 DEF Line, Counted, Live
  <2>6. p \notin told /\ ~ srv[p].deleted =>
          Onward(r.plan, g, p) /\ g.series.no <= edits + 1
    BY <1>2, <2>1, <2>2, <2>5, RedatedMovesOn
  <2>7. edits + 1 \in Nat /\ edits <= edits + 1 /\ {} \in SUBSET Payment
    BY <1>2
  <2> HIDE DEF g
  <2> QED BY <1>6, <2>3, <2>4, <2>6, <2>7
<1> QED BY <1>1, <1>7, <1>8, <1>9, <1>10, <1>11, <1>12


(* Sync.                                                                   *)

\* A push the server applies: its row becomes t, the device's q.
LEMMA PushedLine ==
  ASSUME LInv, TypeOK', NEW d \in Device, NEW p \in Plan, NEW t \in Row,
         NEW q \in LocalRow, dev' = [dev EXCEPT ![d][p] = q],
         srv' = [srv EXCEPT ![p] = t], UNCHANGED <<paid, job, bills, conf, told, edits>>,
         Unlocked, Kept(t, [Rows(p) EXCEPT ![d] = q], Confs(p)),
         p \notin told /\ ~ t.deleted =>
           Line(t, [Rows(p) EXCEPT ![d] = q], Of(p), edits, p)
  PROVE  LInv'
<1>1. TypeOK /\ edits \in Nat /\ srv \in [Plan -> Row]
  BY DEF LInv, TypeOK
<1>2. /\ Rows(p)' = [Rows(p) EXCEPT ![d] = q]
      /\ \A o \in Plan \ {p} : Rows(o)' = Rows(o)
  BY <1>1, RowWritten
<1>3. \A o \in Plan : Confs(o)' = Confs(o) /\ Of(o)' = Of(o)
  BY DEF Confs, Of, Made
<1>4. srv'[p] = t /\ \A o \in Plan \ {p} : srv'[o] = srv[o]
  BY <1>1
<1>5. KeptAt(p)' /\ NotedAt(p)' /\ LineAt(p)'
  BY <1>2, <1>3, <1>4 DEF LInv, KeptAt, NotedAt, LineAt
<1>6. Locks'
  BY LocksSame DEF LInv
<1>7. edits' >= edits
  BY <1>1
<1> QED BY <1>2, <1>3, <1>4, <1>5, <1>6, <1>7, OnePlan

\* A conflict is noted.
LEMMA NotedLine ==
  ASSUME LInv, TypeOK', NEW d \in Device, NEW p \in Plan, NEW kind \in {"version", "deleted"},
         NEW q \in LocalRow, ConflictOf(d, p, kind, srv[p], q),
         UNCHANGED <<server, bills, sheet, edits, aborts>>, srv[p].ver > 0,
         RowKept(srv[p], q)
  PROVE  LInv'
<1> DEFINE c == [kind |-> kind, state |-> srv[p]]
<1>1. TypeOK /\ KeptAt(p) /\ edits \in Nat /\ srv[p] \in Row /\ srv[p].ver \in Nat
  BY AtPlan DEF LInv, TypeOK
<1>2. /\ dev' = [dev EXCEPT ![d][p] = q] /\ conf' = [conf EXCEPT ![d][p] = c]
      /\ told' = told \cup {p}
  BY DEF ConflictOf
<1>3. c \in Conflict
  BY <1>1 DEF Conflict
<1>4. ConfKept(srv[p], c)
  BY <1>1 DEF ConfKept, Reports
<1> HIDE DEF c
<1>5. /\ Rows(p)' = [Rows(p) EXCEPT ![d] = q]
      /\ \A o \in Plan \ {p} : Rows(o)' = Rows(o)
  BY <1>1, <1>2, RowWritten
<1>6. /\ Confs(p)' = [Confs(p) EXCEPT ![d] = c]
      /\ \A o \in Plan \ {p} : Confs(o)' = Confs(o)
  BY <1>1, <1>2, ConfWritten
<1>7. \A o \in Plan : Of(o)' = Of(o)
  BY DEF Of, Made, server
<1>8. Kept(srv[p], [Rows(p) EXCEPT ![d] = q], Confs(p))
  <2>1. /\ Rows(p) \in [Device -> LocalRow] /\ Confs(p) \in [Device -> Conflict]
        /\ srv[p].ver # 0
    BY <1>1, AtPlan
  <2>2. Kept(srv[p], Rows(p), Confs(p))
    BY <1>1 DEF KeptAt
  <2> QED BY <1>1, <2>1, <2>2, KeptRow
<1>9. [Rows(p) EXCEPT ![d] = q] \in [Device -> LocalRow]
  BY <1>1, AtPlan
<1>10. Kept(srv[p], [Rows(p) EXCEPT ![d] = q], [Confs(p) EXCEPT ![d] = c])
  BY <1>1, <1>3, <1>4, <1>8, <1>9, AtPlan, KeptConf
<1>11. KeptAt(p)' /\ NotedAt(p)' /\ LineAt(p)'
  BY <1>2, <1>5, <1>6, <1>10 DEF KeptAt, NotedAt, LineAt, server
<1>12. Locks'
  BY LocksSame DEF LInv, server
<1>13. edits' >= edits /\ told \subseteq told'
  BY <1>1, <1>2
<1> QED BY <1>5, <1>6, <1>7, <1>11, <1>12, <1>13, OnePlan DEF server

LEMMA SyncLine == ASSUME LInv, TypeOK', SyncStep PROVE LInv'
<1>1. PICK d \in Device :
        \/ \E b \in bills[d] : PushesBill(d, b)
        \/ \E p \in Plan :
             \/ PushesCreate(d, p) \/ PushesUpdate(d, p) \/ PushesDelete(d, p)
             \/ PushRefused(d, p) \/ PullsOver(d, p) \/ PullsAgainst(d, p)
  BY DEF SyncStep
<1>2. TypeOK /\ edits \in Nat /\ bills \in [Device -> SUBSET Payment]
  BY DEF LInv, TypeOK
<1>3. ASSUME NEW b \in bills[d], PushesBill(d, b) PROVE LInv'
  <2>1. /\ bills' = [bills EXCEPT ![d] = @ \ {b}] /\ paid' = paid \cup {b}
        /\ UNCHANGED <<srv, job, dev, conf, told, edits>>
    BY <1>3 DEF PushesBill
  <2>2. Made' = Made
    <3>1. bills'[d] = bills[d] \ {b} /\ \A e \in Device \ {d} : bills'[e] = bills[e]
      BY <1>2, <2>1
    <3>2. ASSUME NEW c PROVE c \in Made' <=> c \in Made
      <4>1. c \in Made' <=> c \in paid \/ c = b \/ \E e \in Device : c \in bills'[e]
        BY <2>1 DEF Made
      <4>2. c \in Made <=> c \in paid \/ \E e \in Device : c \in bills[e]
        BY DEF Made
      <4>3. (\E e \in Device : c \in bills'[e]) => \E e \in Device : c \in bills[e]
        BY <3>1
      <4>4. (\E e \in Device : c \in bills[e]) =>
              c = b \/ \E e \in Device : c \in bills'[e]
        BY <3>1
      <4>5. c = b => \E e \in Device : c \in bills[e]
        OBVIOUS
      <4> QED BY <4>1, <4>2, <4>3, <4>4, <4>5
    <3> QED BY <3>2
  <2>3. \A p \in Plan : Rows(p)' = Rows(p) /\ Confs(p)' = Confs(p) /\ Of(p)' = Of(p)
    BY <2>1, <2>2 DEF Rows, Confs, Of
  <2>4. Locks'
    BY <2>1, LocksSame DEF LInv
  <2> QED BY <2>1, <2>3, <2>4 DEF LInv, KeptAt, NotedAt, LineAt
<1>4. ASSUME NEW p \in Plan,
             \/ PushesCreate(d, p) \/ PushesUpdate(d, p) \/ PushesDelete(d, p)
             \/ PushRefused(d, p) \/ PullsOver(d, p) \/ PullsAgainst(d, p)
      PROVE  LInv'
  <2> DEFINE r == dev[d][p]
             s == srv[p]
             R == Rows(p)
  <2>1. /\ r \in LocalRow /\ r.plan \in Fields /\ r.ver \in Nat /\ r.sv \in Nat
        /\ r.deleted \in BOOLEAN /\ R[d] = r
        /\ s \in Row /\ s.ver \in Nat /\ s.plan \in Fields /\ s.ver + 1 \in Nat
        /\ R \in [Device -> LocalRow] /\ Confs(p) \in [Device -> Conflict]
        /\ Of(p) \in SUBSET Payment
    BY <1>2, AtPlan, AtRow
  <2>2. Kept(s, R, Confs(p)) /\ (p \notin told /\ ~ s.deleted =>
                                   Line(s, R, Of(p), edits, p))
    BY DEF LInv, KeptAt, LineAt
  <2>3. /\ RowKept(s, r) /\ \A e \in Device : R[e].sv <= s.ver
        /\ s.deleted => s.ver > 0
    BY <2>1, <2>2 DEF Kept, RowKept
  <2>4. /\ Buried(r, s.ver) \in LocalRow /\ ConfirmedAt(r, s.ver) \in LocalRow
        /\ [ver |-> s.ver, sv |-> s.ver, deleted |-> FALSE, plan |-> s.plan] \in LocalRow
        /\ [r EXCEPT !.sv = s.ver, !.ver = MaxOf(@, s.ver + 1)] \in LocalRow
    BY <2>1, CopyTyped
  <2>5. \A v \in Nat :
          LET q == ConfirmedAt(r, v)
          IN  /\ q \in LocalRow /\ q.ver = v /\ q.sv = v /\ q.deleted = r.deleted
              /\ q.plan = r.plan
    BY <2>1 DEF ConfirmedAt, LocalRow
  <2>6. ASSUME NEW t \in Row, Applied(d, p, t, r), Unlocked,
               Kept(t, [R EXCEPT ![d] = ConfirmedAt(r, t.ver)], Confs(p)),
               p \notin told /\ ~ t.deleted =>
                 Line(t, [R EXCEPT ![d] = ConfirmedAt(r, t.ver)], Of(p), edits, p)
        PROVE  LInv'
    <3> DEFINE q == ConfirmedAt(r, t.ver)
    <3>1. q \in LocalRow
      BY <2>5, <2>6 DEF Row
    <3>2. /\ dev' = [dev EXCEPT ![d][p] = q] /\ srv' = [srv EXCEPT ![p] = t]
          /\ UNCHANGED <<paid, job, bills, conf, told, edits>>
      BY <2>6 DEF Applied
    <3> HIDE DEF q
    <3>3. /\ Kept(t, [R EXCEPT ![d] = q], Confs(p))
          /\ p \notin told /\ ~ t.deleted => Line(t, [R EXCEPT ![d] = q], Of(p), edits, p)
      BY <2>6 DEF q
    <3> QED BY <2>6, <3>1, <3>2, <3>3, PushedLine
  <2>7. ASSUME NEW t \in Row, Applied(d, p, t, r), Unlocked, Pending(d, p), ~ r.deleted,
               ~ s.deleted, r.sv = s.ver, t.ver = s.ver + 1, ~ t.deleted,
               t.plan.series = r.plan.series, t.plan.nextDue = r.plan.nextDue,
               t.plan.mode = r.plan.mode
        PROVE  LInv'
    <3> DEFINE q == ConfirmedAt(r, t.ver)
    <3>1. /\ q \in LocalRow /\ q.ver = t.ver /\ q.sv = t.ver /\ q.deleted = r.deleted
          /\ q.plan = r.plan /\ t.ver \in Nat /\ t.ver > s.ver /\ r.ver > 0
      BY <2>1, <2>5, <2>7 DEF Pending
    <3> HIDE DEF q, r, s, R
    <3>2. RowKept(t, q) /\ ~ Dirty(q)
      <4>1. /\ ~ q.deleted /\ q.deleted = t.deleted /\ q.plan.nextDue = t.plan.nextDue
            /\ q.plan.mode = t.plan.mode
        <5>1. t.deleted \in BOOLEAN /\ q.deleted \in BOOLEAN
          BY <3>1 DEF Row, LocalRow
        <5> QED BY <2>7, <3>1, <5>1
      <4>2. q.ver > 0 /\ t.ver > 0 /\ q.ver = t.ver /\ q.sv = t.ver /\ t.ver \in Nat
        BY <2>1, <3>1
      <4>3. Reports(q, q.sv, t)
        BY <4>1, <4>2 DEF Reports
      <4>4. RowKept(t, q)
        BY <4>1, <4>2, <4>3 DEF RowKept
      <4> QED BY <4>2, <4>4 DEF Dirty, Clean
    <3>3. Kept(t, [R EXCEPT ![d] = q], Confs(p))
      BY <2>1, <2>2, <3>1, <3>2, KeptPushed
    <3>4. s.ver = 0 => \A e \in Device \ {d} : R[e].ver = 0
      <4>1. \A e \in Device : R[e].ver \in Nat
        BY <2>1 DEF LocalRow
      <4> QED BY <2>1, <2>2, <3>1, <4>1 DEF Kept
    <3>5. p \notin told => Line(t, [R EXCEPT ![d] = q], Of(p), edits, p)
      <4> SUFFICES ASSUME p \notin told
                   PROVE  Line(t, [R EXCEPT ![d] = q], Of(p), edits, p)
        OBVIOUS
      <4>1. Line(s, R, Of(p), edits, p)
        BY <2>2, <2>7
      <4>2. /\ R[d].ver > 0 /\ ~ R[d].deleted /\ R[d].sv = s.ver
            /\ t.plan.series = R[d].plan.series /\ t.plan.nextDue = R[d].plan.nextDue
            /\ q.plan = R[d].plan
        BY <2>1, <2>7, <3>1
      <4> QED BY <1>2, <2>1, <2>3, <3>1, <3>2, <3>4, <4>1, <4>2, LinePushed
    <3> QED BY <2>6, <2>7, <3>3, <3>5 DEF q
  <2>8. CASE PushesCreate(d, p)
    <3> DEFINE t == [ver |-> 1, deleted |-> FALSE, plan |-> CreatedFields(r.plan)]
    <3>1. CreatedFields(r.plan) \in Fields
      BY <2>1 DEF CreatedFields, Fields
    <3>2. /\ CreatedFields(r.plan).series = r.plan.series
          /\ CreatedFields(r.plan).nextDue = r.plan.nextDue
          /\ CreatedFields(r.plan).mode = r.plan.mode
      BY <2>1 DEF CreatedFields, Fields
    <3>3. t \in Row
      BY <3>1 DEF Row
    <3>4. /\ Applied(d, p, t, r) /\ Unlocked /\ Pending(d, p) /\ ~ r.deleted /\ r.sv = 0
          /\ s.ver = 0
      BY <2>8 DEF PushesCreate
    <3>5. ~ s.deleted /\ r.sv = s.ver /\ t.ver = s.ver + 1
      BY <2>1, <2>3, <3>4
    <3>6. /\ ~ t.deleted /\ t.plan.series = r.plan.series
          /\ t.plan.nextDue = r.plan.nextDue /\ t.plan.mode = r.plan.mode
      BY <3>2
    <3> HIDE DEF t, s, r
    <3> QED BY <2>7, <3>3, <3>4, <3>5, <3>6
  <2>9. CASE PushesUpdate(d, p)
    <3> DEFINE t == [ver |-> r.sv + 1, deleted |-> FALSE, plan |-> r.plan]
    <3>1. t \in Row
      BY <2>1 DEF Row
    <3>2. /\ Applied(d, p, t, r) /\ Unlocked /\ Pending(d, p) /\ ~ r.deleted
          /\ ~ s.deleted /\ s.ver = r.sv
      BY <2>9 DEF PushesUpdate, Live
    <3>3. t.ver = s.ver + 1 /\ ~ t.deleted /\ t.plan = r.plan
      BY <3>2
    <3> HIDE DEF t, s, r
    <3> QED BY <2>7, <3>1, <3>2, <3>3
  <2>10. CASE PushesDelete(d, p)
    <3> DEFINE t == IF Live(s) THEN [s EXCEPT !.ver = @ + 1, !.deleted = TRUE] ELSE s
               q == ConfirmedAt(r, t.ver)
    <3>1. Applied(d, p, t, r) /\ Unlocked /\ Pending(d, p) /\ r.deleted
      BY <2>10 DEF PushesDelete
    <3>2. t \in Row
      BY <2>1, TombstoneTyped
    <3>3. s.ver > 0
      BY <2>1, <2>3, <3>1 DEF RowKept
    <3>4. /\ Live(s) => t.ver = s.ver + 1 /\ t.deleted
          /\ ~ Live(s) => t = s /\ s.deleted
      BY <2>1, <3>3 DEF Live, Row
    <3>5. t.ver \in Nat
      BY <3>2 DEF Row
    <3>6. /\ q \in LocalRow /\ q.ver = t.ver /\ q.sv = t.ver /\ q.deleted
      BY <2>5, <3>1, <3>5
    <3>7. r.ver > 0
      BY <3>1 DEF Pending
    <3> HIDE DEF t, q, r, s, R
    <3>8. t.deleted
      BY <3>4
    <3>9. t.ver > 0
      BY <2>1, <3>3, <3>4
    <3>10. RowKept(t, q)
      BY <3>5, <3>6, <3>8, <3>9 DEF RowKept, Reports
    <3>11. Kept(t, [R EXCEPT ![d] = q], Confs(p))
      <4>1. CASE Live(s)
        <5>1. t.ver > s.ver
          BY <2>1, <3>4, <4>1
        <5> QED BY <2>1, <2>2, <3>2, <3>6, <3>7, <3>10, <5>1, KeptPushed
      <4>2. CASE ~ Live(s)
        <5>1. t = s /\ s.ver # 0
          BY <2>1, <3>3, <3>4, <4>2
        <5> QED BY <2>1, <2>2, <3>6, <3>10, <5>1, KeptRow
      <4> QED BY <4>1, <4>2
    <3> QED BY <2>6, <3>1, <3>2, <3>8, <3>11 DEF q
  <2>11. ASSUME s.ver > 0, \/ ConflictOf(d, p, "deleted", s, Buried(r, s.ver)) /\ s.deleted
                           \/ ConflictOf(d, p, "version", s, r)
                           \/ /\ r.deleted
                              /\ ConflictOf(d, p, "deleted", s,
                                   [r EXCEPT !.sv = s.ver, !.ver = MaxOf(@, s.ver + 1)]),
                UNCHANGED <<server, bills, sheet, edits, aborts>>
         PROVE  LInv'
    <3> DEFINE buried == Buried(r, s.ver)
               risen == [r EXCEPT !.sv = s.ver, !.ver = MaxOf(@, s.ver + 1)]
    <3>1. buried.ver = s.ver /\ buried.sv = s.ver /\ buried.deleted
      BY <2>1 DEF Buried, LocalRow
    <3>2. risen.sv = s.ver /\ risen.ver = MaxOf(r.ver, s.ver + 1)
      BY <2>1 DEF LocalRow
    <3>3. buried \in LocalRow /\ risen \in LocalRow
      BY <2>4
    <3> HIDE DEF buried, risen
    <3>4. s.deleted => RowKept(s, buried)
      BY <2>1, <2>11, <3>1 DEF RowKept, Reports
    <3>5. RowKept(s, risen)
      BY <2>1, <2>11, <3>2 DEF RowKept, MaxOf, Clean
    <3>6. \/ ConflictOf(d, p, "deleted", s, buried) /\ s.deleted
          \/ ConflictOf(d, p, "version", s, r)
          \/ ConflictOf(d, p, "deleted", s, risen)
      BY <2>11 DEF buried, risen
    <3>7. CASE ConflictOf(d, p, "deleted", s, buried) /\ s.deleted
      BY <2>11, <3>3, <3>4, <3>7, NotedLine
    <3>8. CASE ConflictOf(d, p, "version", s, r)
      BY <2>1, <2>3, <2>11, <3>8, NotedLine
    <3>9. CASE ConflictOf(d, p, "deleted", s, risen)
      BY <2>11, <3>3, <3>5, <3>9, NotedLine
    <3> QED BY <3>6, <3>7, <3>8, <3>9
  <2>12. CASE PushRefused(d, p)
    <3>1. /\ s.ver > 0 /\ UNCHANGED <<server, bills, sheet, edits, aborts>>
          /\ IF s.deleted THEN ConflictOf(d, p, "deleted", s, Buried(r, s.ver))
             ELSE ConflictOf(d, p, "version", s, r)
      BY <2>12 DEF PushRefused
    <3> HIDE DEF r, s
    <3> QED BY <2>11, <3>1
  <2>13. ASSUME NEW q \in LocalRow, dev' = [dev EXCEPT ![d][p] = q],
                UNCHANGED <<server, bills, conf, sheet, told, edits, aborts>>,
                RowKept(s, q), s.ver > 0,
                p \notin told /\ ~ s.deleted =>
                  Line(s, [R EXCEPT ![d] = q], Of(p), edits, p)
         PROVE  LInv'
    <3>1. /\ UNCHANGED <<srv, job, conf, told>> /\ Made' = Made \cup {} /\ edits' >= edits
          /\ {} \in SUBSET Payment
      BY <1>2, <2>13 DEF server, Made
    <3>2. srv[p].ver = 0 /\ q.ver > 0 => \A e \in Device \ {d} : Rows(p)[e].ver = 0
      BY <2>1, <2>13
    <3>3. p \notin told /\ ~ srv[p].deleted =>
            Line(srv[p], [Rows(p) EXCEPT ![d] = q], Of(p) \cup {}, edits', p)
      BY <2>13
    <3> QED BY <2>13, <3>1, <3>2, <3>3, RowLine
  <2>14. CASE PullsOver(d, p)
    <3> DEFINE copy == [ver |-> s.ver, sv |-> s.ver, deleted |-> FALSE, plan |-> s.plan]
               q == IF s.deleted THEN Buried(r, s.ver) ELSE copy
    <3>1. /\ dev' = [dev EXCEPT ![d][p] = q] /\ s.ver > r.sv /\ Clean(r)
          /\ UNCHANGED <<server, bills, conf, sheet, told, edits, aborts>>
      BY <2>14 DEF PullsOver
    <3>2. /\ q \in LocalRow /\ q.ver = s.ver /\ q.sv = s.ver /\ q.deleted = s.deleted
          /\ ~ s.deleted => q.plan = s.plan
      BY <2>1, <2>4 DEF Buried, LocalRow, Row
    <3> HIDE DEF q, copy, r, s, R
    <3>3. s.ver > 0
      BY <2>1, <3>1
    <3>4. RowKept(s, q)
      BY <2>1, <3>2, <3>3 DEF RowKept, Reports
    <3>5. ~ Dirty(R[d]) /\ ~ Dirty(q)
      BY <2>1, <3>1, <3>2 DEF Dirty, Clean
    <3>6. p \notin told /\ ~ s.deleted => Line(s, [R EXCEPT ![d] = q], Of(p), edits, p)
      BY <1>2, <2>1, <2>2, <3>2, <3>3, <3>5, LinePulled
    <3> QED BY <2>13, <3>1, <3>2, <3>3, <3>4, <3>6
  <2>15. CASE PullsAgainst(d, p)
    <3> DEFINE q == ConfirmedAt(r, s.ver)
    <3>1. s.ver > r.sv
      BY <2>15 DEF PullsAgainst
    <3>2. s.ver > 0
      BY <2>1, <3>1
    <3>3. CASE s.deleted /\ r.deleted /\ dev' = [dev EXCEPT ![d][p] = q]
                 /\ UNCHANGED <<server, bills, conf, sheet, told, edits, aborts>>
      <4>1. q \in LocalRow /\ q.ver = s.ver /\ q.sv = s.ver /\ q.deleted = r.deleted
        BY <2>1, <2>5
      <4> HIDE DEF q, r, s, R
      <4>2. RowKept(s, q)
        BY <2>1, <3>2, <3>3, <4>1 DEF RowKept, Reports
      <4> QED BY <2>13, <3>2, <3>3, <4>1, <4>2
    <3>4. \/ s.deleted /\ r.deleted /\ dev' = [dev EXCEPT ![d][p] = q]
               /\ UNCHANGED <<server, bills, conf, sheet, told, edits, aborts>>
          \/ /\ \/ ConflictOf(d, p, "deleted", s, Buried(r, s.ver)) /\ s.deleted
                \/ ConflictOf(d, p, "version", s, r)
                \/ /\ r.deleted
                   /\ ConflictOf(d, p, "deleted", s,
                        [r EXCEPT !.sv = s.ver, !.ver = MaxOf(@, s.ver + 1)])
             /\ UNCHANGED <<server, bills, sheet, edits, aborts>>
      <4> HIDE DEF R
      <4> QED BY <2>15 DEF PullsAgainst
    <3> QED BY <2>11, <3>2, <3>3, <3>4
  <2> QED BY <1>4, <2>8, <2>9, <2>10, <2>12, <2>14, <2>15
<1> QED BY <1>1, <1>3, <1>4

LEMMA StepLine == LInv /\ [Next]_vars => LInv'
<1> SUFFICES ASSUME LInv, [Next]_vars PROVE LInv'
  OBVIOUS
<1>1. TypeOK'
  BY StepTyped DEF LInv
<1>2. CASE DayPasses \/ UNCHANGED vars
  <2>1. UNCHANGED <<srv, paid, job, dev, bills, conf, told, edits>>
    BY <1>2 DEF DayPasses, vars
  <2>2. \A p \in Plan : Rows(p)' = Rows(p) /\ Confs(p)' = Confs(p) /\ Of(p)' = Of(p)
    BY <2>1 DEF Rows, Confs, Of, Made
  <2>3. Locks'
    BY <2>1, LocksSame DEF LInv
  <2> QED BY <1>1, <2>1, <2>2, <2>3 DEF LInv, KeptAt, NotedAt, LineAt
<1>3. CASE JobStep
  BY <1>1, <1>3, JobLine DEF JobStep
<1> QED BY <1>1, <1>2, <1>3, RestLine, UserLine, SyncLine DEF Next

LEMMA LineAlways == Spec => []LInv
<1>1. Init => LInv
  BY InitLine
<1> QED BY <1>1, StepLine, PTL DEF Spec


\* A device with nothing to push about a plan and at the server's version
\* shows the server's due date and mode, though the server may have another
\* anchor (the create of the plan adapter, applyPullChange, handlePushConflict).
THEOREM CleanDevicesAgree == Spec => []CleanSameDue
<1>1. LInv => CleanSameDue
  <2> SUFFICES ASSUME LInv, NEW d \in Device, NEW p \in Plan,
                      dev[d][p].ver > 0, Clean(dev[d][p]), dev[d][p].sv = srv[p].ver
               PROVE  /\ dev[d][p].deleted = srv[p].deleted
                      /\ ~ dev[d][p].deleted =>
                           /\ dev[d][p].plan.nextDue = srv[p].plan.nextDue
                           /\ dev[d][p].plan.mode = srv[p].plan.mode
    BY DEF CleanSameDue
  <2>1. RowKept(srv[p], dev[d][p])
    BY AtRow DEF LInv, KeptAt, Kept
  <2> QED BY <2>1 DEF RowKept, Reports
<1> QED BY <1>1, LineAlways, PTL

\* Reruns, overlapping sweeps, rollbacks and retries never pay an occurrence
\* twice; two confirmations of it on devices end in a conflict or in the
\* plan's deletion (the household lock around the sweep, the version check of
\* SyncReplacePlannedPayment).
THEOREM NeverPaidTwiceUntold == Spec => []PaidTwiceIsTold
<1>1. LInv => PaidTwiceIsTold
  <2> SUFFICES ASSUME LInv, NEW p \in Plan \ told, Live(srv[p]),
                      \A d \in Device : Clean(dev[d][p]),
                      NEW b \in {e \in paid : e.plan = p},
                      NEW c \in {e \in paid : e.plan = p}, SameOccurrence(b, c)
               PROVE  b = c
    BY DEF PaidTwiceIsTold
  <2>1. Line(srv[p], Rows(p), Of(p), edits, p) /\ srv[p].ver > 0
    BY DEF LInv, LineAt, Live
  <2>2. b \in Of(p) /\ c \in Of(p) /\ Twin(b, c, p)
    BY DEF Of, Made, SameOccurrence, Twin
  <2>3. \A d \in Device : ~ Dirty(Rows(p)[d])
    BY DEF Dirty, Rows
  <2> QED BY <2>1, <2>2, <2>3 DEF Line, Apart, Excused
<1> QED BY <1>1, LineAlways, PTL

\* How the server's row of a plan may change in a step.
LEMMA StepMovesOn ==
  ASSUME LInv, [Next]_vars, NEW p \in Plan, p \notin told', Live(srv[p]), Live(srv[p])'
  PROVE  Onward(srv[p].plan, srv[p].plan', p)
<1> DEFINE s == srv[p]
<1>1. /\ TypeOK /\ srv \in [Plan -> Row] /\ s \in Row /\ s.plan \in Fields
      /\ s.ver \in Nat /\ edits \in Nat /\ s.plan.mode \in Modes
      /\ job \in [Sweeper -> Sweep]
  BY DEF LInv, TypeOK, Row, Fields
<1>2. CASE srv' = srv \/ srv'[p] = s \/ s.plan' = s.plan
  BY <1>1, <1>2, OnwardSame
<1>3. p \notin told => Line(s, Rows(p), Of(p), edits, p)
  BY DEF LInv, LineAt, Live
<1>4. ASSUME JobStep PROVE Onward(s.plan, s.plan', p)
  <2>1. PICK j \in Sweeper : \/ JobLists(j) \/ JobLocks(j) \/ JobCommits(j) \/ JobAborts(j)
                             \/ \E q \in Plan : JobExecutes(j, q)
    BY <1>4 DEF JobStep
  <2>2. CASE ~ JobCommits(j)
    BY <1>2, <2>1, <2>2 DEF JobLists, JobLocks, JobAborts, JobExecutes
  <2>3. CASE JobCommits(j)
    <3>1. job[j].step = "locked" /\ srv' = job[j].row
      BY <2>3 DEF JobCommits
    <3>2. Advancing(s, s', MadeOf(j, p), j, p)
      BY <3>1 DEF LInv, Locks
    <3> QED BY <1>2, <3>2 DEF Advancing
  <2> QED BY <2>2, <2>3
<1>5. ASSUME RestStep PROVE Onward(s.plan, s.plan', p)
  <2>1. PICK q \in Plan :
          \/ RestDeletes(q)
          \/ \E mode \in Modes : RestUpdates(q, mode)
          \/ \E due \in DueDates : RestSetsDue(q, due)
          \/ \E due \in DueDates, mode \in Modes : RestCreates(q, due, mode)
    BY <1>5 DEF RestStep
  <2>2. CASE q # p
    BY <1>1, <1>2, <2>1, <2>2 DEF RestDeletes, RestUpdates, RestSetsDue, RestCreates
  <2>3. CASE q = p
    <3>1. CASE RestDeletes(p)
      BY <1>1, <3>1 DEF RestDeletes, Live
    <3>2. ASSUME NEW mode \in Modes, RestUpdates(p, mode) PROVE Onward(s.plan, s.plan', p)
      <4> DEFINE g == [s.plan EXCEPT !.mode = mode]
      <4>1. g \in Fields /\ g.series = s.plan.series /\ g.nextDue = s.plan.nextDue
        BY <1>1 DEF Fields
      <4>2. s.plan' = g
        BY <1>1, <3>2 DEF RestUpdates, Written, Row
      <4> HIDE DEF g, s
      <4>3. Onward(s.plan, g, p)
        BY <1>1, <4>1, OnwardSame
      <4> QED BY <4>2, <4>3
    <3>3. ASSUME NEW due \in DueDates, RestSetsDue(p, due) PROVE Onward(s.plan, s.plan', p)
      <4> DEFINE g == Redated(s.plan, due, s.plan.mode)
      <4>1. s.plan' = g /\ told' = told
        BY <1>1, <3>3 DEF RestSetsDue, Written, Row
      <4>2. s.plan.series.no <= edits
        BY <1>3, <4>1 DEF Line, Counted, Live
      <4>3. Onward(s.plan, g, p)
        BY <1>1, <4>2, RedatedMovesOn
      <4> QED BY <4>1, <4>3
    <3>4. ASSUME NEW due \in DueDates, NEW mode \in Modes, RestCreates(p, due, mode)
          PROVE  FALSE
      BY <1>1, <3>4 DEF RestCreates, Fresh, Live
    <3> QED BY <2>1, <2>3, <3>1, <3>2, <3>3, <3>4
  <2> QED BY <2>2, <2>3
<1>6. ASSUME UserStep PROVE srv' = srv
  <2>1. PICK d \in Device :
          \/ UserConfirms(d)
          \/ \E q \in Plan :
               \/ UserRemoves(d, q) \/ UserOpensSheet(d, q)
               \/ UserKeepsLocal(d, q) \/ UserTakesServer(d, q)
               \/ \E due \in DueDates, mode \in Modes : UserCreates(d, q, due, mode)
               \/ \E mode \in Modes :
                    \E due \in DueDates \cup {dev[d][q].plan.nextDue} :
                       UserEdits(d, q, due, mode)
    BY <1>6 DEF UserStep
  <2> QED BY <2>1 DEF UserConfirms, UserRemoves, UserOpensSheet, UserKeepsLocal,
                      UserTakesServer, UserCreates, UserEdits, DeviceWrites, server
<1>7. ASSUME SyncStep PROVE Onward(s.plan, s.plan', p)
  <2>1. PICK d \in Device :
          \/ \E b \in bills[d] : PushesBill(d, b)
          \/ \E q \in Plan :
               \/ PushesCreate(d, q) \/ PushesUpdate(d, q) \/ PushesDelete(d, q)
               \/ PushRefused(d, q) \/ PullsOver(d, q) \/ PullsAgainst(d, q)
    BY <1>7 DEF SyncStep
  <2>2. CASE \E b \in bills[d] : PushesBill(d, b)
    BY <1>2, <2>2 DEF PushesBill
  <2>3. ASSUME NEW q \in Plan,
               \/ PushesCreate(d, q) \/ PushesUpdate(d, q) \/ PushesDelete(d, q)
               \/ PushRefused(d, q) \/ PullsOver(d, q) \/ PullsAgainst(d, q)
        PROVE  Onward(s.plan, s.plan', p)
    <3>1. CASE PushRefused(d, q) \/ PullsOver(d, q) \/ PullsAgainst(d, q)
      BY <1>2, <3>1 DEF PushRefused, PullsOver, PullsAgainst, server
    <3>2. CASE q # p
      BY <1>1, <1>2, <2>3, <3>1, <3>2
         DEF PushesCreate, PushesUpdate, PushesDelete, Applied
    <3>3. CASE q = p /\ PushesCreate(d, p)
      BY <1>1, <3>3 DEF PushesCreate, Live
    <3>4. CASE q = p /\ PushesDelete(d, p)
      BY <1>1, <3>4 DEF PushesDelete, Applied, Live
    <3>5. CASE q = p /\ PushesUpdate(d, p)
      <4>1. /\ s.plan' = dev[d][p].plan /\ told' = told /\ dev[d][p].ver > 0
            /\ ~ dev[d][p].deleted /\ dev[d][p].sv = s.ver
        BY <1>1, <3>5 DEF PushesUpdate, Applied, Pending
      <4>2. Rows(p)[d] = dev[d][p] /\ s.ver > 0
        BY <1>1, AtRow DEF Live
      <4> QED BY <1>3, <4>1, <4>2 DEF Line, Ahead
    <3> QED BY <2>3, <3>1, <3>2, <3>3, <3>4, <3>5
  <2> QED BY <2>1, <2>2, <2>3
<1>8. CASE DayPasses \/ UNCHANGED vars
  BY <1>2, <1>8 DEF DayPasses, vars
<1> QED BY <1>2, <1>4, <1>5, <1>6, <1>7, <1>8 DEF Next

\* An advancement is never lost: while no device is told of a conflict, the
\* date of a plan on the server moves back only when a user chooses another,
\* whatever the job, devices and REST writes do (SyncReplacePlannedPayment,
\* AdvancePlannedPayment, UpdatePlannedPayment).
THEOREM AdvancementsAreKept == Spec => DueNeverGoesBack
<1>1. ASSUME LInv, [Next]_vars
      PROVE  [\A p \in Plan \ told' :
                LET s == srv[p]
                    t == srv'[p]
                IN  Live(s) /\ Live(t) /\ s.plan.series = t.plan.series =>
                      OnOrBefore(s.plan.nextDue, t.plan.nextDue)]_vars
  <2> SUFFICES ASSUME NEW p \in Plan \ told', Live(srv[p]), Live(srv'[p]),
                      srv[p].plan.series = srv'[p].plan.series
               PROVE  OnOrBefore(srv[p].plan.nextDue, srv'[p].plan.nextDue)
    OBVIOUS
  <2>1. Onward(srv[p].plan, srv'[p].plan, p)
    BY <1>1, StepMovesOn
  <2>2. srv[p].plan.series.no \in Nat
    BY <1>1, AtPlan, FieldsParts DEF LInv
  <2> QED BY <2>1, <2>2 DEF Onward
<1> QED BY <1>1, LineAlways, PTL DEF Spec, DueNeverGoesBack
==============================================================================
