---------------------------- MODULE BillingPeriod ----------------------------
(***************************************************************************)
(* billing.ResolvePeriod and billing.PeriodLabel: the window that contains *)
(* a time, and the label that names it in the key of the alerts.           *)
(*                                                                         *)
(* A time is a number of hours since Monday 2001-01-01 00:00 UTC; the      *)
(* calendar is Go's for the years to 2099. A period is a kind and, for     *)
(* "Nd" and "Nh", the number n. A label is the tuple of the fields that    *)
(* the code formats.                                                       *)
(***************************************************************************)
EXTENDS Integers, FiniteSets

Kinds == {"monthly", "weekly", "daily", "d", "h"}

-----------------------------------------------------------------------------
(***************************************************************************)
(* The calendar.                                                           *)
(***************************************************************************)
\* Days before the first of January and before the first of a month.
DaysBeforeYear(y) == 365 * (y - 2001) + (y - 2001) \div 4
Leap(y) == y % 4 = 0
DaysBeforeMonth(y, m) ==
  DaysBeforeYear(y) + <<0, 31, 59, 90, 120, 151, 181, 212, 243, 273, 304, 334>>[m]
    + IF Leap(y) /\ m > 2 THEN 1 ELSE 0

Day(t) == t \div 24
Hour(t) == t % 24
Year(t) == 2001 + (4 * Day(t) + 3) \div 1461
Month(t) == LET y == Year(t) IN Cardinality({m \in 1..12 : DaysBeforeMonth(y, m) <= Day(t)})
DayOfMonth(t) == Day(t) - DaysBeforeMonth(Year(t), Month(t)) + 1
Date(t) == <<Year(t), Month(t), DayOfMonth(t)>>

\* The week of the year that holds the Thursday of t's week.
ISOWeek(t) ==
  LET thursday == (Day(t) \div 7) * 7 + 3
  IN (thursday - DaysBeforeYear(Year(24 * thursday))) \div 7 + 1

-----------------------------------------------------------------------------
Midnight(t) == 24 * Day(t)
MonthStart(t) == 24 * DaysBeforeMonth(Year(t), Month(t))
NextMonth(t) ==
  24 * IF Month(t) = 12 THEN DaysBeforeYear(Year(t) + 1) ELSE DaysBeforeMonth(Year(t), Month(t) + 1)
Earlier(s, t) == IF s <= t THEN s ELSE t

Valid(p) == (p.kind = "d" => p.n \in 1..31) /\ (p.kind = "h" => p.n \in 1..24)

Window(from, to) == [from |-> from, to |-> to]

\* n-day slots of the month and n-hour slots of the day; the last one may be shorter.
DaySlot(n, t) ==
  LET slot == ((DayOfMonth(t) - 1) \div n) * n
  IN Window(MonthStart(t) + 24 * slot, Earlier(MonthStart(t) + 24 * (slot + n), NextMonth(t)))

\* Bug: the last slot of a day is not cut at midnight.
HourSlotUncut(n, t) ==
  LET slot == (Hour(t) \div n) * n
  IN Window(Midnight(t) + slot, Midnight(t) + slot + n)

HourSlot(n, t) ==
  LET slot == (Hour(t) \div n) * n
  IN Window(Midnight(t) + slot, Earlier(Midnight(t) + slot + n, Midnight(t) + 24))

\* Sunday, which Go numbers 0, ends the week.
Weekday(t) == (Day(t) + 1) % 7
DaysSinceMonday(t) == (IF Weekday(t) = 0 THEN 7 ELSE Weekday(t)) - 1

Week(t) == LET monday == Midnight(t) - 24 * DaysSinceMonday(t) IN Window(monday, monday + 7 * 24)

ResolvePeriod(p, t) ==
  CASE p.kind = "monthly" -> Window(MonthStart(t), NextMonth(t))
    [] p.kind = "weekly" -> Week(t)
    [] p.kind = "daily" -> Window(Midnight(t), Midnight(t) + 24)
    [] p.kind = "d" -> DaySlot(p.n, t)
    [] p.kind = "h" -> HourSlot(p.n, t)

SlotLabel(w) == <<Date(w.from), Hour(w.from), Hour(w.to)>>

\* The label of an unknown period is the month.
PeriodLabel(p, t) ==
  LET w == ResolvePeriod(p, t)
  IN CASE ~Valid(p) \/ p.kind = "monthly" -> <<Year(t), Month(t)>>
       [] p.kind = "weekly" -> <<Year(w.from), "W", ISOWeek(w.from)>>
       [] p.kind = "daily" -> Date(w.from)
       [] p.kind = "d" -> <<Date(w.from), Date(w.to - 24)>>
       [] p.kind = "h" -> SlotLabel(w)

-----------------------------------------------------------------------------
(***************************************************************************)
(* What the callers rely on, of a set of periods and a range of hours.     *)
(***************************************************************************)
\* Hours that lie outside their window, or after which the next window does not
\* begin where theirs ends.
Untiled(p, hours) ==
  {t \in hours :
     LET w == ResolvePeriod(p, t)
         next == ResolvePeriod(p, t + 1)
     IN ~(w.from <= t /\ t < w.to /\ (next = w \/ (t + 1 = w.to /\ next.from = w.to)))}

\* A week that begins in one year and ends in the next.
Straddles(w) == Year(w.from) # Year(w.to - 1)

\* How many labels are lacking for every other window to have its own.
Ambiguous(p, hours) ==
  LET named == {x \in {<<ResolvePeriod(p, t), PeriodLabel(p, t)>> : t \in hours} : ~Straddles(x[1])}
  IN Cardinality(named) - Cardinality({x[2] : x \in named})
==============================================================================
