------------------------------- MODULE MCQuota -------------------------------
(***************************************************************************)
(* An instance of Quota with three plans, and the calendar of more than a  *)
(* year.                                                                   *)
(***************************************************************************)
EXTENDS Quota

P(kind, n) == [kind |-> kind, n |-> n]

Body(p, m, l, period, from, levels) ==
  [project |-> p, meter |-> m, budget |-> FALSE, limit |-> l, period |-> P(period, 0),
   from |-> from, thresholds |-> levels]
InMoney(q) == [q EXCEPT !.budget = TRUE]

\* Midnight before 2024-12-31.
D == 24 * (DaysBeforeMonth(2024, 12) + 30)

Entry(table, p, from, to) ==
  [table |-> table, project |-> p, meter |-> "cpu", from |-> from, to |-> to]

\* Two administrators: a limit of the tenant and two of projects that fit in it one at
\* a time, one of them in money; updates move a quota or change its limit.
Limits ==
  [requests |-> {1, 2},
   create |-> {Body(None, "cpu", 2, "monthly", D, {}), Body("a", "cpu", 1, "monthly", D, {}),
               InMoney(Body("b", "cpu", 2, "monthly", D, {}))},
   update |-> {Body("b", "cpu", 1, "monthly", D, {}), Body(None, "cpu", 1, "monthly", D, {})},
   quotas |-> 3, components |-> {}, hours |-> <<D>>, entries |-> {}, uses |-> 0,
   faults |-> 0]

\* A monthly quota that begins on the last day, a daily budget of a project for all meters,
\* and a budget of the same meter, over the end of a day; one entry lies across midnight.
Watched ==
  [requests |-> {1},
   create |-> {Body(None, "cpu", 2, "monthly", D, {50, 100}),
               InMoney(Body("a", "*", 1, "daily", D - 1, {100}))},
   update |-> {InMoney(Body(None, "cpu", 1, "monthly", D - 1, {100})),
               Body("a", "cpu", 0, "monthly", D - 1, {})},
   quotas |-> 2, components |-> {"rating"}, hours |-> <<D - 1, D + 2>>,
   entries |-> {Entry("metering", "a", D - 2, D - 1), Entry("metering", "b", D - 1, D + 1),
                Entry("cost", "a", D - 2, D - 1)},
   uses |-> 2, faults |-> 1]

\* A gateway that asks while quotas of two periods and a budget are created and changed.
Gated ==
  [requests |-> {1},
   create |-> {Body(None, "cpu", 2, "monthly", D - 1, {}), Body("a", "cpu", 1, "daily", D - 1, {})},
   update |-> {InMoney(Body(None, "cpu", 1, "daily", D - 1, {}))},
   quotas |-> 2, components |-> {"gateway"}, hours |-> <<D - 1, D + 2>>,
   entries |-> {Entry("metering", "a", D - 2, D - 1), Entry("metering", "b", D, D + 1)},
   uses |-> 3, faults |-> 1]

MCPlans == {Limits, Watched, Gated}

-----------------------------------------------------------------------------
\* Divisors and other numbers, and the bounds; values that are rejected have no window.
MCPeriods ==
  {P("monthly", 0), P("weekly", 0), P("daily", 0)}
    \cup {P("d", n) : n \in {1, 7, 10, 31}} \cup {P("h", n) : n \in {1, 5, 6, 24}}

\* From 2023-12-25, before a leap year, for 400 days: the hours of the first ten days,
\* then those at midnight and before it.
MCHours ==
  LET first == 24 * (DaysBeforeMonth(2023, 12) + 24)
  IN {t \in first..(first + 9600) : t < first + 240 \/ t % 24 \in {0, 23}}

MCUntiled == UNION {Untiled(p, MCHours) : p \in MCPeriods}
MCAmbiguous == {p \in MCPeriods : Ambiguous(p, MCHours) # 0}

(***************************************************************************)
(* Windows tile the time, over ends of days, weeks, months and years: the  *)
(* window of a time contains it, and the next one begins where it ends, so *)
(* that quotas and tier accruals evaluated at different times of a window  *)
(* add up the same entries.  And a label names one window: an alert does   *)
(* not suppress the alert of a later window, as the label is part of its   *)
(* key.  (The label of a week that lies in two years joins the first year  *)
(* with the number of the week in the second, and is not unique.)          *)
(* At any time, then, the window that is summed up for a quota in the      *)
(* table holds the present.                                                *)
(***************************************************************************)
WindowsTile ==
  /\ MCUntiled = {} /\ MCAmbiguous = {}
  /\ \A i \in DOMAIN quotas : LET w == Resolved[quotas[i].period, Now]
                              IN w.from <= Now /\ Now < w.to
==============================================================================
