------------------------------- MODULE Reports -------------------------------
(***************************************************************************)
(* The cost reports of the API: sums of the cost entries of a range of     *)
(* time, and their breakdown into lines.                                   *)
(***************************************************************************)
EXTENDS Rating

CONSTANTS
  Month, Day,              \* their lengths; time starts with a month
  DefaultLimit, MaxLimit,  \* lines of a breakdown: 100 and 1000 in the code
  Malformed                \* a parameter that does not parse

ASSUME ReportsAssumption ==
  /\ Month \in Nat \ {0} /\ Day \in Nat \ {0}
  /\ DefaultLimit \in Nat \ {0} /\ MaxLimit \in Nat /\ DefaultLimit <= MaxLimit
  /\ Malformed \notin Nat /\ Malformed # None

\* A cost entry is a metering entry and the number of the charge for it.
CostEntries == UNION {{e} \X DOMAIN costs[e] : e \in Ids}

Metered(c) == Entry[c[1]]
Charged(c) == costs[c[1]][c[2]]
Cost(S) == MapThenSumSet(LAMBDA c : Charged(c).amount, S)
CostOfType(S, type) == Cost({c \in S : Charged(c).type = type})

\* Bug: an entry has to end before the end of the range.
WhereBefore(tenant, resourceType, from, to) ==
  {c \in CostEntries : /\ Metered(c).from >= from /\ Metered(c).to < to
                       /\ tenant \in {"", Metered(c).tenant}
                       /\ resourceType \in {"", Metered(c).resource_type}}

\* Entries whose period lies in the range, of a tenant and a type of resource
\* ("" for any).
Where(tenant, resourceType, from, to) ==
  {c \in CostEntries : /\ Metered(c).from >= from /\ Metered(c).to <= to
                       /\ tenant \in {"", Metered(c).tenant}
                       /\ resourceType \in {"", Metered(c).resource_type}}

-----------------------------------------------------------------------------
(***************************************************************************)
(* GET /reports/costs.  All amounts are of one currency.                   *)
(***************************************************************************)
GroupCol(groupBy) ==
  IF groupBy \in {"resource_type", "meter", "resource", "project", "user"} THEN groupBy ELSE "tenant"

Row(group, S) ==
  [group |-> group, entries |-> Cardinality(S), cost |-> Cost(S),
   infra |-> CostOfType(S, "Infrastructure"), supp |-> CostOfType(S, "Supplementary")]

\* Rows of a day and a group; the day is that of the start of the period.
GroupOf(q, c) ==
  <<IF q.resolution = "daily" THEN Metered(c).from \div Day ELSE None,
    Metered(c)[GroupCol(q.groupBy)]>>

GroupBy(q, found) ==
  {Row(g, {c \in found : GroupOf(q, c) = g}) : g \in {GroupOf(q, c) : c \in found}}

CostReport(q, from, to) == GroupBy(q, Where(q.tenant, q.resourceType, from, to))

BuildKokuTotal(rows) ==
  [cost |-> MapThenSumSet(LAMBDA r : r.cost, rows),
   infra |-> MapThenSumSet(LAMBDA r : r.infra, rows),
   supp |-> MapThenSumSet(LAMBDA r : r.supp, rows)]

Refused == [code |-> 400]

\* "to" counts only with "from"; without them the range is a calendar month.
ReportRange(q, now) ==
  LET month == IF q.period = None THEN now \div Month ELSE q.period
  IN IF q.from # None THEN <<q.from, IF q.to = None THEN now ELSE q.to>>
     ELSE IF month = Malformed THEN <<Malformed, Malformed>>
     ELSE <<month * Month, (month + 1) * Month>>

WriteReport(rows) == [code |-> 200, rows |-> rows, total |-> BuildKokuTotal(rows)]

GetCostReport(q, now) ==
  LET range == ReportRange(q, now)
  IN IF Malformed \in {range[1], range[2]} THEN Refused
     ELSE WriteReport(CostReport(q, range[1], range[2]))

-----------------------------------------------------------------------------
(***************************************************************************)
(* GET /reports/breakdown.                                                 *)
(***************************************************************************)
\* ORDER BY period_start DESC, cost_amount DESC; ties are broken by the id here.
Before(c, d) ==
  LET m == Metered(c)  n == Metered(d)
  IN \/ m.from > n.from
     \/ m.from = n.from /\ Charged(c).amount > Charged(d).amount
     \/ /\ m.from = n.from /\ Charged(c).amount = Charged(d).amount
        /\ c[1] < d[1] \/ (c[1] = d[1] /\ c[2] < d[2])

FirstOf(found, n) == {c \in found : Cardinality({d \in found : Before(d, c)}) < n}

CostBreakdown(q, from, to, limit) ==
  FirstOf(Where(q.tenant, q.resourceType, from, to),
          IF limit <= 0 \/ limit > MaxLimit THEN DefaultLimit ELSE limit)

BreakdownRange(q, now) ==
  <<IF q.from = None THEN (now \div Month) * Month ELSE q.from,
    IF q.to = None THEN now ELSE q.to>>

GetCostBreakdown(q, now) ==
  LET range == BreakdownRange(q, now)
      limit == IF q.limit # None /\ q.limit > 0 THEN q.limit ELSE DefaultLimit
  IN IF Malformed \in {range[1], range[2]} THEN Refused
     ELSE [code |-> 200, lines |-> CostBreakdown(q, range[1], range[2], limit)]

-----------------------------------------------------------------------------
(***************************************************************************)
(* Properties.                                                             *)
(***************************************************************************)
Tenants == {Entry[e].tenant : e \in Ids}
End == Max({Entry[e].to : e \in Ids})

Request(tenant, groupBy, resolution, from, to, period, limit) ==
  [tenant |-> tenant, resourceType |-> "", groupBy |-> groupBy, resolution |-> resolution,
   from |-> from, to |-> to, period |-> period, limit |-> limit]

\* The export of a day, as the scheduled export asks for it, and the report of
\* a month by meter and day.
DayReport(tenant, n) ==
  GetCostReport(Request(tenant, "tenant", "", n * Day, (n + 1) * Day, None, None), End)
MonthReport(n) == GetCostReport(Request("", "meter", "daily", None, None, n, None), End)

\* Periods that cross the end of a day or month, and instants at that end.
Crosses(m, length) == \E n \in 1..End : m.from < n * length /\ n * length < m.to
AtEnd(m, length) == m.from = m.to /\ m.to > 0 /\ m.to % length = 0

\* What reports on successive ranges of a length have to add up to.
Expected(tenant, length) ==
  LET mine == {c \in CostEntries : tenant \in {"", Metered(c).tenant}}
  IN Cost({c \in mine : ~Crosses(Metered(c), length)})
     + Cost({c \in mine : AtEnd(Metered(c), length)})

\* Successive reports tile time: the reports of all days on a tenant, or of all
\* months on everyone, together contain every cost entry once.
DaysTile(tenant) ==
  MapThenSumSet(LAMBDA n : DayReport(tenant, n).total.cost, 0..(End \div Day))
    = Expected(tenant, Day)
MonthsTile ==
  MapThenSumSet(LAMBDA n : MonthReport(n).total.cost, 0..(End \div Month)) = Expected("", Month)

\* The breakdown explains the report: asked for the same range both are refused
\* or both are answered, and a breakdown that was not cut off has the entries,
\* the total and the totals of both cost types of the report.
Agree(report, breakdown) ==
  /\ report.code = breakdown.code
  /\ report.code = 200 /\ Cardinality(breakdown.lines) < DefaultLimit =>
       /\ report.total = [cost |-> Cost(breakdown.lines),
                          infra |-> CostOfType(breakdown.lines, "Infrastructure"),
                          supp |-> CostOfType(breakdown.lines, "Supplementary")]
       /\ Cardinality(breakdown.lines) = MapThenSumSet(LAMBDA r : r.entries, report.rows)

Explains(q) == Agree(GetCostReport(q, End), GetCostBreakdown(q, End))

\* Reports taken between sweeps account for every cost entry.  Those of all
\* days, or of all months, add up to the costs but for two kinds of usage, as
\* a range includes both its ends: a period that crosses the end of a range is
\* in no report, and an instant at such an end is in two.  A breakdown with a
\* start given explains the report on the same range.
ReportsAccount ==
  (\A i \in Raters : raters[i].pc = "idle") =>
    /\ \A tenant \in Tenants : DaysTile(tenant)
    /\ MonthsTile
    /\ \A from \in {Day, Malformed}, to \in {None, 2 * Day} :
         Explains(Request("", "meter", "daily", from, to, None, None))
=============================================================================
