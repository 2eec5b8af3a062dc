-------------------------------- MODULE Quota --------------------------------
(***************************************************************************)
(* The quotas of one tenant: the administration endpoints, which check     *)
(* that the limits of the projects fit in the tenant's before they write,  *)
(* the threshold evaluation of the rating sweep, which records alerts, and *)
(* the entitlement check of a gateway, which refuses access.               *)
(*                                                                         *)
(* A quota is a budget when its unit is a currency: the evaluation then    *)
(* adds up cost_entries, of every meter for the meter name AllMeters, and  *)
(* metering_entries otherwise. Nothing else reads the unit: the overcommit *)
(* check, the key of the alerts and the entitlement check take the budgets *)
(* and the other quotas of a meter name together.                          *)
(* Times are the hours of BillingPeriod, which resolves the windows.       *)
(***************************************************************************)
EXTENDS BillingPeriod, Sequences, Sums

CONSTANTS
  Projects, Meters,
  AllMeters,   \* the meter names "" and "*"
  Plans,       \* what the administration asks for, and what happens meanwhile
  Faults,
  None

\* "read": a query of the overcommit check fails; "eval": one of the evaluation or of
\* the entitlement check; "insert": an alert is not inserted; "crash": of the rater.
FaultKinds == {"read", "eval", "insert", "crash"}

\* project is None in a tenant-level quota; from is effective_from; thresholds are
\* percentages, none for the default ones.
QuotaRows ==
  {q \in [project: Projects \cup {None}, meter: Meters, budget: BOOLEAN, limit: Int,
          period: [kind: Kinds, n: Nat], from: Nat, thresholds: SUBSET Nat] : Valid(q.period)}

(***************************************************************************)
(* A plan has the concurrent requests of the administration, the bodies of *)
(* its create and update requests, the number of quotas, the components    *)
(* that run, the hours at which things happen, the entries that may be     *)
(* metered or charged and how many of them, and the number of faults.      *)
(***************************************************************************)
ASSUME QuotaAssumption ==
  /\ AllMeters \in Meters /\ None \notin Projects /\ IsFiniteSet(Projects)
  /\ \A plan \in Plans :
       /\ plan.create \cup plan.update \subseteq QuotaRows
       /\ \A q \in plan.create : q.limit > 0
       /\ plan.quotas \in Nat /\ plan.uses \in Nat /\ plan.faults \in Nat
       /\ plan.components \subseteq {"rating", "gateway"}
       /\ plan.hours \in Seq(Nat) /\ plan.hours # <<>> /\ IsFiniteSet(plan.entries)
       /\ \A e \in plan.entries :
            /\ e.table \in {"metering", "cost"}
            /\ e.project \in Projects /\ e.meter \in Meters \ {AllMeters}
            /\ e.from \in Nat /\ e.to \in Nat /\ e.from <= e.to
  /\ Faults \subseteq FaultKinds

\* ResolvePeriod and PeriodLabel for the periods and hours of the plans.
Periods == {q.period : q \in UNION {p.create \cup p.update : p \in Plans}}
Hours == UNION {{p.hours[h] : h \in DOMAIN p.hours} : p \in Plans}
Resolved == [p \in Periods, t \in Hours |-> ResolvePeriod(p, t)]
Label == [p \in Periods, t \in Hours |-> PeriodLabel(p, t)]

ThresholdLevels == {50, 70, 90, 100}

VARIABLES
  plan,     \* rigid
  quotas,   \* the table, by id
  active,   \* ids whose effective_to is not set
  used,     \* metering_entries and cost_entries: how many of each kind
  clock,    \* which of the hours it is
  alerts,   \* the table; quota and now are history
  req,      \* the requests
  rater,    \* the threshold evaluation
  gateway,  \* the entitlement check
  faults

vars == <<plan, quotas, active, used, clock, alerts, req, rater, gateway, faults>>
admin == <<quotas, active, req>>

NoRequest == [pc |-> "idle"]
Waiting == [pc |-> "idle"]
Answered(access) == [pc |-> "idle", access |-> access]

Init ==
  /\ plan \in Plans /\ quotas = <<>> /\ active = {} /\ clock = 1
  /\ used = [e \in plan.entries |-> 0]
  /\ alerts = {} /\ req = [r \in plan.requests |-> NoRequest]
  /\ rater = Waiting /\ gateway = Answered(TRUE) /\ faults = 0

Fault(kind) == kind \in Faults /\ faults < plan.faults /\ faults' = faults + 1

Now == plan.hours[clock]

-----------------------------------------------------------------------------
(***************************************************************************)
(* CreateQuota, UpdateQuota and DeleteQuota.                               *)
(***************************************************************************)
OfMeter(m) == {i \in active : quotas[i].meter = m}

Limit == [i \in DOMAIN quotas |-> quotas[i].limit]

\* The limits TenantQuotaLimit may return: those that took effect last.
TenantQuotaLimits(m) ==
  LET own == {i \in OfMeter(m) : quotas[i].project = None}
  IN {quotas[i].limit : i \in {j \in own : \A k \in own : quotas[k].from <= quotas[j].from}}

\* Bug: the latest quota is left out instead of the one that is replaced.
ProjectLimitSumOff(m, excludeID) ==
  Total(Limit, {i \in OfMeter(m) : quotas[i].project # None /\ i # Len(quotas)})

ProjectLimitSum(m, excludeID) ==
  Total(Limit, {i \in OfMeter(m) : quotas[i].project # None /\ i # excludeID})

\* The requests when r changed the table.
Overtake(r) ==
  [x \in plan.requests |-> IF x = r \/ req[x].pc = "idle" THEN NoRequest
                           ELSE [req[x] EXCEPT !.overtaken = TRUE]]

UpsertQuota(q) == quotas' = Append(quotas, q) /\ active' = active \cup {Len(quotas) + 1}

\* Everything but effective_from and effective_to is replaced.
ReplaceQuota(id, q) ==
  quotas' = [quotas EXCEPT ![id] = [q EXCEPT !.from = quotas[id].from]] /\ UNCHANGED active

Write(r, q, id) ==
  req' = Overtake(r) /\ IF id = 0 THEN UpsertQuota(q) ELSE ReplaceQuota(id, q)

Request(q, id, pc, limit) ==
  [pc |-> pc, q |-> q, id |-> id, limit |-> limit, overtaken |-> FALSE]

\* validateProjectOvercommit reads the limit of the tenant; without one, or when the
\* query fails, the quota is written.
ReadTenantLimit(r, q, id) ==
  /\ \/ Fault("read") /\ req' = [req EXCEPT ![r] = Request(q, id, "write", 0)]
     \/ LET limits == TenantQuotaLimits(q.meter)
        IN /\ \E l \in IF limits = {} THEN {0} ELSE limits :
                req' = [req EXCEPT ![r] = Request(q, id, IF l = 0 THEN "write" ELSE "sum", l)]
           /\ UNCHANGED faults
  /\ UNCHANGED <<quotas, active>>

\* plan.quotas bounds the rows and the creations under way.
CreateQuota(r) ==
  /\ req[r].pc = "idle"
  /\ Len(quotas) + Cardinality({x \in plan.requests : req[x].pc # "idle" /\ req[x].id = 0})
       < plan.quotas
  /\ \E q \in plan.create :
       IF q.project = None THEN Write(r, q, 0) /\ UNCHANGED faults ELSE ReadTenantLimit(r, q, 0)
  /\ UNCHANGED <<plan, used, clock, alerts, rater, gateway>>

UpdateQuota(r) ==
  /\ req[r].pc = "idle"
  /\ \E q \in plan.update, id \in DOMAIN quotas :
       IF q.project = None \/ q.limit <= 0 THEN Write(r, q, id) /\ UNCHANGED faults
       ELSE ReadTenantLimit(r, q, id)
  /\ UNCHANGED <<plan, used, clock, alerts, rater, gateway>>

ReadProjectSum(r) ==
  /\ req[r].pc = "sum"
  /\ \/ Fault("read") /\ req' = [req EXCEPT ![r].pc = "write"]
     \/ LET sum == ProjectLimitSum(req[r].q.meter, req[r].id)
        IN /\ req' = [req EXCEPT ![r] = IF sum + req[r].q.limit > req[r].limit THEN NoRequest
                                        ELSE [@ EXCEPT !.pc = "write"]]
           /\ UNCHANGED faults
  /\ UNCHANGED <<plan, quotas, active, used, clock, alerts, rater, gateway>>

WriteQuota(r) ==
  /\ req[r].pc = "write" /\ Write(r, req[r].q, req[r].id)
  /\ UNCHANGED <<plan, used, clock, alerts, rater, gateway, faults>>

DeleteQuota(r) ==
  /\ req[r].pc = "idle" /\ req' = Overtake(r)
  /\ \E id \in active : active' = active \ {id}
  /\ UNCHANGED <<plan, quotas, used, clock, alerts, rater, gateway, faults>>

Administration(r) ==
  CreateQuota(r) \/ UpdateQuota(r) \/ ReadProjectSum(r) \/ WriteQuota(r) \/ DeleteQuota(r)

-----------------------------------------------------------------------------
\* Usage is metered, or costs are charged, for a span that is over.
Consume ==
  /\ FoldSet(LAMBDA e, n : n + used[e], 0, DOMAIN used) < plan.uses
  /\ \E e \in DOMAIN used : e.to <= Now /\ used' = [used EXCEPT ![e] = @ + 1]
  /\ UNCHANGED <<plan, admin, clock, alerts, rater, gateway, faults>>

Tick ==
  /\ clock < Len(plan.hours) /\ clock' = clock + 1
  /\ UNCHANGED <<plan, admin, used, alerts, rater, gateway, faults>>

\* The entries of a table whose span lies within a window.
Sum(table, projects, meters, w) ==
  Total(used, {e \in DOMAIN used : /\ e.table = table /\ e.project \in projects
                                   /\ e.meter \in meters /\ w.from <= e.from /\ e.to <= w.to})

MeteringSum(m, w) == Sum("metering", Projects, {m}, w)
MeteringSumByProject(p, m, w) == Sum("metering", {p}, {m}, w)

\* CostSum, and TenantCostSum for all meters.
CostSum(m, w) == Sum("cost", Projects, IF m = AllMeters THEN Meters ELSE {m}, w)

\* What the evaluation compares with the limit at time t.
Consumed(q, t) ==
  IF q.budget THEN CostSum(q.meter, Resolved[q.period, t])
  ELSE MeteringSum(q.meter, Resolved[q.period, t])

\* What GetQuotaStatus shows.
StatusConsumed(q, t) ==
  IF ~q.budget /\ q.project # None
  THEN MeteringSumByProject(q.project, q.meter, Resolved[q.period, t])
  ELSE Consumed(q, t)

\* What the entitlement check adds up: metered values, of a budget too.
Metered(q, t) == MeteringSum(q.meter, Resolved[q.period, t])

QuotasForTenant(t) ==
  {[id |-> i, q |-> quotas[i]] : i \in {j \in active : quotas[j].from <= t}}

-----------------------------------------------------------------------------
(***************************************************************************)
(* evaluateThresholds: one reading of the clock gives the window and its   *)
(* label for the whole evaluation.                                         *)
(***************************************************************************)
\* Fires the levels left of a quota, then goes on with the quotas left.
Evaluating(now, todo, q, consumed, levels) ==
  IF levels = {} /\ todo = {} THEN Waiting
  ELSE [pc |-> IF levels = {} THEN "quota" ELSE "alert", now |-> now, todo |-> todo,
        q |-> IF levels = {} THEN None ELSE q, consumed |-> IF levels = {} THEN 0 ELSE consumed,
        levels |-> levels]

ListQuotas ==
  /\ "rating" \in plan.components /\ rater.pc = "idle"
  /\ rater' = Evaluating(Now, {x.q : x \in QuotasForTenant(Now)}, None, 0, {})
  /\ UNCHANGED <<plan, admin, used, clock, alerts, gateway, faults>>

\* Bug: a level is reached only when it is passed.
ReachedBeyond(q, consumed) ==
  {t \in IF q.thresholds = {} THEN ThresholdLevels ELSE q.thresholds :
     consumed * 100 > t * q.limit}

Reached(q, consumed) ==
  {t \in IF q.thresholds = {} THEN ThresholdLevels ELSE q.thresholds :
     consumed * 100 >= t * q.limit}

\* Bug: the clock is read again for the label of the alerts.
EvaluateRelabelled ==
  /\ rater.pc = "quota"
  /\ \E q \in rater.todo :
       LET consumed == Consumed(q, rater.now)
       IN rater' = Evaluating(Now, rater.todo \ {q}, q, consumed,
                              IF consumed = 0 \/ q.limit <= 0 THEN {} ELSE Reached(q, consumed))
  /\ UNCHANGED <<plan, admin, used, clock, alerts, gateway, faults>>

Evaluate ==
  /\ rater.pc = "quota"
  /\ \E q \in rater.todo :
       \/ Fault("eval") /\ rater' = Evaluating(rater.now, rater.todo \ {q}, q, 0, {})
       \/ LET consumed == Consumed(q, rater.now)
          IN /\ rater' = Evaluating(rater.now, rater.todo \ {q}, q, consumed,
                                    IF consumed = 0 \/ q.limit <= 0 THEN {}
                                    ELSE Reached(q, consumed))
             /\ UNCHANGED faults
  /\ UNCHANGED <<plan, admin, used, clock, alerts, gateway>>

\* InsertAlert: tenant, meter, threshold and the label of the period are a key.
Same(a, b) == a.meter = b.meter /\ a.level = b.level /\ a.label = b.label
InsertAlert(a) == alerts' = IF \E b \in alerts : Same(a, b) THEN alerts ELSE alerts \cup {a}

FireAlert ==
  /\ rater.pc = "alert"
  /\ \E t \in rater.levels :
       /\ rater' = Evaluating(rater.now, rater.todo, rater.q, rater.consumed, rater.levels \ {t})
       /\ \/ /\ InsertAlert([meter |-> rater.q.meter, level |-> t, consumed |-> rater.consumed,
                             label |-> Label[rater.q.period, rater.now],
                             quota |-> rater.q, now |-> rater.now])
             /\ UNCHANGED faults
          \/ Fault("insert") /\ UNCHANGED alerts
  /\ UNCHANGED <<plan, admin, used, clock, gateway>>

evaluateThresholds == ListQuotas \/ Evaluate \/ FireAlert

Crash ==
  /\ rater.pc # "idle" /\ Fault("crash") /\ rater' = Waiting
  /\ UNCHANGED <<plan, admin, used, clock, alerts, gateway>>

-----------------------------------------------------------------------------
(***************************************************************************)
(* GetEntitlementValue: adds up the limits of the tenant's quotas and what *)
(* each has consumed, one query after the other.                           *)
(***************************************************************************)
AskEntitlement ==
  /\ "gateway" \in plan.components /\ gateway.pc = "idle"
  /\ LET listed == QuotasForTenant(Now)
     IN \/ /\ gateway' = IF listed = {} THEN Answered(TRUE)
                         ELSE [pc |-> "sum", now |-> Now, listed |-> listed, todo |-> listed,
                               limit |-> 0, usage |-> 0]
           /\ UNCHANGED faults
        \/ Fault("eval") /\ gateway' = Answered(TRUE)
  /\ UNCHANGED <<plan, admin, used, clock, alerts, rater>>

\* The answer when every sum was read; the check goes on to the next otherwise.
Entitled(g) == IF g.todo = {} THEN Answered(g.usage < g.limit) ELSE g

\* Bug: the limits are not added up.
SumUsageLast ==
  /\ gateway.pc = "sum"
  /\ \E x \in gateway.todo :
       gateway' = Entitled([gateway EXCEPT !.todo = @ \ {x}, !.limit = x.q.limit,
                                           !.usage = @ + Metered(x.q, gateway.now)])
  /\ UNCHANGED <<plan, admin, used, clock, alerts, rater, faults>>

\* A quota whose sum cannot be read counts neither with its limit nor its usage.
SumUsage ==
  /\ gateway.pc = "sum"
  /\ \E x \in gateway.todo :
       \/ /\ gateway' = Entitled([gateway EXCEPT !.todo = @ \ {x}, !.limit = @ + x.q.limit,
                                                 !.usage = @ + Metered(x.q, gateway.now)])
          /\ UNCHANGED faults
       \/ /\ Fault("eval")
          /\ gateway' = Entitled([gateway EXCEPT !.todo = @ \ {x}, !.listed = @ \ {x}])
  /\ UNCHANGED <<plan, admin, used, clock, alerts, rater>>

-----------------------------------------------------------------------------
Next ==
  \/ \E r \in plan.requests : Administration(r)
  \/ Consume \/ Tick
  \/ evaluateThresholds \/ Crash
  \/ AskEntitlement \/ SumUsage

Spec == Init /\ [][Next]_vars

\* The rating ticker fires again and again.
FairSpec == Spec /\ WF_vars(evaluateThresholds)

-----------------------------------------------------------------------------
Requests ==
  {NoRequest} \cup [pc: {"sum", "write"}, q: QuotaRows, id: Nat, limit: Int, overtaken: BOOLEAN]
Evaluations ==
  [pc: {"quota", "alert"}, now: Nat, todo: SUBSET QuotaRows, q: QuotaRows \cup {None},
   consumed: Nat, levels: SUBSET Nat]
Listing == SUBSET [id: Nat, q: QuotaRows]
Checks == [pc: {"sum"}, now: Nat, listed: Listing, todo: Listing, limit: Int, usage: Nat]

TypeOK ==
  /\ plan \in Plans /\ quotas \in Seq(QuotaRows) /\ active \subseteq DOMAIN quotas
  /\ used \in [plan.entries -> Nat] /\ clock \in DOMAIN plan.hours
  /\ \A a \in alerts :
       /\ a.quota \in QuotaRows /\ a.meter = a.quota.meter /\ a.level \in Nat /\ a.consumed \in Nat
       /\ \A b \in alerts \ {a} : ~Same(a, b)
  /\ req \in [plan.requests -> Requests]
  /\ \A r \in plan.requests : req[r] # NoRequest => req[r].id \in {0} \cup DOMAIN quotas
  /\ rater = Waiting \/ (rater \in Evaluations /\ (rater.pc = "alert" => rater.q \in QuotaRows))
  /\ \/ \E access \in BOOLEAN : gateway = Answered(access)
     \/ gateway \in Checks /\ gateway.todo # {} /\ gateway.todo \subseteq gateway.listed
  /\ faults \in 0..plan.faults

\* The limits of the projects that are in force or will be.
ProjectLimits(m) ==
  Total(Limit, {i \in active : quotas[i].meter = m /\ quotas[i].project # None})

\* r writes a quota for a project that the check compared with a limit.
ChecksAndWrites(r) ==
  /\ req[r].pc = "write" /\ req'[r].pc = "idle"
  /\ req[r].q.project # None /\ req[r].limit # 0

(***************************************************************************)
(* The overcommit check holds what it promises when nobody else changes    *)
(* quotas between its queries and the write and its queries succeed: the   *)
(* limits of the projects for the meter name, budgets or not, then fit in  *)
(* the tenant's limit, whatever was created, updated, moved to another     *)
(* project or deleted before.                                              *)
(***************************************************************************)
LoneWriteFits ==
  [][\A r \in plan.requests, m \in Meters :
       ChecksAndWrites(r) /\ req[r].q.meter = m /\ ~req[r].overtaken /\ faults = 0 =>
         ProjectLimits(m)' <= req[r].limit]_vars

(***************************************************************************)
(* An alert is true of the window it names: what it reports was consumed   *)
(* in that window and reached its level, although the window may end,      *)
(* usage arrive and quotas change while the evaluation runs; and the       *)
(* status of a tenant-level quota never shows less than its alerts.        *)
(***************************************************************************)
AlertsOfTheirWindow ==
  /\ TypeOK
  /\ \A a \in alerts :
       /\ a.label = Label[a.quota.period, a.now]
       /\ 0 < a.consumed /\ a.consumed <= Consumed(a.quota, a.now)
       /\ a.quota.project = None => a.consumed <= StatusConsumed(a.quota, a.now)
       /\ a.consumed * 100 >= a.level * a.quota.limit

(***************************************************************************)
(* The entitlement check adds up quotas of different meters and windows    *)
(* that were read at different times. It still refuses access only when    *)
(* the metered values of one of them have reached its limit, or no sum     *)
(* could be read. For a budget, too, these are metered values and not      *)
(* costs: access is refused when as many units were metered as the budget  *)
(* has of money, whatever they cost.                                       *)
(***************************************************************************)
RefusedWhenUsedUp ==
  [][gateway.pc = "sum" /\ gateway' = Answered(FALSE) =>
       \/ \E x \in gateway.listed : Metered(x.q, gateway.now) >= x.q.limit
       \/ faults' > 0 /\ Cardinality(gateway.listed) <= 1]_vars

\* Every level that a quota in force has reached in its current window has an alert
\* with the key that it would have.
AllAlerted ==
  \A x \in QuotasForTenant(Now) :
    LET consumed == Consumed(x.q, Now)
        levels == IF x.q.thresholds = {} THEN ThresholdLevels ELSE x.q.thresholds
    IN x.q.limit > 0 /\ consumed > 0 =>
         \A t \in levels : consumed * 100 >= t * x.q.limit =>
           \E a \in alerts : a.meter = x.q.meter /\ a.level = t /\ a.label = Label[x.q.period, Now]

(***************************************************************************)
(* A level that stays reached while its window lasts is alerted, though    *)
(* evaluations fail, are cut short or read quotas that have changed. The   *)
(* key of an alert has neither unit nor project: the alert of another      *)
(* quota of the meter name may stand for it.                               *)
(***************************************************************************)
EventuallyAlerted == []<>("rating" \in plan.components => AllAlerted)
==============================================================================
