------------------------------- MODULE Rating -------------------------------
(***************************************************************************)
(* The rating sweep: metering entries that have not been rated are fetched *)
(* in batches in the order of their ids, priced in memory, stored as cost  *)
(* entries and then marked as rated, each by a statement of its own.       *)
(*                                                                         *)
(* An id is drawn from a sequence when an entry is inserted, and the entry *)
(* becomes visible when its transaction commits: entries of one writer do  *)
(* so in the order of their ids, those of different writers in any order.  *)
(***************************************************************************)
EXTENDS Tiers, FiniteSetsExt

CONSTANTS
  Ids,        \* the ids of the metering entries
  Entry,      \* what each entry says
  Rates,      \* the rates in effect
  RulePrice,  \* what the pricing rules charge per unit
  Raters,     \* instances of the service; more than one while a rollout overlaps
  Batch,      \* entries fetched at a time
  Faults, MaxFaults

\* Each names the statement or call that fails; "ack": the insert commits but
\* the answer is lost; "crash": the process dies.
FaultKinds == {"rates", "fetch", "sum", "insert", "ack", "mark", "crash"}

\* from, to: the metered period; ruled: the pricing rules apply to its meter.
Entries == [tenant : STRING, project : STRING, user : STRING, resource_type : STRING,
            resource : STRING, itype : STRING, meter : STRING, value : Nat,
            from : Nat, to : Nat, ruled : BOOLEAN, writer : STRING]

\* The cost type of a rate; a cost entry of a rule has none.
CostTypes == {"Infrastructure", "Supplementary", ""}

ASSUME RatingAssumption ==
  /\ Ids \subseteq Nat /\ IsFiniteSet(Ids) /\ IsFiniteSet(Raters)
  /\ Entry \in [Ids -> Entries]
  /\ RulePrice \in Nat /\ Batch \in Nat \ {0}
  /\ Faults \subseteq FaultKinds /\ MaxFaults \in Nat
  /\ None \notin Nat
  /\ \A r \in Rates : r.type \in CostTypes
  \* one rate in effect per tenant, instance type ("" for any), resource type
  \* and meter
  /\ \A r, s \in Rates :
       /\ r.tenant = s.tenant /\ r.itype = s.itype
       /\ r.resource_type = s.resource_type /\ r.meter = s.meter
       => r = s

VARIABLES
  table,   \* the metering entries that are visible
  rated,   \* those with rated_at set
  costs,   \* the amounts and types of the cost entries of each metering entry, in order
  raters,  \* the rating goroutine of each instance
  guessed, \* history: the billing periods whose usage could not be summed once
  faults

vars == <<table, rated, costs, raters, guessed, faults>>

-----------------------------------------------------------------------------
(***************************************************************************)
(* The rate of an entry: for its tenant and instance type, for the         *)
(* instance type, for the tenant, for everyone.                            *)
(***************************************************************************)
Applicable(e) ==
  {r \in Rates : /\ r.resource_type = Entry[e].resource_type /\ r.meter = Entry[e].meter
                 /\ r.tenant \in {"", Entry[e].tenant} /\ r.itype \in {"", Entry[e].itype}}

Fallback(r) == (IF r.itype = "" THEN 2 ELSE 0) + (IF r.tenant = "" THEN 1 ELSE 0)

Preferred(S) ==
  IF S = {} THEN None ELSE CHOOSE r \in S : \A s \in S : Fallback(r) <= Fallback(s)

RateOf == [e \in Ids |-> Preferred(Applicable(e))]

MatchRate(e) == RateOf[e]

\* Tiers that accumulate.  The billing period of the rate is a length of time
\* here; None is a tier_period that cannot be resolved.
Accumulates(e) ==
  LET rate == MatchRate(e)
  IN rate # None /\ rate.tiers # <<>> /\ rate.mode = "cumulative" /\ rate.period # None

\* The billing period of an entry is the one that holds the end of its period.
Window(e) ==
  LET p == MatchRate(e).period
      n == Entry[e].to \div p
  IN [start |-> n * p, end |-> (n + 1) * p]

Key(e) == <<Entry[e].tenant, Entry[e].meter, Window(e)>>
Keys == {Key(e) : e \in {e \in Ids : Accumulates(e)}}

-----------------------------------------------------------------------------
\* batch: the entries fetched; todo: those not priced yet; bill: the cost
\* entries so far; prior: priorUsageCache.
Rater(pc, batch, todo, bill, prior) ==
  [pc |-> pc, batch |-> batch, todo |-> todo, bill |-> bill, prior |-> prior]

NoCache == [k \in Keys |-> None]
Resting == Rater("idle", {}, {}, {}, NoCache)
Fetching == Rater("fetch", {}, {}, {}, NoCache)

Init ==
  /\ table = {} /\ rated = {}
  /\ costs = [e \in Ids |-> <<>>]
  /\ raters = [i \in Raters |-> Resting]
  /\ guessed = {} /\ faults = 0

Fault(kind) == kind \in Faults /\ faults < MaxFaults /\ faults' = faults + 1

\* An insert of a metering entry commits.
Commit(e) ==
  /\ e \notin table
  /\ \A f \in Ids : f < e /\ Entry[f].writer = Entry[e].writer => f \in table
  /\ table' = table \cup {e}
  /\ UNCHANGED <<rated, costs, raters, guessed, faults>>

-----------------------------------------------------------------------------
Sum(S) == MapThenSumSet(LAMBDA e : Entry[e].value, S)

\* The visible usage that shares tenant and meter with an entry and lies
\* entirely in its billing period.
Usage(e) ==
  {f \in table : /\ Entry[f].tenant = Entry[e].tenant /\ Entry[f].meter = Entry[e].meter
                 /\ Entry[f].from >= Window(e).start /\ Entry[f].to <= Window(e).end}

\* Bug: the entry itself is part of its prior usage.
MeteringSumUpTo(e) == Sum({f \in Usage(e) : f <= e})

MeteringSumBefore(e) == Sum({f \in Usage(e) : f < e})

-----------------------------------------------------------------------------
(***************************************************************************)
(* Rater.sweep.                                                            *)
(***************************************************************************)
\* The end of a sweep.  The thresholds are evaluated and the wallets charged
\* on the way (see Wallet).
Rest(i) == raters' = [raters EXCEPT ![i] = Resting]

StartSweep(i) ==
  /\ raters[i].pc = "idle"
  /\ \/ raters' = [raters EXCEPT ![i] = Fetching] /\ UNCHANGED faults
     \/ Fault("rates") /\ UNCHANGED raters
  /\ UNCHANGED <<table, rated, costs, guessed>>

\* Bug: entries that have been rated are fetched again.
UnratedEntriesAll ==
  {e \in table : Cardinality({f \in table : f < e}) < Batch}

\* ORDER BY id LIMIT batch.
UnratedEntries ==
  {e \in table \ rated : Cardinality({f \in table \ rated : f < e}) < Batch}

Fetch(i) ==
  /\ raters[i].pc = "fetch"
  /\ \/ /\ UnratedEntries # {}
        /\ raters' = [raters EXCEPT ![i] =
                        Rater("price", UnratedEntries, UnratedEntries, {}, NoCache)]
        /\ UNCHANGED faults
     \/ UnratedEntries = {} /\ Rest(i) /\ UNCHANGED faults
     \/ Fault("fetch") /\ Rest(i)
  /\ UNCHANGED <<table, rated, costs, guessed>>

\* The next entry is priced, and adds lines to the bill.
Priced(i, e, lines, prior) ==
  LET g == raters[i]
  IN raters' = [raters EXCEPT ![i] =
       Rater(IF g.todo = {e} THEN "insert" ELSE "price", g.batch, g.todo \ {e},
             g.bill \cup lines, prior)]

Line(e, amount, type) == {[id |-> e, amount |-> amount, type |-> type]}

ByRule(i, e) ==
  /\ Entry[e].ruled
  /\ Priced(i, e, Line(e, RulePrice * Entry[e].value, ""), raters[i].prior)

\* The prior usage comes from the cache of the batch or from the database, and
\* is zero when that query fails.
PriceAccumulated(i, e, rate) ==
  LET cache == raters[i].prior
      price(prior) ==
        Priced(i, e, Line(e, ApplyRateCumulative(Entry[e].value, prior, rate), rate.type),
               [cache EXCEPT ![Key(e)] = prior + Entry[e].value])
  IN \/ cache[Key(e)] # None /\ price(cache[Key(e)]) /\ UNCHANGED <<guessed, faults>>
     \/ cache[Key(e)] = None /\ price(MeteringSumBefore(e)) /\ UNCHANGED <<guessed, faults>>
     \/ cache[Key(e)] = None /\ price(0) /\ Fault("sum") /\ guessed' = guessed \cup {Key(e)}

PriceAlone(i, e, rate) ==
  Priced(i, e, Line(e, ApplyRate(Entry[e].value, rate), rate.type), raters[i].prior)

\* An entry without a rate is passed over.
ByRate(i, e) ==
  LET rate == MatchRate(e)
  IN \/ rate = None /\ Priced(i, e, {}, raters[i].prior) /\ UNCHANGED <<guessed, faults>>
     \/ Accumulates(e) /\ PriceAccumulated(i, e, rate)
     \/ rate # None /\ ~Accumulates(e) /\ PriceAlone(i, e, rate) /\ UNCHANGED <<guessed, faults>>

\* An entry the rules cannot price falls back to its rate.
Price(i) ==
  /\ raters[i].pc = "price"
  /\ LET e == Min(raters[i].todo)
     IN \/ ByRule(i, e) /\ UNCHANGED <<guessed, faults>>
        \/ ByRate(i, e)
  /\ UNCHANGED <<table, rated, costs>>

\* InsertCostEntryBatch: one statement for all cost entries of the batch.
Stored(bill) ==
  LET charge(e) == LET c == CHOOSE c \in bill : c.id = e
                   IN [amount |-> c.amount, type |-> c.type]
  IN [e \in Ids |-> IF \E c \in bill : c.id = e THEN Append(costs[e], charge(e)) ELSE costs[e]]

Marking(g) == Rater("mark", g.batch, g.todo, g.bill, g.prior)

\* Bug: the sweep goes on to mark the batch after a failed insert.
InsertGoesOn(i) ==
  /\ raters[i].pc = "insert"
  /\ \/ costs' = Stored(raters[i].bill) /\ UNCHANGED faults
     \/ raters[i].bill # {} /\ Fault("insert") /\ UNCHANGED costs
  /\ raters' = [raters EXCEPT ![i] = Marking(raters[i])]
  /\ UNCHANGED <<table, rated, guessed>>

Insert(i) ==
  /\ raters[i].pc = "insert"
  /\ \/ /\ costs' = Stored(raters[i].bill)
        /\ raters' = [raters EXCEPT ![i] = Marking(raters[i])]
        /\ UNCHANGED faults
     \/ raters[i].bill # {} /\ Fault("insert") /\ Rest(i) /\ UNCHANGED costs
     \/ raters[i].bill # {} /\ Fault("ack") /\ Rest(i) /\ costs' = Stored(raters[i].bill)
  /\ UNCHANGED <<table, rated, guessed>>

MarkMeteringEntriesRated(ids) == rated' = rated \cup ids

\* Bug: only the entries with a cost are marked.
MarkCosted(i) ==
  /\ raters[i].pc = "mark"
  /\ \/ MarkMeteringEntriesRated({c.id : c \in raters[i].bill}) /\ UNCHANGED faults
     \/ Fault("mark") /\ UNCHANGED rated
  /\ IF Cardinality(raters[i].batch) < Batch THEN Rest(i)
     ELSE raters' = [raters EXCEPT ![i] = Fetching]
  /\ UNCHANGED <<table, costs, guessed>>

\* The whole batch is marked; an error is only logged.
\* After a full batch the next one is fetched.
Mark(i) ==
  /\ raters[i].pc = "mark"
  /\ \/ MarkMeteringEntriesRated(raters[i].batch) /\ UNCHANGED faults
     \/ Fault("mark") /\ UNCHANGED rated
  /\ IF Cardinality(raters[i].batch) < Batch THEN Rest(i)
     ELSE raters' = [raters EXCEPT ![i] = Fetching]
  /\ UNCHANGED <<table, costs, guessed>>

Crash(i) ==
  /\ raters[i].pc # "idle"
  /\ Fault("crash") /\ Rest(i)
  /\ UNCHANGED <<table, rated, costs, guessed>>

Sweep(i) == StartSweep(i) \/ Fetch(i) \/ Price(i) \/ Insert(i) \/ Mark(i)

Next ==
  \/ \E e \in Ids : Commit(e)
  \/ \E i \in Raters : StartSweep(i)
  \/ \E i \in Raters : Fetch(i)
  \/ \E i \in Raters : Price(i)
  \/ \E i \in Raters : Insert(i)
  \/ \E i \in Raters : Mark(i)
  \/ \E i \in Raters : Crash(i)

Spec == Init /\ [][Next]_vars

\* The ticker of Rater.Run fires again and again, and a sweep that has started
\* goes on.  A rater can always take a step, so that weak fairness of its
\* steps means that it takes steps for ever.
FairSpec == Spec /\ \A i \in Raters : []<><<Sweep(i)>>_vars

-----------------------------------------------------------------------------
(***************************************************************************)
(* Properties.                                                             *)
(***************************************************************************)
Lines == [id : Ids, amount : Int, type : CostTypes]
Charges == [amount : Int, type : CostTypes]

TypeOK ==
  /\ rated \subseteq table /\ table \subseteq Ids
  /\ costs \in [Ids -> Seq(Charges)]
  /\ \A i \in Raters :
       /\ raters[i].pc \in {"idle", "fetch", "price", "insert", "mark"}
       /\ raters[i].todo \subseteq raters[i].batch /\ raters[i].batch \subseteq table
       /\ raters[i].bill \subseteq Lines
       /\ raters[i].prior \in [Keys -> Int \cup {None}]
  /\ guessed \subseteq Keys /\ faults \in 0..MaxFaults

\* An entry with a price: only such an entry gets a cost entry.
Chargeable(e) == MatchRate(e) # None

\* Usage is never written off: an entry that counts as rated, and is therefore
\* never looked at again, has its cost entry unless no rate applies to it.
RatedIsCosted == \A e \in rated : Chargeable(e) => costs[e] # <<>>

\* With one rater an entry has at most one cost entry too many for each failed
\* statement or crash.
ChargedPerFault ==
  Cardinality(Raters) = 1 => \A e \in Ids : Len(costs[e]) <= 1 + faults

\* The entries of a billing period: those charged at cumulative tiers in it.
OfPeriod == [k \in Keys |-> {e \in Ids : Accumulates(e) /\ Key(e) = k}]

\* Periods whose entries come from one writer, begin in it, and have one rate.
Orderly ==
  {k \in Keys : \A e, f \in OfPeriod[k] :
     /\ Entry[e].writer = Entry[f].writer /\ MatchRate(e) = MatchRate(f)
     /\ Entry[e].from >= Window(e).start}

BilledAsWhole(S) ==
  \A e \in S :
    /\ MapThenSumSet(LAMBDA f : costs[f][1].amount, S) = Graduated(Sum(S), MatchRate(e).tiers)
    /\ \A j \in DOMAIN costs[e] : costs[e][j].amount = costs[e][1].amount

\* An orderly period of a tenant and meter is billed as one usage: however its
\* entries were cut into batches and sweeps, and whatever failed but the sum
\* of its usage, their cost entries add up to the graduated price of their
\* total, and an entry that was rated again was charged the same again.
PeriodBilledAsWhole ==
  /\ TypeOK
  /\ \A k \in Orderly \ guessed : BilledAsWhole({e \in OfPeriod[k] : costs[e] # <<>>})

\* Every entry that is stored is rated in the end: the backlog empties again
\* and again (there are finitely many entries, and none is ever unrated).
EventuallyRated == []<>(table = rated)
=============================================================================
