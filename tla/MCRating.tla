------------------------------ MODULE MCRating ------------------------------
(***************************************************************************)
(* A small instance of Rating: a meter with a free tier and two paid ones, *)
(* a meter with a price by rule, meters with tiers that do not accumulate, *)
(* a meter without a rate.                                                 *)
(***************************************************************************)
EXTENDS Reports

MCType(meter) == IF meter \in {"tokens", "requests"} THEN "model" ELSE "compute_instance"

MCRate(tenant, itype, meter, price, tiers, mode, period) ==
  [tenant |-> tenant, itype |-> itype, resource_type |-> MCType(meter), meter |-> meter,
   price |-> price, tiers |-> tiers, mode |-> mode, period |-> period,
   type |-> IF meter = "memory" THEN "Infrastructure" ELSE "Supplementary"]

MCGraduated == <<[upTo |-> 3, price |-> 0], [upTo |-> 6, price |-> 3], [upTo |-> None, price |-> 2]>>

MCRates ==
  {MCRate("", "", "memory", 0, MCGraduated, "cumulative", 10),
   MCRate("", "", "cores", 0, MCGraduated, "cumulative", None),
   MCRate("", "", "tokens", 0, MCGraduated, "per_event", 10),
   MCRate("", "", "uptime", 1, <<>>, "", 10),
   MCRate("acme", "", "uptime", 2, <<>>, "", 10),
   MCRate("", "large", "uptime", 4, <<>>, "", 10)}

MCEntry(tenant, meter, value, from, to, writer) ==
  [tenant |-> tenant, project |-> "shop", user |-> "", resource_type |-> MCType(meter),
   resource |-> meter, itype |-> "large", meter |-> meter, value |-> value, from |-> from,
   to |-> to, ruled |-> meter = "uptime", writer |-> writer]

\* Three entries of one billing period, an entry of another tenant that
\* crosses into the next period, and entries of every other kind of meter.
MCEntries ==
  <<MCEntry("acme", "memory", 2, 0, 3, "sweep"), MCEntry("acme", "memory", 3, 3, 6, "sweep"),
    MCEntry("acme", "requests", 1, 5, 6, "sweep"), MCEntry("acme", "memory", 4, 6, 9, "sweep"),
    MCEntry("acme", "uptime", 2, 8, 12, "sweep"), MCEntry("acme", "tokens", 4, 10, 10, "ingest"),
    MCEntry("globex", "memory", 4, 8, 10, "sweep"), MCEntry("globex", "cores", 4, 8, 12, "sweep")>>

\* All tables of up to three rising tiers with small ends and prices, the last
\* tier with or without an end.
MCTables ==
  UNION {{t \in [1..n -> [upTo : {1, 3, 4, None}, price : {0, 2, 5}]] :
            /\ \A i \in 1..(n - 1) : t[i].upTo # None
            /\ \A i \in 1..(n - 1) : t[i + 1].upTo # None => t[i].upTo < t[i + 1].upTo} :
         n \in 1..3}

MCMiscalculated == Miscalculated(MCTables, 6)

\* applyTieredRate and applyTieredRateCumulative agree with graduated pricing
\* for all these tables and all usages of up to six units: the waterfall prices
\* every unit in its own tier, and cumulative charges add up to the price of
\* the total.  And tiers that do not accumulate, or whose period cannot be
\* resolved, charge each entry the graduated price of its own value, whatever
\* was rated before it or in the same batch.
TiersAreGraduated ==
  /\ MCMiscalculated = {}
  /\ \A e \in Ids :
       MatchRate(e) # None /\ MatchRate(e).tiers # <<>> /\ ~Accumulates(e) /\ ~Entry[e].ruled =>
         \A n \in DOMAIN costs[e] :
           costs[e][n].amount = Graduated(Entry[e].value, MatchRate(e).tiers)
=============================================================================
