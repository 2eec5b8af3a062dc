------------------------------- MODULE Tiers -------------------------------
(***************************************************************************)
(* What a rate charges for a metered value.  A rate has a price per unit   *)
(* or a table of tiers, each up to a total (None: without end) at its own  *)
(* price.  Values and prices are whole units here; the code keeps usage as *)
(* float64 and money as decimals.                                          *)
(***************************************************************************)
EXTENDS Integers, Sequences

CONSTANT None

\* Bug: a tier is as wide as its upper end, wherever the last one stopped.
ApplyTieredRateWide(value, tiers) ==
  LET after[i \in 0..Len(tiers)] ==
        IF i = 0 THEN [cost |-> 0, remaining |-> value]
        ELSE LET s == after[i - 1]
                 size == IF tiers[i].upTo = None THEN s.remaining ELSE tiers[i].upTo
                 consumed == IF size > s.remaining THEN s.remaining ELSE size
             IN [cost |-> s.cost + consumed * tiers[i].price, remaining |-> s.remaining - consumed]
  IN after[Len(tiers)].cost

\* A tier takes what fits of the value that remains.
Take(s, tier) ==
  LET open == tier.upTo = None
      size == IF open THEN s.remaining ELSE tier.upTo - s.prev
      consumed == IF size > s.remaining THEN s.remaining ELSE size
  IN IF s.remaining <= 0 THEN s
     ELSE [cost |-> s.cost + consumed * tier.price, remaining |-> s.remaining - consumed,
           prev |-> IF open THEN s.prev ELSE tier.upTo]

\* The waterfall, tier by tier.
ApplyTieredRate(value, tiers) ==
  LET after[i \in 0..Len(tiers)] ==
        IF i = 0 THEN [cost |-> 0, remaining |-> value, prev |-> 0]
        ELSE Take(after[i - 1], tiers[i])
  IN after[Len(tiers)].cost

ApplyRate(value, rate) ==
  IF rate.tiers # <<>> THEN ApplyTieredRate(value, rate.tiers) ELSE value * rate.price

\* Only the part of the usage beyond what came before is charged.
ApplyTieredRateCumulative(value, prior, tiers) ==
  ApplyTieredRate(prior + value, tiers) - ApplyTieredRate(prior, tiers)

ApplyRateCumulative(value, prior, rate) ==
  IF rate.tiers = <<>> THEN value * rate.price
  ELSE ApplyTieredRateCumulative(value, prior, rate.tiers)

-----------------------------------------------------------------------------
(***************************************************************************)
(* The reference: graduated pricing charges each unit of the usage at the  *)
(* price of the tier the unit falls into.                                  *)
(***************************************************************************)
Holds(tiers, i, unit) ==
  /\ tiers[i].upTo = None \/ unit <= tiers[i].upTo
  /\ \A j \in 1..(i - 1) : tiers[j].upTo # None /\ unit > tiers[j].upTo

UnitPrice(unit, tiers) ==
  IF \E i \in DOMAIN tiers : Holds(tiers, i, unit)
  THEN tiers[CHOOSE i \in DOMAIN tiers : Holds(tiers, i, unit)].price ELSE 0

Graduated(usage, tiers) ==
  LET upto[u \in 0..usage] == IF u = 0 THEN 0 ELSE upto[u - 1] + UnitPrice(u, tiers)
  IN upto[usage]

\* Where the code disagrees with the reference: the tables by which an entry is
\* not charged, after some prior usage, the difference of the graduated prices
\* of the totals.
Miscalculated(tables, max) ==
  {tiers \in tables : \E prior, value \in 0..max :
     ApplyTieredRateCumulative(value, prior, tiers)
       # Graduated(prior + value, tiers) - Graduated(prior, tiers)}
=============================================================================
