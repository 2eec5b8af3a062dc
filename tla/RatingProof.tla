---------------------------- MODULE RatingProof ----------------------------
(***************************************************************************)
(* Two facts about the rating sweep, for any entries, rates, batch size    *)
(* and number of failures: what is marked as rated has its cost entry, and *)
(* a single rater charges an entry twice only after a failure.             *)
(***************************************************************************)
EXTENDS Rating, FiniteSetTheorems, WellFoundedInduction, TLAPS

(***************************************************************************)
(* What a rater has in hand.  batch \ todo has been priced, and the bill   *)
(* has a line for each entry of it that has a rate.                        *)
(***************************************************************************)
Carried(i) ==
  /\ raters[i].pc = "insert" => raters[i].todo = {}
  /\ raters[i].pc \in {"price", "insert"} =>
       \A e \in raters[i].batch \ raters[i].todo :
         Chargeable(e) => \E c \in raters[i].bill : c.id = e
  /\ raters[i].pc = "mark" =>
       \A e \in raters[i].batch : Chargeable(e) => costs[e] # <<>>

CostLists == \A e \in Ids : \E S : costs[e] \in Seq(S)

CostedInv ==
  /\ DOMAIN raters = Raters /\ DOMAIN costs = Ids
  /\ CostLists
  /\ rated \subseteq Ids /\ table \subseteq Ids
  /\ \A i \in Raters : raters[i].batch \subseteq Ids
  /\ \A i \in Raters : Carried(i)
  /\ RatedIsCosted

LEMMA AppendGrows ==
  ASSUME NEW s, NEW x, \E S : s \in Seq(S)
  PROVE  /\ \E S : Append(s, x) \in Seq(S)
         /\ Append(s, x) # <<>>
         /\ Len(s) \in Nat /\ Len(Append(s, x)) = Len(s) + 1
<1>1. PICK S : s \in Seq(S) OBVIOUS
<1>2. s \in Seq(S \cup {x}) BY <1>1
<1>3. Append(s, x) \in Seq(S \cup {x}) BY <1>2
<1>4. Len(s) \in Nat /\ Len(Append(s, x)) = Len(s) + 1 BY <1>2
<1>5. Append(s, x) # <<>> BY <1>4
<1> QED BY <1>3, <1>4, <1>5

\* Storing a bill leaves every list of cost entries a list, takes nothing from
\* it, and gives an entry of the bill exactly one more.
LEMMA StoredGrows ==
  ASSUME NEW bill, CostLists, NEW e \in Ids
  PROVE  /\ \E S : Stored(bill)[e] \in Seq(S)
         /\ costs[e] # <<>> => Stored(bill)[e] # <<>>
         /\ (\E c \in bill : c.id = e) => Stored(bill)[e] # <<>>
         /\ Len(costs[e]) \in Nat
         /\ Len(Stored(bill)[e]) = Len(costs[e]) + (IF \E c \in bill : c.id = e THEN 1 ELSE 0)
<1>1. \E S : costs[e] \in Seq(S) BY DEF CostLists
<1>2. Len(costs[e]) \in Nat BY <1>1
<1>3. CASE \E c \in bill : c.id = e
  <2> DEFINE d == CHOOSE c \in bill : c.id = e
             a == [amount |-> d.amount, type |-> d.type]
  <2>1. Stored(bill)[e] = Append(costs[e], a) BY <1>3 DEF Stored
  <2> QED BY <1>1, <1>3, <2>1, AppendGrows
<1>4. CASE ~\E c \in bill : c.id = e
  <2>1. Stored(bill)[e] = costs[e] BY <1>4 DEF Stored
  <2> QED BY <1>1, <1>2, <1>4, <2>1
<1> QED BY <1>3, <1>4

\* Any step of a rater that prices an entry with a line, or an entry without a
\* rate, keeps what Carried says of it.
LEMMA PricedCarries ==
  ASSUME CostedInv, NEW i \in Raters, raters[i].pc = "price",
         NEW e, NEW lines, NEW prior, Priced(i, e, lines, prior),
         Chargeable(e) => \E c \in lines : c.id = e,
         UNCHANGED <<table, rated, costs>>
  PROVE  CostedInv'
<1> DEFINE g == raters[i]
           h == Rater(IF g.todo = {e} THEN "insert" ELSE "price", g.batch, g.todo \ {e},
                      g.bill \cup lines, prior)
<1>1. /\ DOMAIN raters' = Raters /\ raters'[i] = h
      /\ \A j \in Raters : j # i => raters'[j] = raters[j]
  BY DEF Priced, CostedInv
<1>2. /\ h.pc \in {"price", "insert"} /\ (h.pc = "insert" => g.todo = {e})
      /\ h.batch = g.batch /\ h.todo = g.todo \ {e} /\ h.bill = g.bill \cup lines
  BY DEF Rater
<1> HIDE DEF h
<1>a. \A f \in g.batch \ g.todo : Chargeable(f) => \E c \in g.bill : c.id = f
  BY DEF CostedInv, Carried
<1>3. \A f \in h.batch \ h.todo : Chargeable(f) => \E c \in h.bill : c.id = f
  <2> SUFFICES ASSUME NEW f \in h.batch \ h.todo, Chargeable(f)
               PROVE  \E c \in h.bill : c.id = f
    OBVIOUS
  <2>1. f = e \/ f \in g.batch \ g.todo BY <1>2
  <2>2. CASE f = e BY <1>2, <2>2
  <2>3. CASE f \in g.batch \ g.todo
    <3>1. PICK c \in g.bill : c.id = f BY <1>a, <2>3
    <3>2. c \in h.bill BY <1>2
    <3> QED BY <3>1, <3>2
  <2> QED BY <2>1, <2>2, <2>3
<1>4. Carried(i)'
  <2>1. h.pc = "insert" => h.todo = {} BY <1>2
  <2>2. h.pc # "mark" BY <1>2
  <2> QED BY <1>1, <1>3, <2>1, <2>2 DEF Carried, Chargeable
<1>5. \A j \in Raters : j # i => Carried(j)'
  BY <1>1 DEF CostedInv, Carried, Chargeable
<1>6. \A j \in Raters : raters'[j].batch \subseteq Ids
  BY <1>1, <1>2 DEF CostedInv
<1> QED BY <1>1, <1>4, <1>5, <1>6 DEF CostedInv, CostLists, RatedIsCosted, Chargeable

\* A step that gives a rater nothing in hand keeps the invariant, when it
\* leaves the tables alone.
LEMMA EmptyHanded ==
  ASSUME CostedInv, NEW i \in Raters, NEW g, g.batch = {}, g.pc \in {"idle", "fetch"},
         raters' = [raters EXCEPT ![i] = g], UNCHANGED <<table, rated, costs>>
  PROVE  CostedInv'
<1>1. /\ DOMAIN raters' = Raters /\ raters'[i] = g
      /\ \A j \in Raters : j # i => raters'[j] = raters[j]
  BY DEF CostedInv
<1>2. \A j \in Raters : Carried(j)'
  BY <1>1 DEF CostedInv, Carried, Chargeable
<1> QED BY <1>1, <1>2 DEF CostedInv, CostLists, RatedIsCosted, Chargeable

LEMMA Handless == /\ Resting.batch = {} /\ Resting.pc = "idle"
                  /\ Fetching.batch = {} /\ Fetching.pc = "fetch"
BY DEF Resting, Fetching, Rater

\* Storing the bill of a rater keeps the invariant for all others.
LEMMA StoredKeeps ==
  ASSUME CostedInv, NEW bill, costs' = Stored(bill)
  PROVE  /\ DOMAIN costs' = Ids /\ CostLists'
         /\ \A e \in Ids : costs[e] # <<>> => costs'[e] # <<>>
         /\ \A e \in Ids : (\E c \in bill : c.id = e) => costs'[e] # <<>>
<1>1. DOMAIN costs' = Ids BY DEF Stored
<1>2. CostLists BY DEF CostedInv
<1>3. CostLists' BY <1>2, StoredGrows DEF CostLists
<1> QED BY <1>1, <1>2, <1>3, StoredGrows

LEMMA CostedInit == Init => CostedInv
<1> SUFFICES ASSUME Init PROVE CostedInv OBVIOUS
<1>1. \A i \in Raters : raters[i].pc = "idle" /\ raters[i].batch = {}
  BY Handless DEF Init
<1>2. \A i \in Raters : Carried(i) BY <1>1 DEF Carried
<1>3. CostLists
  <2>1. <<>> \in Seq({}) OBVIOUS
  <2> QED BY <2>1 DEF CostLists, Init
<1> QED BY <1>1, <1>2, <1>3 DEF CostedInv, Init, RatedIsCosted

\* Every way to price an entry gives one with a rate its line.
LEMMA PriceLines ==
  ASSUME NEW i \in Raters, Price(i)
  PROVE  \E e, lines, prior : /\ Priced(i, e, lines, prior)
                              /\ Chargeable(e) => \E c \in lines : c.id = e
<1> DEFINE e == Min(raters[i].todo)
<1>1. ByRule(i, e) \/ ByRate(i, e) BY DEF Price
<1>2. \A amount, type : \E c \in Line(e, amount, type) : c.id = e BY DEF Line
<1> HIDE DEF e
<1>3. CASE ByRule(i, e) BY <1>2, <1>3 DEF ByRule
<1>4. CASE ByRate(i, e)
  <2>1. CASE MatchRate(e) = None /\ Priced(i, e, {}, raters[i].prior)
    BY <2>1 DEF Chargeable
  <2>2. CASE PriceAccumulated(i, e, MatchRate(e))
    BY <1>2, <2>2 DEF PriceAccumulated
  <2>3. CASE PriceAlone(i, e, MatchRate(e)) BY <1>2, <2>3 DEF PriceAlone
  <2> QED BY <1>4, <2>1, <2>2, <2>3 DEF ByRate
<1> QED BY <1>1, <1>3, <1>4

LEMMA CostedNext == CostedInv /\ [Next]_vars => CostedInv'
<1> SUFFICES ASSUME CostedInv, [Next]_vars PROVE CostedInv' OBVIOUS
<1>1. ASSUME NEW e \in Ids, Commit(e) PROVE CostedInv'
  BY <1>1 DEF Commit, CostedInv, CostLists, Carried, Chargeable, RatedIsCosted
<1>2. ASSUME NEW i \in Raters, StartSweep(i) PROVE CostedInv'
  <2>1. CASE raters' = [raters EXCEPT ![i] = Fetching]
    BY <1>2, <2>1, EmptyHanded, Handless DEF StartSweep
  <2>2. CASE UNCHANGED raters
    BY <1>2, <2>2 DEF StartSweep, CostedInv, CostLists, Carried, Chargeable, RatedIsCosted
  <2> QED BY <1>2, <2>1, <2>2 DEF StartSweep
<1>3. ASSUME NEW i \in Raters, Fetch(i) PROVE CostedInv'
  <2>1. CASE Rest(i) BY <1>3, <2>1, EmptyHanded, Handless DEF Fetch, Rest
  <2>2. CASE raters' = [raters EXCEPT ![i] =
                          Rater("price", UnratedEntries, UnratedEntries, {}, NoCache)]
    <3>1. /\ DOMAIN raters' = Raters
          /\ raters'[i].pc = "price" /\ raters'[i].batch = UnratedEntries
          /\ raters'[i].todo = UnratedEntries
          /\ \A j \in Raters : j # i => raters'[j] = raters[j]
      BY <2>2 DEF CostedInv, Rater
    <3>2. UnratedEntries \subseteq Ids BY DEF UnratedEntries, CostedInv
    <3>3. UNCHANGED <<table, rated, costs>> BY <1>3 DEF Fetch
    <3>4. \A j \in Raters : Carried(j)'
      BY <3>1, <3>3 DEF CostedInv, Carried, Chargeable
    <3>5. \A j \in Raters : raters'[j].batch \subseteq Ids
      BY <3>1, <3>2 DEF CostedInv
    <3> QED BY <3>1, <3>3, <3>4, <3>5 DEF CostedInv, CostLists, RatedIsCosted, Chargeable
  <2> QED BY <1>3, <2>1, <2>2 DEF Fetch
<1>4. ASSUME NEW i \in Raters, Price(i) PROVE CostedInv'
  <2>1. PICK e, lines, prior : /\ Priced(i, e, lines, prior)
                               /\ Chargeable(e) => \E c \in lines : c.id = e
    BY <1>4, PriceLines
  <2>2. raters[i].pc = "price" /\ UNCHANGED <<table, rated, costs>> BY <1>4 DEF Price
  <2> QED BY <2>1, <2>2, PricedCarries
<1>5. ASSUME NEW i \in Raters, Insert(i) PROVE CostedInv'
  <2>1. UNCHANGED <<table, rated>> BY <1>5 DEF Insert
  <2>2. CASE Rest(i) /\ UNCHANGED costs
    BY <2>1, <2>2, EmptyHanded, Handless DEF Rest
  <2>3. CASE costs' = Stored(raters[i].bill)
    <3>1. /\ DOMAIN costs' = Ids /\ CostLists'
          /\ \A e \in Ids : costs[e] # <<>> => costs'[e] # <<>>
          /\ \A e \in Ids : (\E c \in raters[i].bill : c.id = e) => costs'[e] # <<>>
      BY <2>3, StoredKeeps
    <3>2. RatedIsCosted' BY <2>1, <3>1 DEF CostedInv, RatedIsCosted, Chargeable
    <3>3. ASSUME NEW j \in Raters, raters'[j] = raters[j] PROVE Carried(j)'
      <4>1. Carried(j) /\ raters[j].batch \subseteq Ids BY DEF CostedInv
      <4> QED BY <3>1, <3>3, <4>1 DEF Carried, Chargeable
    <3>4. CASE Rest(i)
      <4>1. /\ DOMAIN raters' = Raters /\ raters'[i] = Resting
            /\ \A j \in Raters : j # i => raters'[j] = raters[j]
        BY <3>4 DEF Rest, CostedInv
      <4>2. Carried(i)' BY <4>1, Handless DEF Carried
      <4>3. \A j \in Raters : Carried(j)' BY <3>3, <4>1, <4>2
      <4>4. \A j \in Raters : raters'[j].batch \subseteq Ids BY <4>1, Handless DEF CostedInv
      <4> QED BY <2>1, <3>1, <3>2, <4>1, <4>3, <4>4 DEF CostedInv
    <3>5. CASE raters' = [raters EXCEPT ![i] = Marking(raters[i])]
      <4>1. /\ DOMAIN raters' = Raters
            /\ raters'[i].pc = "mark" /\ raters'[i].batch = raters[i].batch
            /\ \A j \in Raters : j # i => raters'[j] = raters[j]
        BY <3>5 DEF CostedInv, Marking, Rater
      <4>2. raters[i].pc = "insert" /\ raters[i].batch \subseteq Ids
        BY <1>5 DEF Insert, CostedInv
      <4>3. \A e \in raters[i].batch : Chargeable(e) => \E c \in raters[i].bill : c.id = e
        BY <4>2 DEF CostedInv, Carried
      <4>4. Carried(i)' BY <3>1, <4>1, <4>2, <4>3 DEF Carried, Chargeable
      <4>5. \A j \in Raters : Carried(j)' BY <3>3, <4>1, <4>4
      <4>6. \A j \in Raters : raters'[j].batch \subseteq Ids BY <4>1 DEF CostedInv
      <4> QED BY <2>1, <3>1, <3>2, <4>1, <4>5, <4>6 DEF CostedInv
    <3> QED BY <1>5, <3>4, <3>5 DEF Insert
  <2> QED BY <1>5, <2>2, <2>3 DEF Insert
<1>6. ASSUME NEW i \in Raters, Mark(i) PROVE CostedInv'
  <2>1. /\ raters[i].pc = "mark" /\ UNCHANGED <<table, costs>>
        /\ rated' = rated \/ rated' = rated \cup raters[i].batch
    BY <1>6 DEF Mark, MarkMeteringEntriesRated
  <2>2. PICK g : /\ raters' = [raters EXCEPT ![i] = g]
                 /\ g.batch = {} /\ g.pc \in {"idle", "fetch"}
    BY <1>6, Handless DEF Mark, MarkMeteringEntriesRated, Rest
  <2>3. /\ DOMAIN raters' = Raters /\ raters'[i] = g
        /\ \A j \in Raters : j # i => raters'[j] = raters[j]
    BY <2>2 DEF CostedInv
  <2>4. \A e \in raters[i].batch : Chargeable(e) => costs[e] # <<>>
    BY <2>1 DEF CostedInv, Carried
  <2>5. RatedIsCosted' BY <2>1, <2>4 DEF CostedInv, RatedIsCosted, Chargeable
  <2>6. \A j \in Raters : Carried(j)'
    BY <2>1, <2>2, <2>3 DEF CostedInv, Carried, Chargeable
  <2>7. \A j \in Raters : raters'[j].batch \subseteq Ids BY <2>2, <2>3 DEF CostedInv
  <2> QED BY <2>1, <2>3, <2>5, <2>6, <2>7 DEF CostedInv, CostLists
<1>7. ASSUME NEW i \in Raters, Crash(i) PROVE CostedInv'
  BY <1>7, EmptyHanded, Handless DEF Crash, Rest
<1>8. CASE UNCHANGED vars
  BY <1>8 DEF vars, CostedInv, CostLists, Carried, Chargeable, RatedIsCosted
<1> QED BY <1>1, <1>2, <1>3, <1>4, <1>5, <1>6, <1>7, <1>8 DEF Next

\* Usage is never written off: whatever fails, and however many raters run, an
\* entry that is marked as rated has its cost entry unless it has no rate.
THEOREM RatedStaysCosted == Spec => []RatedIsCosted
<1>1. CostedInv => RatedIsCosted BY DEF CostedInv
<1> QED BY <1>1, CostedInit, CostedNext, PTL DEF Spec

-----------------------------------------------------------------------------
(***************************************************************************)
(* One rater.  An entry that has one cost entry more than there were       *)
(* failures is rated, or about to be marked.                               *)
(***************************************************************************)
InHand(g) ==
  /\ g.todo \subseteq g.batch
  /\ \A c \in g.bill : c.id \in g.batch
  /\ g.pc = "price" => g.todo # {}
  /\ g.pc \in {"price", "insert", "mark"} => g.batch \cap rated = {}

Settled(e) == e \in rated \/ \E i \in Raters : raters[i].pc = "mark" /\ e \in raters[i].batch

ChargeInv ==
  /\ faults \in Nat
  /\ \A i \in Raters : InHand(raters[i])
  /\ \A e \in Ids : Len(costs[e]) <= 1 + faults
  /\ \A e \in Ids : Len(costs[e]) <= faults \/ Settled(e)

LEMMA MinIsMember ==
  ASSUME NEW S, S \subseteq Nat, S # {}
  PROVE  Min(S) \in S
<1> DEFINE R == OpToRel(<, Nat)
<1>1. PICK x \in S : \A y \in S : ~(<<y, x>> \in R)
  BY NatLessThanWellFounded, WFMin
<1>2. \A y \in S : x =< y
  <2> SUFFICES ASSUME NEW y \in S, ~(x =< y) PROVE FALSE OBVIOUS
  <2>1. y \in Nat /\ x \in Nat /\ y < x OBVIOUS
  <2>2. <<y, x>> \in R BY <2>1 DEF OpToRel
  <2> QED BY <1>1, <2>2
<1> QED BY <1>1, <1>2 DEF Min

\* A step that leaves the tables alone and gives the rater something in hand
\* that is not to be marked.
LEMMA TurnsAway ==
  ASSUME CostedInv, ChargeInv, NEW r, Raters = {r}, NEW g, InHand(g), g.pc # "mark",
         raters' = [raters EXCEPT ![r] = g], UNCHANGED <<rated, costs>>,
         \/ faults' = faults /\ raters[r].pc # "mark"
         \/ faults' = faults + 1
  PROVE  ChargeInv'
<1>1. raters'[r] = g BY DEF CostedInv
<1>2. \A e \in Ids : Len(costs[e]) \in Nat BY DEF CostedInv, CostLists
<1>3. faults' \in Nat /\ faults' >= faults BY DEF ChargeInv
<1>4. \A e \in Ids : Len(costs[e]) <= faults' \/ e \in rated
  BY <1>2, <1>3 DEF ChargeInv, Settled
<1>5. InHand(g)' BY DEF InHand
<1> QED BY <1>1, <1>2, <1>3, <1>4, <1>5 DEF ChargeInv, Settled, InHand

LEMMA HandlessInHand == InHand(Resting) /\ InHand(Fetching)
BY DEF InHand, Resting, Fetching, Rater

\* The lines of an entry are its own.
LEMMA PriceLinesOwn ==
  ASSUME NEW i \in Raters, Price(i)
  PROVE  \E lines, prior : /\ Priced(i, Min(raters[i].todo), lines, prior)
                           /\ \A c \in lines : c.id = Min(raters[i].todo)
                           /\ faults' = faults \/ faults' = faults + 1
<1> DEFINE e == Min(raters[i].todo)
<1>1. (ByRule(i, e) /\ UNCHANGED faults) \/ ByRate(i, e) BY DEF Price
<1>2. \A amount, type : \A c \in Line(e, amount, type) : c.id = e BY DEF Line
<1> HIDE DEF e
<1>3. CASE ByRule(i, e) /\ UNCHANGED faults BY <1>2, <1>3 DEF ByRule, e
<1>4. CASE ByRate(i, e)
  <2>1. CASE Priced(i, e, {}, raters[i].prior) /\ UNCHANGED faults BY <2>1 DEF e
  <2>2. CASE PriceAccumulated(i, e, MatchRate(e))
    BY <1>2, <2>2 DEF PriceAccumulated, Fault, e
  <2>3. CASE PriceAlone(i, e, MatchRate(e)) /\ UNCHANGED faults
    BY <1>2, <2>3 DEF PriceAlone, e
  <2> QED BY <1>4, <2>1, <2>2, <2>3 DEF ByRate
<1> QED BY <1>1, <1>3, <1>4

LEMMA ChargeInit == Init => ChargeInv
<1> SUFFICES ASSUME Init PROVE ChargeInv OBVIOUS
<1>1. \A i \in Raters : InHand(raters[i]) BY HandlessInHand DEF Init
<1>2. \A e \in Ids : Len(costs[e]) = 0 BY DEF Init
<1> QED BY <1>1, <1>2 DEF ChargeInv, Init

LEMMA ChargeNext ==
  ASSUME NEW r, Raters = {r}, CostedInv, ChargeInv, [Next]_vars
  PROVE  ChargeInv'
<1> DEFINE g == raters[r]
<1>a. InHand(g) /\ faults \in Nat BY DEF ChargeInv
<1>b. \A e \in Ids : Len(costs[e]) \in Nat BY DEF CostedInv, CostLists
<1>c. g.batch \subseteq Ids /\ Ids \subseteq Nat BY RatingAssumption DEF CostedInv
<1>1. ASSUME NEW e \in Ids, Commit(e) PROVE ChargeInv'
  BY <1>1 DEF Commit, ChargeInv, InHand, Settled
<1>2. CASE StartSweep(r)
  <2>0. g.pc = "idle" /\ UNCHANGED <<rated, costs>> BY <1>2 DEF StartSweep
  <2>1. CASE raters' = [raters EXCEPT ![r] = Fetching] /\ UNCHANGED faults
    BY <2>0, <2>1, TurnsAway, Handless, HandlessInHand
  <2>2. CASE UNCHANGED raters /\ faults' = faults + 1
    BY <1>b, <2>0, <2>2 DEF ChargeInv, InHand, Settled
  <2> QED BY <1>2, <2>1, <2>2 DEF StartSweep, Fault
<1>3. CASE Fetch(r)
  <2>0. g.pc = "fetch" /\ UNCHANGED <<rated, costs>> BY <1>3 DEF Fetch
  <2>1. faults' = faults \/ faults' = faults + 1 BY <1>3 DEF Fetch, Fault
  <2>2. CASE Rest(r)
    BY <2>0, <2>1, <2>2, TurnsAway, Handless, HandlessInHand DEF Rest
  <2>3. CASE /\ UnratedEntries # {}
             /\ raters' = [raters EXCEPT ![r] =
                             Rater("price", UnratedEntries, UnratedEntries, {}, NoCache)]
    <3> DEFINE h == Rater("price", UnratedEntries, UnratedEntries, {}, NoCache)
    <3>1. h.pc = "price" /\ InHand(h) BY <2>3 DEF Rater, InHand, UnratedEntries
    <3> HIDE DEF h
    <3>2. raters' = [raters EXCEPT ![r] = h] BY <2>3 DEF h
    <3> QED BY <2>0, <2>1, <3>1, <3>2, TurnsAway
  <2> QED BY <1>3, <2>2, <2>3 DEF Fetch
<1>4. CASE Price(r)
  <2> DEFINE e == Min(g.todo)
  <2>0. g.pc = "price" /\ UNCHANGED <<rated, costs>> BY <1>4 DEF Price
  <2>1. PICK lines, prior : /\ Priced(r, e, lines, prior)
                            /\ \A c \in lines : c.id = e
                            /\ faults' = faults \/ faults' = faults + 1
    BY <1>4, PriceLinesOwn
  <2>2. g.todo # {} /\ g.todo \subseteq g.batch BY <1>a, <2>0 DEF InHand
  <2>3. e \in g.todo BY <1>c, <2>2, MinIsMember
  <2> HIDE DEF e
  <2> DEFINE h == Rater(IF g.todo = {e} THEN "insert" ELSE "price", g.batch, g.todo \ {e},
                        g.bill \cup lines, prior)
  <2>4. raters' = [raters EXCEPT ![r] = h] BY <2>1 DEF Priced
  <2>5. /\ h.pc \in {"price", "insert"} /\ (h.pc = "price" => g.todo # {e})
        /\ h.batch = g.batch /\ h.todo = g.todo \ {e} /\ h.bill = g.bill \cup lines
    BY DEF Rater
  <2> HIDE DEF h
  <2>6. InHand(h)
    <3>1. h.todo \subseteq h.batch BY <2>2, <2>5
    <3>2. \A c \in h.bill : c.id \in h.batch BY <1>a, <2>1, <2>2, <2>3, <2>5 DEF InHand
    <3>3. h.pc = "price" => h.todo # {} BY <2>3, <2>5
    <3>4. h.batch \cap rated = {} BY <1>a, <2>0, <2>5 DEF InHand
    <3> QED BY <3>1, <3>2, <3>3, <3>4 DEF InHand
  <2> QED BY <2>0, <2>1, <2>4, <2>5, <2>6, TurnsAway
<1>5. CASE Insert(r)
  <2>0. g.pc = "insert" /\ UNCHANGED rated BY <1>5 DEF Insert
  <2>1. CASE Rest(r) /\ UNCHANGED costs /\ faults' = faults + 1
    BY <2>0, <2>1, TurnsAway, Handless, HandlessInHand DEF Rest
  <2>2. CASE costs' = Stored(g.bill)
    <3>1. \A e \in Ids : /\ Len(costs'[e]) \in Nat
                         /\ Len(costs'[e]) = Len(costs[e]) + (IF \E c \in g.bill : c.id = e THEN 1 ELSE 0)
      BY <2>2, <1>b, StoredGrows DEF CostedInv
    <3>2. \A e \in Ids : Len(costs[e]) <= faults \/ e \in rated
      BY <2>0 DEF ChargeInv, Settled
    <3>3. \A e \in Ids : (\E c \in g.bill : c.id = e) => e \in g.batch /\ e \notin rated
      BY <1>a, <2>0 DEF InHand
    <3>4. \A e \in Ids : /\ Len(costs'[e]) <= 1 + faults
                         /\ Len(costs'[e]) <= faults \/ e \in rated \/ e \in g.batch
      <4> SUFFICES ASSUME NEW e \in Ids
                   PROVE  /\ Len(costs'[e]) <= 1 + faults
                          /\ Len(costs'[e]) <= faults \/ e \in rated \/ e \in g.batch
        OBVIOUS
      <4>1. CASE \E c \in g.bill : c.id = e
        <5>1. e \in g.batch /\ Len(costs[e]) <= faults BY <3>2, <3>3, <4>1
        <5>2. Len(costs'[e]) = Len(costs[e]) + 1 BY <3>1, <4>1
        <5> QED BY <1>a, <1>b, <5>1, <5>2
      <4>2. CASE ~\E c \in g.bill : c.id = e
        <5>1. Len(costs'[e]) = Len(costs[e]) + 0 BY <3>1, <4>2
        <5>2. Len(costs'[e]) = Len(costs[e]) BY <1>b, <5>1
        <5> QED BY <3>2, <5>2 DEF ChargeInv
      <4> QED BY <4>1, <4>2
    <3>5. CASE Rest(r) /\ faults' = faults + 1
      <4>1. raters'[r] = Resting BY <3>5 DEF Rest, CostedInv
      <4>2. InHand(Resting)' BY DEF InHand, Resting, Rater
      <4> QED BY <1>a, <3>1, <3>4, <3>5, <4>1, <4>2 DEF ChargeInv, InHand
    <3>6. CASE raters' = [raters EXCEPT ![r] = Marking(g)] /\ UNCHANGED faults
      <4>1. /\ raters'[r].pc = "mark" /\ raters'[r].batch = g.batch
            /\ raters'[r].todo = g.todo /\ raters'[r].bill = g.bill
        BY <3>6 DEF CostedInv, Marking, Rater
      <4>2. InHand(raters[r])' BY <1>a, <2>0, <4>1 DEF InHand
      <4>3. \A e \in Ids : Len(costs'[e]) <= faults' \/ Settled(e)'
        BY <2>0, <3>4, <3>6, <4>1 DEF Settled
      <4> QED BY <1>a, <3>4, <3>6, <4>2, <4>3 DEF ChargeInv
    <3> QED BY <1>5, <3>5, <3>6 DEF Insert, Fault
  <2> QED BY <1>5, <2>1, <2>2 DEF Insert, Fault
<1>6. CASE Mark(r)
  <2>0. g.pc = "mark" /\ UNCHANGED costs BY <1>6 DEF Mark, MarkMeteringEntriesRated
  <2>1. PICK h : /\ raters' = [raters EXCEPT ![r] = h] /\ h \in {Resting, Fetching}
    BY <1>6 DEF Mark, MarkMeteringEntriesRated, Rest
  <2>2. InHand(h) /\ h.pc # "mark" BY <2>1, Handless, HandlessInHand
  <2>3. CASE UNCHANGED rated /\ faults' = faults + 1
    BY <2>0, <2>1, <2>2, <2>3, TurnsAway
  <2>4. CASE rated' = rated \cup g.batch /\ UNCHANGED faults
    <3>1. raters'[r] = h BY <2>1 DEF CostedInv
    <3>2. InHand(h)' BY <2>1 DEF InHand, Resting, Fetching, Rater
    <3>3. \A e \in Ids : Len(costs[e]) <= faults \/ e \in rated'
      BY <2>0, <2>4 DEF ChargeInv, Settled
    <3> QED BY <1>a, <2>0, <2>4, <3>1, <3>2, <3>3 DEF ChargeInv, Settled, InHand
  <2> QED BY <1>6, <2>3, <2>4 DEF Mark, MarkMeteringEntriesRated, Fault
<1>7. CASE Crash(r)
  BY <1>7, TurnsAway, Handless, HandlessInHand DEF Crash, Rest, Fault
<1>8. CASE UNCHANGED vars
  BY <1>8 DEF vars, ChargeInv, InHand, Settled
<1> QED BY <1>1, <1>2, <1>3, <1>4, <1>5, <1>6, <1>7, <1>8 DEF Next

\* A single rater charges an entry at most once more for each failed statement
\* or crash; without failures, exactly as docs/decisions/004 has it.
THEOREM ChargedOncePerFault == Spec => []ChargedPerFault
<1>1. CASE Cardinality(Raters) = 1
  <2>1. PICK r : Raters = {r} BY <1>1, FS_Singleton, RatingAssumption
  <2>2. Init => CostedInv /\ ChargeInv BY CostedInit, ChargeInit
  <2>3. CostedInv /\ ChargeInv /\ [Next]_vars => (CostedInv /\ ChargeInv)'
    BY <2>1, CostedNext, ChargeNext
  <2>4. CostedInv /\ ChargeInv => ChargedPerFault BY DEF ChargeInv, ChargedPerFault
  <2> QED BY <2>2, <2>3, <2>4, PTL DEF Spec
<1>2. CASE Cardinality(Raters) # 1
  <2>1. ChargedPerFault BY <1>2 DEF ChargedPerFault
  <2>2. TRUE => ChargedPerFault BY <2>1
  <2> QED BY <2>2, PTL
<1> QED BY <1>1, <1>2
=============================================================================
