-------------------------- MODULE WalletBooksProof --------------------------
(***************************************************************************)
(* The two sides of a deduction, for every value of the constants: what a  *)
(* cost entry says was applied, and what the ledgers took for it.          *)
(***************************************************************************)
EXTENDS WalletProof

-----------------------------------------------------------------------------
(***************************************************************************)
(* Sums over a finite set, as in QuotaProof: MapThenSumSet adds up one     *)
(* picked element after the other, and the sum does not depend on the      *)
(* picks.                                                                  *)
(***************************************************************************)
Pick(s) == CHOOSE x \in s : TRUE
Adds(g, f, S) == g = [s \in SUBSET S |-> IF s = {} THEN 0 ELSE f[Pick(s)] + g[s \ {Pick(s)}]]

LEMMA TotalDef == ASSUME NEW f, NEW S PROVE Total(f, S) = (CHOOSE g : Adds(g, f, S))[S]
  BY Zenon DEF Total, MapThenSumSet, MapThenFoldSet, Adds, Pick

LEMMA Least ==
  ASSUME NEW S, IsFiniteSet(S), NEW T, T \subseteq SUBSET S, T # {}
  PROVE  \E x \in T : \A y \in T : ~(y \subseteq x /\ y # x)
<1>1. IsWellFoundedOn(StrictSubsetOrdering(S), SUBSET S)
  BY FS_StrictSubsetOrderingWellFounded, FS_FiniteSubsetsOfFinite
<1>2. PICK x \in T : \A y \in T : ~(<<y, x>> \in StrictSubsetOrdering(S))
  BY <1>1, WFMin, Zenon
<1>3. ASSUME NEW y \in T, y \subseteq x, y # x PROVE <<y, x>> \in StrictSubsetOrdering(S)
  BY <1>3 DEF StrictSubsetOrdering
<1>4. \A y \in T : ~(y \subseteq x /\ y # x)
  BY <1>2, <1>3, Zenon
<1> QED BY <1>4, Zenon

LEMMA AddsAgree ==
  ASSUME NEW f, NEW S, IsFiniteSet(S), NEW A \in SUBSET S, NEW B \in SUBSET S,
         NEW g, NEW h, Adds(g, f, A), Adds(h, f, B)
  PROVE  \A s \in SUBSET (A \cap B) : g[s] = h[s]
<1> DEFINE T == {s \in SUBSET (A \cap B) : g[s] # h[s]}
<1> SUFFICES ASSUME T # {} PROVE FALSE
  OBVIOUS
<1>1. PICK x \in T : \A y \in T : ~(y \subseteq x /\ y # x)
  <2>1. T \subseteq SUBSET S
    OBVIOUS
  <2> HIDE DEF T
  <2> QED BY <2>1, Least
<1>2. /\ g[x] = IF x = {} THEN 0 ELSE f[Pick(x)] + g[x \ {Pick(x)}]
      /\ h[x] = IF x = {} THEN 0 ELSE f[Pick(x)] + h[x \ {Pick(x)}]
  <2>1. x \in SUBSET A /\ x \in SUBSET B
    OBVIOUS
  <2> HIDE DEF T
  <2> QED BY <2>1, Zenon DEF Adds
<1>3. x # {} /\ g[x \ {Pick(x)}] # h[x \ {Pick(x)}]
  BY <1>2
<1>4. Pick(x) \in x
  BY <1>3 DEF Pick
<1> QED BY <1>1, <1>3, <1>4

\* The sums over the subsets of A, each from the one over a subset with an element less.
LEMMA AddsExist ==
  ASSUME NEW f, NEW S, IsFiniteSet(S), NEW A \in SUBSET S
  PROVE  \E g : Adds(g, f, A)
<1> DEFINE T == {s \in SUBSET S : ~ \E g : Adds(g, f, s)}
<1> SUFFICES ASSUME T # {} PROVE FALSE
  BY Zenon
<1>1. PICK x \in T : \A y \in T : ~(y \subseteq x /\ y # x)
  <2>1. T \subseteq SUBSET S
    OBVIOUS
  <2> HIDE DEF T
  <2> QED BY <2>1, Least
<1> DEFINE Upto(v) == (CHOOSE g : Adds(g, f, v))[v]
           h == [s \in SUBSET x |-> IF s = {} THEN 0 ELSE f[Pick(s)] + Upto(s \ {Pick(s)})]
<1>2. ASSUME NEW v \in SUBSET x, v # x PROVE Adds(CHOOSE g : Adds(g, f, v), f, v)
  <2>1. v \notin T /\ v \in SUBSET S
    BY <1>1, <1>2
  <2> QED BY <2>1, Zenon
<1>3. ASSUME NEW s \in SUBSET x, s # {} PROVE Upto(s \ {Pick(s)}) = h[s \ {Pick(s)}]
  <2> DEFINE v == s \ {Pick(s)}
             g == CHOOSE g : Adds(g, f, v)
  <2>1. Pick(s) \in s /\ v \in SUBSET x /\ v # x /\ x \in SUBSET S /\ v \in SUBSET S
    BY <1>3 DEF Pick
  <2>2. Adds(g, f, v)
    BY <1>2, <2>1
  <2>3. g[v] = IF v = {} THEN 0 ELSE f[Pick(v)] + g[v \ {Pick(v)}]
    <3> HIDE DEF v, g
    <3> QED BY <2>2, Zenon DEF Adds
  <2>4. h[v] = IF v = {} THEN 0 ELSE f[Pick(v)] + Upto(v \ {Pick(v)})
    <3> HIDE DEF v, Upto
    <3> QED BY <2>1
  <2>5. v # {} => g[v \ {Pick(v)}] = Upto(v \ {Pick(v)})
    <3>1. SUFFICES ASSUME v # {} PROVE g[v \ {Pick(v)}] = Upto(v \ {Pick(v)})
      OBVIOUS
    <3> DEFINE u == v \ {Pick(v)}
    <3>2. u \in SUBSET x /\ u # x /\ u \in SUBSET S /\ u \in SUBSET (v \cap u)
      BY <2>1
    <3>3. Adds(CHOOSE k : Adds(k, f, u), f, u)
      BY <1>2, <3>2, Zenon
    <3> HIDE DEF u, v, g
    <3>4. PICK k : k = CHOOSE kk : Adds(kk, f, u)
      OBVIOUS
    <3>5. Adds(k, f, u)
      BY <3>3, <3>4
    <3>6. \A r \in SUBSET (v \cap u) : g[r] = k[r]
      BY <2>1, <2>2, <3>2, <3>5, AddsAgree
    <3> QED BY <3>2, <3>4, <3>6, Zenon DEF u
  <2> HIDE DEF h
  <2> QED BY <2>3, <2>4, <2>5
<1>4. Adds(h, f, x)
  <2>1. ASSUME NEW s \in SUBSET x
        PROVE  h[s] = IF s = {} THEN 0 ELSE f[Pick(s)] + h[s \ {Pick(s)}]
    <3>1. CASE s = {}
      BY <3>1
    <3>2. CASE s # {}
      <4>1. h[s] = f[Pick(s)] + Upto(s \ {Pick(s)})
        <5> HIDE DEF Upto
        <5> QED BY <3>2
      <4> HIDE DEF h, Upto
      <4> QED BY <1>3, <3>2, <4>1
    <3> QED BY <3>1, <3>2
  <2>2. h = [s \in SUBSET x |-> h[s]]
    <3> HIDE DEF Upto
    <3> QED OBVIOUS
  <2> HIDE DEF h
  <2>3. h = [s \in SUBSET x |-> IF s = {} THEN 0 ELSE f[Pick(s)] + h[s \ {Pick(s)}]]
    BY <2>1, <2>2, Zenon
  <2> QED BY <2>3, Zenon DEF Adds
<1> HIDE DEF h
<1>5. \E g : Adds(g, f, x)
  BY <1>4
<1> QED BY <1>5

\* The sum over a finite set, from the one without the element that is picked.
LEMMA TotalPick ==
  ASSUME NEW f, NEW S, IsFiniteSet(S), NEW s \in SUBSET S
  PROVE  /\ s = {} => Total(f, s) = 0
         /\ s # {} => Pick(s) \in s /\ Total(f, s) = f[Pick(s)] + Total(f, s \ {Pick(s)})
<1>1. ASSUME NEW A \in SUBSET S
      PROVE  \E g : Adds(g, f, A) /\ Total(f, A) = g[A]
  <2>1. Adds(CHOOSE g : Adds(g, f, A), f, A)
    BY AddsExist, Zenon
  <2> QED BY <2>1, TotalDef, Zenon
<1>2. PICK g : Adds(g, f, s) /\ Total(f, s) = g[s]
  BY <1>1
<1>3. g[s] = IF s = {} THEN 0 ELSE f[Pick(s)] + g[s \ {Pick(s)}]
  BY <1>2, Zenon DEF Adds
<1>4. s # {} => Pick(s) \in s
  BY DEF Pick
<1>5. PICK v \in SUBSET S : v = s \ {Pick(s)}
  BY Zenon
<1>6. PICK h : Adds(h, f, v) /\ Total(f, v) = h[v]
  BY <1>1
<1>7. g[v] = h[v]
  <2>1. \A u \in SUBSET (s \cap v) : g[u] = h[u]
    BY <1>2, <1>6, AddsAgree
  <2>2. v \in SUBSET (s \cap v)
    BY <1>5
  <2> QED BY <2>1, <2>2
<1> QED BY <1>2, <1>3, <1>4, <1>5, <1>6, <1>7

LEMMA TotalInt ==
  ASSUME NEW S, IsFiniteSet(S), NEW f, \A x \in S : f[x] \in Int
  PROVE  \A s \in SUBSET S : Total(f, s) \in Int
<1> DEFINE T == {s \in SUBSET S : Total(f, s) \notin Int}
<1> SUFFICES ASSUME T # {} PROVE FALSE
  OBVIOUS
<1>1. PICK s \in T : \A y \in T : ~(y \subseteq s /\ y # s)
  <2>1. T \subseteq SUBSET S
    OBVIOUS
  <2> HIDE DEF T
  <2> QED BY <2>1, Least
<1>2. s # {} => Pick(s) \in s /\ Total(f, s) = f[Pick(s)] + Total(f, s \ {Pick(s)})
  BY TotalPick
<1>3. s # {}
  BY TotalPick
<1>4. Total(f, s \ {Pick(s)}) \in Int
  BY <1>1, <1>2, <1>3
<1>5. f[Pick(s)] \in Int
  BY <1>2, <1>3
<1> QED BY <1>2, <1>3, <1>4, <1>5

\* Whichever element is taken out.
LEMMA TotalWithout ==
  ASSUME NEW S, IsFiniteSet(S), NEW f, \A x \in S : f[x] \in Int
  PROVE  \A s \in SUBSET S, x \in S : x \in s => Total(f, s) = f[x] + Total(f, s \ {x})
<1> DEFINE T == {s \in SUBSET S : \E x \in s : Total(f, s) # f[x] + Total(f, s \ {x})}
<1> SUFFICES ASSUME T # {} PROVE FALSE
  BY Zenon
<1>1. PICK s \in T : \A y \in T : ~(y \subseteq s /\ y # s)
  <2>1. T \subseteq SUBSET S
    OBVIOUS
  <2> HIDE DEF T
  <2> QED BY <2>1, Least
<1>2. PICK x \in s : Total(f, s) # f[x] + Total(f, s \ {x})
  OBVIOUS
<1>3. PICK p \in s : p = Pick(s) /\ Total(f, s) = f[p] + Total(f, s \ {p})
  <2>1. s # {} /\ s \in SUBSET S
    BY <1>2
  <2> HIDE DEF T
  <2>2. Pick(s) \in s /\ Total(f, s) = f[Pick(s)] + Total(f, s \ {Pick(s)})
    BY <2>1, TotalPick, Zenon
  <2> QED BY <2>2, Zenon
<1>4. \A y \in SUBSET s, z \in s : y # s /\ z \in y => Total(f, y) = f[z] + Total(f, y \ {z})
  BY <1>1, Zenon
<1>5. PICK a, b, c \in SUBSET s : a = s \ {p} /\ b = s \ {x} /\ c = s \ {p, x}
  BY Zenon
<1>6. p # x /\ a # s /\ b # s /\ x \in a /\ p \in b /\ a \ {x} = c /\ b \ {p} = c
  BY <1>2, <1>3, <1>5, Zenon
<1>7. Total(f, a) = f[x] + Total(f, c) /\ Total(f, b) = f[p] + Total(f, c)
  BY <1>4, <1>6
<1>8. f[x] \in Int /\ f[p] \in Int /\ Total(f, c) \in Int
  BY TotalInt
<1>9. Total(f, s) = f[p] + (f[x] + Total(f, c))
  BY <1>3, <1>5, <1>7
<1>10. Total(f, s) # f[x] + (f[p] + Total(f, c))
  BY <1>2, <1>5, <1>7
<1> HIDE DEF T
<1> QED BY <1>8, <1>9, <1>10

LEMMA TotalGrows ==
  ASSUME NEW S, IsFiniteSet(S), NEW f, NEW h,
         \A x \in S : f[x] \in Int /\ h[x] \in Int /\ f[x] <= h[x]
  PROVE  Total(f, S) <= Total(h, S)
<1> DEFINE T == {s \in SUBSET S : ~(Total(f, s) <= Total(h, s))}
<1> SUFFICES ASSUME T # {} PROVE FALSE
  OBVIOUS
<1>1. PICK s \in T : \A y \in T : ~(y \subseteq s /\ y # s)
  <2>1. T \subseteq SUBSET S
    OBVIOUS
  <2> HIDE DEF T
  <2> QED BY <2>1, Least
<1>2. s # {} => /\ Pick(s) \in s /\ Total(f, s) = f[Pick(s)] + Total(f, s \ {Pick(s)})
                /\ Total(h, s) = h[Pick(s)] + Total(h, s \ {Pick(s)})
  BY TotalPick
<1>3. s # {}
  BY TotalPick
<1>4. Total(f, s \ {Pick(s)}) <= Total(h, s \ {Pick(s)})
  BY <1>1, <1>2, <1>3
<1>5. /\ f[Pick(s)] \in Int /\ h[Pick(s)] \in Int /\ f[Pick(s)] <= h[Pick(s)]
      /\ Total(f, s \ {Pick(s)}) \in Int /\ Total(h, s \ {Pick(s)}) \in Int
  BY <1>2, <1>3, TotalInt
<1>6. ~(Total(f, s) <= Total(h, s))
  OBVIOUS
<1> HIDE DEF T
<1> QED BY <1>2, <1>3, <1>4, <1>5, <1>6

LEMMA TotalSame ==
  ASSUME NEW S, IsFiniteSet(S), NEW f, NEW h, \A x \in S : f[x] \in Int /\ f[x] = h[x]
  PROVE  Total(f, S) = Total(h, S)
<1>1. Total(f, S) <= Total(h, S) /\ Total(h, S) <= Total(f, S)
  BY TotalGrows
<1>2. Total(f, S) \in Int /\ Total(h, S) \in Int
  BY TotalInt
<1> QED BY <1>1, <1>2

\* One more row, the others the same.
LEMMA TotalAdds ==
  ASSUME NEW S, IsFiniteSet(S), NEW n, n \notin S, NEW f, NEW h, h[n] \in Int,
         \A x \in S : f[x] \in Int /\ f[x] = h[x]
  PROVE  Total(h, S \cup {n}) = h[n] + Total(f, S)
<1>1. IsFiniteSet(S \cup {n}) /\ \A x \in S \cup {n} : h[x] \in Int
  BY FS_AddElement
<1>2. PICK A : A = S \cup {n}
  BY Zenon
<1>3. Total(h, A) = h[n] + Total(h, A \ {n})
  <2>1. A \in SUBSET A /\ n \in A
    BY <1>2
  <2> QED BY <1>1, <1>2, <2>1, TotalWithout
<1>4. A \ {n} = S
  BY <1>2
<1>5. Total(f, S) = Total(h, S)
  BY TotalSame
<1> QED BY <1>2, <1>3, <1>4, <1>5

-----------------------------------------------------------------------------
\* Rounding commutes with whole units and with the sign, from zero upwards.
LEMMA RoundAdds ==
  ASSUME NEW b \in Nat, IsUnits(b), NEW a \in Nat \ {0}
  PROVE  /\ Round(b + a) = b + Round(a) /\ Round(a) \in Nat
         /\ Round(-a) = -Round(a)
<1>1. Round(b + a) = RoundNat(b + a) /\ Round(a) = RoundNat(a)
  BY DEF Round
<1>2. PICK s \in Int, r \in Int :
        /\ s = RoundNat(b + a) /\ IsUnits(s) /\ 2 * s <= 2 * (b + a) + Grain
        /\ 2 * (b + a) < 2 * s + Grain
        /\ r = RoundNat(a) /\ IsUnits(r) /\ 2 * r <= 2 * a + Grain /\ 2 * a < 2 * r + Grain
  <2>1. PICK x \in Nat : x = b + a
    OBVIOUS
  <2>2. /\ RoundNat(x) \in Int /\ IsUnits(RoundNat(x)) /\ 2 * RoundNat(x) <= 2 * x + Grain
        /\ 2 * x < 2 * RoundNat(x) + Grain
    BY RoundNatBounds
  <2>3. /\ RoundNat(a) \in Int /\ IsUnits(RoundNat(a)) /\ 2 * RoundNat(a) <= 2 * a + Grain
        /\ 2 * a < 2 * RoundNat(a) + Grain
    BY RoundNatBounds
  <2> QED BY <2>1, <2>2, <2>3, Zenon
<1>3. b + r \in Int /\ IsUnits(b + r)
  <2>1. b \in Int /\ b + r \in Int
    BY <1>2
  <2> QED BY <1>2, <2>1, UnitsAdd, Zenon
<1>4. s <= b + r
  BY <1>2, <1>3, UnitsApart, WalletAssumption
<1>5. b + r <= s
  BY <1>2, <1>3, UnitsApart, WalletAssumption
<1>6. 0 <= r
  <2>1. 2 * 0 < 2 * r + 2 * Grain
    BY <1>2, WalletAssumption
  <2> QED BY <1>2, <2>1, UnitsZero, UnitsApart
<1>7. Round(-a) = -RoundNat(a)
  <2>1. ~(-a >= 0) /\ -(-a) = a
    OBVIOUS
  <2> QED BY <2>1 DEF Round
<1> QED BY <1>1, <1>2, <1>3, <1>4, <1>5, <1>6, <1>7

-----------------------------------------------------------------------------
(***************************************************************************)
(* What was applied is what was deducted.  A deduction writes both sides   *)
(* in one transaction, and since what was applied before is a whole number *)
(* of wallet units both round alike.  A row stays a deduction of its       *)
(* entry, for the tenants of wallets and entries never change.             *)
(***************************************************************************)
InUse ==
  /\ \A w \in WalletIds : ledger[w] # <<>> => w \in Open
  /\ \A r \in Requests : InFlight(r) => reqs[r].wallet \in Open
RowsOfTenant ==
  \A w \in WalletIds : \A i \in DOMAIN ledger[w] : ledger[w][i].cost \in CostIds =>
     costs[ledger[w][i].cost].tenant = wallets[w].tenant
PassOfTenant ==
  /\ Holding => cur.id \in Open /\ wallets[cur.id].tenant = cur.tenant
  /\ pc \in {"debit", "refresh"} => \A c \in todo : costs[c].tenant = cur.tenant /\ due[c] > 0
AppliedUnits == \A c \in CostIds : costs[c].applied \in Nat /\ IsUnits(costs[c].applied)

DeductInv == InUse /\ RowsOfTenant /\ PassOfTenant /\ AppliedUnits /\ AppliedIsDeducted

\* The deductions of c in a ledger l, and what they took.
RowsOf(l) == UNION {{w} \X DOMAIN l[w] : w \in WalletIds}
TakenOf(l) == [p \in RowsOf(l) |-> -l[p[1]][p[2]].amount]
DeductionsOf(l, c) == {p \in RowsOf(l) : l[p[1]][p[2]].cost = c}

LEMMA RowOf ==
  ASSUME NEW l, NEW p
  PROVE  p \in RowsOf(l) <=> \E w \in WalletIds : \E i \in DOMAIN l[w] : p = <<w, i>>
<1>1. p \in RowsOf(l) <=> \E w \in WalletIds : p \in {w} \X DOMAIN l[w]
  BY Zenon, Zenon DEF RowsOf
<1>2. \A w : p \in {w} \X DOMAIN l[w] <=> \E i \in DOMAIN l[w] : p = <<w, i>>
  OBVIOUS
<1> QED BY <1>1, <1>2, Zenon

LEMMA RowsFinite ==
  ASSUME NEW l \in [WalletIds -> Seq(Rows)] PROVE IsFiniteSet(RowsOf(l))
<1> DEFINE Of(w) == {w} \X DOMAIN l[w]
           All == {Of(w) : w \in WalletIds}
<1>1. ASSUME NEW w \in WalletIds PROVE IsFiniteSet(Of(w))
  <2>1. Len(l[w]) \in Nat /\ DOMAIN l[w] = 1..Len(l[w])
    OBVIOUS
  <2>2. IsFiniteSet(DOMAIN l[w])
    BY <2>1, FS_Interval
  <2>3. IsFiniteSet({w})
    BY FS_Singleton, Zenon
  <2> QED BY <2>2, <2>3, FS_Product
<1>2. IsFiniteSet(All)
  <2> HIDE DEF Of
  <2>1. IsFiniteSet(WalletIds)
    BY WalletAssumption
  <2>2. [w \in WalletIds |-> Of(w)] \in Surjection(WalletIds, All)
    BY DEF Surjection
  <2> HIDE DEF All
  <2> QED BY <2>1, <2>2, FS_Surjection
<1>3. \A T \in All : IsFiniteSet(T)
  <2> HIDE DEF Of
  <2> QED BY <1>1
<1>4. IsFiniteSet(UNION All)
  <2> HIDE DEF All
  <2> QED BY <1>2, <1>3, FS_UNION
<1> QED BY <1>4, Zenon DEF RowsOf

LEMMA TakenInt ==
  ASSUME NEW l \in [WalletIds -> Seq(Rows)], NEW w \in WalletIds, NEW i \in DOMAIN l[w]
  PROVE  <<w, i>> \in RowsOf(l) /\ TakenOf(l)[<<w, i>>] = -l[w][i].amount /\ -l[w][i].amount \in Int
<1>1. <<w, i>> \in RowsOf(l)
  BY RowOf
<1>2. TakenOf(l)[<<w, i>>] = -l[w][i].amount
  BY <1>1 DEF TakenOf
<1>3. l[w][i] \in Rows
  OBVIOUS
<1>4. l[w][i].amount \in Int
  BY <1>3 DEF Rows
<1> QED BY <1>1, <1>2, <1>4

\* One more row of a ledger.
AllTaken(l, c) == Total(TakenOf(l), DeductionsOf(l, c))
Share(row, c) == IF row.cost = c THEN -row.amount ELSE 0

LEMMA TakenAppend ==
  ASSUME NEW l \in [WalletIds -> Seq(Rows)], NEW w \in WalletIds, NEW row \in Rows, NEW c \in CostIds,
         NEW l2, l2 = [l EXCEPT ![w] = Append(l[w], row)]
  PROVE  AllTaken(l2, c) = AllTaken(l, c) + Share(row, c)
<1> DEFINE n == Len(l[w]) + 1
           new == <<w, n>>
           S == DeductionsOf(l, c)
<1>0. l2 \in [WalletIds -> Seq(Rows)]
  <2>1. Append(l[w], row) \in Seq(Rows)
    OBVIOUS
  <2> QED BY <2>1
<1>1. /\ \A v \in WalletIds : DOMAIN l[v] = 1..Len(l[v]) /\ Len(l[v]) \in Nat
      /\ \A v \in WalletIds : v # w => l2[v] = l[v]
      /\ DOMAIN l2[w] = DOMAIN l[w] \cup {n} /\ n \notin DOMAIN l[w]
      /\ l2[w][n] = row /\ \A i \in DOMAIN l[w] : l2[w][i] = l[w][i]
  <2>1. \A v \in WalletIds : l[v] \in Seq(Rows)
    OBVIOUS
  <2>2. l2[w] = Append(l[w], row) /\ l[w] \in Seq(Rows)
    OBVIOUS
  <2>3. DOMAIN l2[w] = 1..n /\ DOMAIN l[w] = 1..Len(l[w]) /\ Len(l[w]) \in Nat
    BY <2>2
  <2>4. \A i \in 1..Len(l[w]) : l2[w][i] = l[w][i]
    BY <2>2
  <2>5. l2[w][n] = row
    BY <2>2
  <2> QED BY <2>1, <2>3, <2>4, <2>5
<1> HIDE DEF n
<1>2. new \notin RowsOf(l) /\ new \in RowsOf(l2)
  <2>1. new \in RowsOf(l2)
    BY <1>1, RowOf, Zenon
  <2>2. ASSUME NEW v \in WalletIds, NEW i \in DOMAIN l[v], new = <<v, i>> PROVE FALSE
    BY <1>1, <2>2
  <2> QED BY <2>1, <2>2, RowOf
<1>3. ASSUME NEW p PROVE p \in RowsOf(l2) <=> p \in RowsOf(l) \/ p = new
  <2>1. ASSUME NEW v \in WalletIds, NEW i \in DOMAIN l2[v] PROVE <<v, i>> \in RowsOf(l) \/ <<v, i>> = new
    BY <1>1, <2>1, RowOf
  <2>2. ASSUME NEW v \in WalletIds, NEW i \in DOMAIN l[v] PROVE <<v, i>> \in RowsOf(l2)
    BY <1>1, <2>2, RowOf, Zenon
  <2>3. ASSUME p \in RowsOf(l2) PROVE p \in RowsOf(l) \/ p = new
    <3>1. PICK v \in WalletIds : \E i \in DOMAIN l2[v] : p = <<v, i>>
      BY <2>3, RowOf, Zenon
    <3> QED BY <2>1, <3>1
  <2>4. ASSUME p \in RowsOf(l) PROVE p \in RowsOf(l2)
    <3>1. PICK v \in WalletIds : \E i \in DOMAIN l[v] : p = <<v, i>>
      BY <2>4, RowOf
    <3> QED BY <2>2, <3>1, Zenon
  <2> QED BY <1>2, <2>3, <2>4, Zenon
<1>4. \A p \in RowsOf(l) : l2[p[1]][p[2]] = l[p[1]][p[2]]
  <2>1. ASSUME NEW v \in WalletIds, NEW i \in DOMAIN l[v] PROVE l2[v][i] = l[v][i]
    BY <1>1
  <2> QED BY <2>1, RowOf
<1>5. ASSUME NEW p \in RowsOf(l) PROVE TakenOf(l)[p] \in Int /\ TakenOf(l)[p] = TakenOf(l2)[p]
  <2>1. ASSUME NEW v \in WalletIds, NEW i \in DOMAIN l[v]
        PROVE  TakenOf(l)[<<v, i>>] \in Int /\ TakenOf(l)[<<v, i>>] = TakenOf(l2)[<<v, i>>]
    <3>1. i \in DOMAIN l2[v] /\ l2[v][i] = l[v][i]
      BY <1>1
    <3>2. TakenOf(l)[<<v, i>>] = -l[v][i].amount /\ -l[v][i].amount \in Int
      BY TakenInt
    <3>3. TakenOf(l2)[<<v, i>>] = -l2[v][i].amount
      BY <1>0, <3>1, TakenInt, Zenon
    <3> QED BY <3>1, <3>2, <3>3
  <2>2. PICK v \in WalletIds : \E i \in DOMAIN l[v] : p = <<v, i>>
    BY RowOf
  <2> QED BY <2>1, <2>2, Zenon
<1>6. l2[new[1]][new[2]] = row /\ TakenOf(l2)[new] = -row.amount /\ -row.amount \in Int
  <2>1. n \in DOMAIN l2[w] /\ l2[w][n] = row
    BY <1>1
  <2>2. TakenOf(l2)[<<w, n>>] = -l2[w][n].amount /\ -l2[w][n].amount \in Int
    BY <1>0, <2>1, TakenInt, Zenon
  <2> QED BY <2>1, <2>2
<1>7. DeductionsOf(l2, c) = IF row.cost = c THEN S \cup {new} ELSE S
  <2> HIDE DEF new
  <2> QED BY <1>2, <1>3, <1>4, <1>6, Zenon DEF DeductionsOf
<1>8. IsFiniteSet(S) /\ new \notin S /\ S \subseteq RowsOf(l)
  <2>1. S \subseteq RowsOf(l)
    BY DEF DeductionsOf
  <2> QED BY <1>2, <2>1, RowsFinite, FS_Subset
<1> HIDE DEF new, S
<1>9. PICK f, h : f = TakenOf(l) /\ h = TakenOf(l2)
  BY Zenon, Zenon
<1>10. /\ \A p \in S : f[p] \in Int /\ f[p] = h[p]
       /\ h[new] = -row.amount /\ h[new] \in Int
  BY <1>5, <1>6, <1>8, <1>9, Zenon
<1>11. Total(f, S) \in Int
  BY <1>8, <1>10, TotalInt, Zenon
<1>12. Total(h, S \cup {new}) = h[new] + Total(f, S)
  BY <1>8, <1>10, TotalAdds, Zenon
<1>13. Total(f, S) = Total(h, S)
  BY <1>8, <1>10, TotalSame
<1>14. Total(h, IF row.cost = c THEN S \cup {new} ELSE S) =
         Total(f, S) + IF row.cost = c THEN -row.amount ELSE 0
  BY <1>6, <1>10, <1>11, <1>12, <1>13
<1>15. Total(TakenOf(l2), DeductionsOf(l2, c)) =
           Total(TakenOf(l), DeductionsOf(l, c)) + IF row.cost = c THEN -row.amount ELSE 0
  BY <1>7, <1>9, <1>14 DEF S
<1> QED BY <1>15, Zenon DEF AllTaken, Share

\* When each row is of the tenant of its entry, the tenant need not be compared.
RowsAgree(l, of, entry) ==
  \A w \in WalletIds : \A i \in DOMAIN l[w] : l[w][i].cost \in CostIds =>
    entry[l[w][i].cost].tenant = of[w].tenant

OwnRows(l, of, entry, c) ==
  \A p \in RowsOf(l) : l[p[1]][p[2]].cost = c => of[p[1]].tenant = entry[c].tenant

LEMMA OwnDeductions ==
  ASSUME NEW l, NEW of, NEW entry, NEW c \in CostIds, RowsAgree(l, of, entry)
  PROVE  OwnRows(l, of, entry, c)
<1>1. ASSUME NEW w \in WalletIds, NEW i \in DOMAIN l[w], l[w][i].cost = c
      PROVE  of[w].tenant = entry[c].tenant
  BY <1>1 DEF RowsAgree
<1> QED BY <1>1, RowOf DEF OwnRows

LEMMA Booked ==
  ASSUME RowsOfTenant, NEW c \in CostIds
  PROVE  Total(Taken, Deductions(c)) = AllTaken(ledger, c)
<1>1. LedgerRows = RowsOf(ledger)
  BY Zenon, Zenon DEF LedgerRows, RowsOf
<1>2. Taken = TakenOf(ledger)
  BY <1>1, Zenon DEF Taken, TakenOf
<1>3. \A p \in RowsOf(ledger) : ledger[p[1]][p[2]].cost = c => wallets[p[1]].tenant = costs[c].tenant
  <2>1. PICK l, of, entry : l = ledger /\ of = wallets /\ entry = costs
    BY Zenon, Zenon
  <2>2. RowsAgree(l, of, entry)
    BY <2>1, Zenon DEF RowsOfTenant, RowsAgree
  <2>3. OwnRows(l, of, entry, c)
    BY <2>2, OwnDeductions, Zenon
  <2> QED BY <2>1, <2>3, Zenon DEF OwnRows
<1>4. Deductions(c) = DeductionsOf(ledger, c)
  BY <1>1, <1>3, Zenon DEF Deductions, DeductionsOf
<1> QED BY <1>2, <1>4, Zenon DEF AllTaken

LEMMA BookedNext ==
  ASSUME RowsOfTenant', NEW c \in CostIds
  PROVE  Total(Taken, Deductions(c))' = AllTaken(ledger', c)
<1>1. LedgerRows' = RowsOf(ledger')
  BY Zenon, Zenon DEF LedgerRows, RowsOf
<1>2. Taken' = TakenOf(ledger')
  BY <1>1, Zenon DEF Taken, TakenOf
<1>3. \A p \in RowsOf(ledger') : ledger'[p[1]][p[2]].cost = c => wallets'[p[1]].tenant = costs'[c].tenant
  <2>1. PICK l, of, entry : l = ledger' /\ of = wallets' /\ entry = costs'
    BY Zenon, Zenon
  <2>2. RowsAgree(l, of, entry)
    BY <2>1, Zenon DEF RowsOfTenant, RowsAgree
  <2>3. OwnRows(l, of, entry, c)
    BY <2>2, OwnDeductions, Zenon
  <2> QED BY <2>1, <2>3, Zenon DEF OwnRows
<1>4. Deductions(c)' = DeductionsOf(ledger', c)
  BY <1>1, <1>3, Zenon DEF Deductions, DeductionsOf
<1> QED BY <1>2, <1>4, Zenon DEF AllTaken

LEMMA DeductInit == Init => DeductInv
<1> SUFFICES ASSUME Init PROVE DeductInv
  OBVIOUS
<1>1. /\ \A w \in WalletIds : ledger[w] = <<>>
      /\ \A c \in CostIds : costs[c].applied = 0
      /\ pc = "idle" /\ \A r \in Requests : ~InFlight(r)
  BY DEF Init, InFlight, Request
<1>2. InUse /\ RowsOfTenant /\ PassOfTenant
  BY <1>1 DEF InUse, RowsOfTenant, PassOfTenant, Holding
<1>3. AppliedUnits
  BY <1>1, UnitsZero DEF AppliedUnits
<1>4. ASSUME NEW c \in CostIds PROVE Total(Taken, Deductions(c)) = 0
  <2>1. \A w \in WalletIds : DOMAIN ledger[w] = {}
    BY <1>1
  <2>2. DeductionsOf(ledger, c) = {}
    BY <2>1, RowOf DEF DeductionsOf
  <2>3. Total(Taken, Deductions(c)) = Total(TakenOf(ledger), {})
    BY <1>2, <2>2, Booked DEF AllTaken
  <2> QED BY <2>3, TotalPick, FS_EmptySet
<1> QED BY <1>1, <1>2, <1>3, <1>4 DEF DeductInv, AppliedIsDeducted

\* The tables that a row's tenant is read from.
LEMMA TenantsStay ==
  ASSUME TypeInv, [Next]_vars
  PROVE  /\ \A w \in Open : w \in Open' /\ wallets'[w].tenant = wallets[w].tenant
         /\ \A c \in CostIds : costs[c].tenant # None => costs'[c].tenant = costs[c].tenant
<1>a. wallets \in [WalletIds -> WalletRows] /\ costs \in [CostIds -> CostRows]
  BY DEF TypeInv, TypeOK
<1>b. \A w \in WalletIds : w \in Open <=> wallets[w].open > 0
  BY DEF Open
<1>c. \A w \in WalletIds : w \in Open' <=> wallets'[w].open > 0
  BY DEF Open
<1>d. Open \subseteq WalletIds
  BY DEF Open
<1>1. ASSUME NEW w \in WalletIds, NEW t \in Tenants, CreateWallet(w, t)
      PROVE  costs' = costs /\ \A v \in WalletIds : v # w => wallets'[v] = wallets[v]
  BY <1>a, <1>1 DEF CreateWallet
<1>2. ASSUME NEW c \in CostIds, NEW t \in Tenants, NEW a \in CostAmounts, InsertCostEntry(c, t, a)
      PROVE  wallets' = wallets /\ \A d \in CostIds : d # c => costs'[d] = costs[d]
  BY <1>a, <1>2 DEF InsertCostEntry
<1>3. ASSUME NEW r \in Requests, TopUpCommit(r)
      PROVE  costs' = costs /\ \A v \in WalletIds : wallets'[v].open = wallets[v].open
                                                 /\ wallets'[v].tenant = wallets[v].tenant
  <2>1. /\ wallets' = [wallets EXCEPT ![reqs[r].wallet] =
               [wallets[reqs[r].wallet] EXCEPT !.balance = Round(wallets[reqs[r].wallet].balance + reqs[r].amount),
                  !.reference = Round(wallets[reqs[r].wallet].reference + reqs[r].amount)]]
        /\ costs' = costs
    BY <1>3, Zenon DEF TopUpCommit
  <2> QED BY <1>a, <2>1 DEF WalletRows
<1>4. ASSUME NEW c \in CostIds, CommitDeduct(c)
      PROVE  /\ \A v \in WalletIds : wallets'[v].open = wallets[v].open
                                     /\ wallets'[v].tenant = wallets[v].tenant
             /\ \A d \in CostIds : costs'[d].tenant = costs[d].tenant
  <2>1. PICK after : wallets' = [wallets EXCEPT ![cur.id].balance = after]
    BY <1>4, Zenon DEF CommitDeduct
  <2>2. PICK x : costs' = [costs EXCEPT ![c].applied = x]
    BY <1>4, Zenon DEF CommitDeduct
  <2>3. \A v \in WalletIds : wallets'[v].open = wallets[v].open /\ wallets'[v].tenant = wallets[v].tenant
    BY <1>a, <2>1 DEF WalletRows
  <2>4. \A d \in CostIds : costs'[d].tenant = costs[d].tenant
    BY <1>a, <2>2 DEF CostRows
  <2> QED BY <2>3, <2>4
<1>5. ASSUME ~\E r \in Requests : TopUpCommit(r), ~\E c \in CostIds : CommitDeduct(c),
             ~\E w \in WalletIds, t \in Tenants : CreateWallet(w, t),
             ~\E c \in CostIds, t \in Tenants, a \in CostAmounts : InsertCostEntry(c, t, a)
      PROVE UNCHANGED <<costs, wallets>>
  BY <1>5 DEF Next, TopUp, DeductWallets, TopUpCheck, TopUpFail,
     StartDeduct, EndDeduct, ReadWallet, ReadEntries, NextTenant, CommitNothing, FailDeduct, Refresh,
     Crash, Restart, vars
<1>6. ASSUME NEW w \in WalletIds, NEW t \in Tenants, CreateWallet(w, t) PROVE w \notin Open
  BY <1>6 DEF CreateWallet
<1>7. ASSUME NEW c \in CostIds, NEW t \in Tenants, NEW a \in CostAmounts, InsertCostEntry(c, t, a)
      PROVE  costs[c].tenant = None
  BY <1>7 DEF InsertCostEntry
<1>10. CASE \E w \in WalletIds, t \in Tenants : CreateWallet(w, t)
  BY <1>1, <1>6, <1>10, <1>b, <1>c, <1>d
<1>11. CASE \E c \in CostIds, t \in Tenants, a \in CostAmounts : InsertCostEntry(c, t, a)
  BY <1>2, <1>7, <1>11, <1>b, <1>c, <1>d
<1>12. CASE \E r \in Requests : TopUpCommit(r)
  BY <1>3, <1>12, <1>b, <1>c, <1>d
<1>13. CASE \E c \in CostIds : CommitDeduct(c)
  BY <1>4, <1>13, <1>b, <1>c, <1>d
<1>14. CASE UNCHANGED <<costs, wallets>>
  BY <1>14, <1>b, <1>c, <1>d
<1> QED BY <1>5, <1>10, <1>11, <1>12, <1>13, <1>14

\* What a step writes: nothing, the row of a top-up, or a deduction on both sides.
Writes(w, row) == ledger' = [ledger EXCEPT ![w] = Append(ledger[w], row)]
Charges(w, row) ==
  /\ row.cost \in CostIds /\ costs[row.cost].tenant = wallets[w].tenant
  /\ -row.amount \in Nat /\ IsUnits(-row.amount)
  /\ \A c \in CostIds : costs'[c].applied =
                          costs[c].applied + IF row.cost = c THEN -row.amount ELSE 0

LEMMA BooksMove ==
  ASSUME TypeInv, DeductInv, [Next]_vars
  PROVE  \/ ledger' = ledger /\ \A c \in CostIds : costs'[c].applied = costs[c].applied
         \/ \E w \in Open, row \in Rows :
              Writes(w, row) /\ ((row.cost = 0 /\ costs' = costs) \/ Charges(w, row))
<1>a. /\ wallets \in [WalletIds -> WalletRows] /\ costs \in [CostIds -> CostRows]
      /\ reqs \in [Requests -> TopUps] /\ cur \in Snapshots /\ due \in [CostIds -> Int]
  BY DEF TypeInv, TypeOK
<1>1. ASSUME NEW r \in Requests, TopUpCommit(r)
      PROVE  \E w \in Open, row \in Rows : Writes(w, row) /\ row.cost = 0 /\ costs' = costs
  <2> DEFINE w == reqs[r].wallet
             after == Round(wallets[w].balance + reqs[r].amount)
             row == Row("top_up", Round(reqs[r].amount), after, reqs[r].ref, 0)
  <2>1. w \in Open
    BY <1>1 DEF TopUpCommit, InFlight, DeductInv, InUse
  <2>2. w \in WalletIds /\ reqs[r].amount \in Int /\ wallets[w].balance + reqs[r].amount \in Int
        /\ reqs[r].ref \in Refs \cup {None}
    BY <1>a, <2>1 DEF Open, TopUps, WalletRows
  <2>3. row \in Rows /\ row.cost = 0
    BY <2>2, RoundBounds DEF Row, Rows
  <2>4. ledger' = [ledger EXCEPT ![w] = Append(ledger[w], row)] /\ costs' = costs
    BY <1>1 DEF TopUpCommit
  <2> HIDE DEF w, row
  <2> QED BY <2>1, <2>3, <2>4, Zenon DEF Writes
<1>2. ASSUME NEW c \in CostIds, CommitDeduct(c)
      PROVE  \E w \in Open, row \in Rows : Writes(w, row) /\ Charges(w, row)
  <2> DEFINE w == cur.id
             after == Round(wallets[w].balance - Debit(c))
             row == Row("deduction", Round(-Debit(c)), after, None, c)
  <2>1. w \in Open /\ wallets[w].tenant = cur.tenant /\ costs[c].tenant = cur.tenant /\ due[c] > 0
    BY <1>2 DEF CommitDeduct, IsFirst, Holding, DeductInv, PassOfTenant
  <2>2. Debit(c) \in Nat \ {0} /\ wallets[w].balance - Debit(c) \in Int /\ w \in WalletIds
    <3>1. w \in WalletIds /\ wallets[w].balance \in Int
      BY <1>a, <2>1 DEF Open, WalletRows
    <3>2. Available \in Int /\ Available > 0
      BY <1>a, <1>2 DEF CommitDeduct, Available, Snapshots
    <3>3. Debit(c) \in Nat \ {0}
      BY <1>a, <2>1, <3>2 DEF Debit, Lesser
    <3> QED BY <3>1, <3>3
  <2>3. /\ row \in Rows /\ row.cost = c /\ row.amount = Round(-Debit(c))
    BY <2>2, RoundBounds DEF Row, Rows
  <2>4. costs[c].applied \in Nat /\ IsUnits(costs[c].applied)
    BY DEF DeductInv, AppliedUnits
  <2>5. /\ Round(costs[c].applied + Debit(c)) = costs[c].applied + Round(Debit(c))
        /\ Round(Debit(c)) \in Nat /\ Round(-Debit(c)) = -Round(Debit(c)) /\ IsUnits(Round(Debit(c)))
    BY <2>2, <2>4, RoundAdds, RoundBounds
  <2>6. ledger' = [ledger EXCEPT ![w] = Append(ledger[w], row)]
        /\ costs' = [costs EXCEPT ![c].applied = Round(costs[c].applied + Debit(c))]
    BY <1>2 DEF CommitDeduct
  <2>7. PICK m \in Nat : m = Round(Debit(c)) /\ IsUnits(m)
    BY <2>5
  <2>8. -row.amount = m
    BY <2>3, <2>5, <2>7
  <2>9. costs' = [costs EXCEPT ![c].applied = costs[c].applied + m]
    BY <2>5, <2>6, <2>7, Zenon
  <2> HIDE DEF w, row
  <2>10. \A d \in CostIds : costs'[d].applied = costs[d].applied + IF c = d THEN m ELSE 0
    BY <1>a, <2>9 DEF CostRows
  <2>11. Charges(w, row)
    BY <2>1, <2>3, <2>7, <2>8, <2>10 DEF Charges
  <2> QED BY <2>1, <2>3, <2>6, <2>11, Zenon DEF Writes
<1>3. ASSUME NEW c \in CostIds, NEW t \in Tenants, NEW a \in CostAmounts, InsertCostEntry(c, t, a)
      PROVE  ledger' = ledger /\ \A d \in CostIds : costs'[d].applied = costs[d].applied
  BY <1>a, <1>3 DEF InsertCostEntry, CostRows
<1>4. ASSUME ~\E r \in Requests : TopUpCommit(r), ~\E c \in CostIds : CommitDeduct(c),
             ~\E c \in CostIds, t \in Tenants, a \in CostAmounts : InsertCostEntry(c, t, a)
      PROVE UNCHANGED <<ledger, costs>>
  BY <1>4, Zenon DEF Next, TopUp, DeductWallets, CreateWallet, TopUpCheck, TopUpFail,
     StartDeduct, EndDeduct, ReadWallet, ReadEntries, NextTenant, CommitNothing, FailDeduct, Refresh,
     Crash, Restart, vars
<1> QED BY <1>1, <1>2, <1>3, <1>4

LEMMA DeductStep == TypeInv /\ TypeInv' /\ DeductInv /\ [Next]_vars => DeductInv'
<1> SUFFICES ASSUME TypeInv, TypeInv', DeductInv, [Next]_vars PROVE DeductInv'
  OBVIOUS
<1>a. /\ ledger \in [WalletIds -> Seq(Rows)] /\ ledger' \in [WalletIds -> Seq(Rows)]
      /\ Open \subseteq WalletIds /\ \A w \in Open : wallets[w].tenant \in Tenants
      /\ costs \in [CostIds -> CostRows] /\ todo \subseteq CostIds /\ None \notin Tenants
  BY WalletAssumption DEF TypeInv, TypeOK, Tied, Open
<1>b. /\ \A w \in Open : w \in Open' /\ wallets'[w].tenant = wallets[w].tenant
      /\ \A c \in CostIds : costs[c].tenant # None => costs'[c].tenant = costs[c].tenant
  BY TenantsStay
<1>1. PassOfTenant'
  <2>1. CASE \E t \in Tenants, w \in WalletIds : ReadWallet(t, w)
    <3>1. PICK t \in Tenants, w \in WalletIds : ReadWallet(t, w)
      BY <2>1
    <3>2. w \in Open /\ wallets[w].tenant = t /\ pc = "tenants"
      BY <3>1 DEF ReadWallet, IsWalletForTenant
    <3>3. pc' \in {"entries", "tenants"} /\ (pc' = "entries" => cur'.id = w /\ cur'.tenant = t)
      BY <3>1 DEF ReadWallet, GetWallet
    <3> QED BY <1>b, <3>2, <3>3 DEF PassOfTenant, Holding
  <2>2. CASE ReadEntries
    <3>1. /\ pc = "entries" /\ costs' = costs
          /\ \/ pc' = "debit" /\ cur' = cur /\ todo' = UnappliedCostEntries(cur.tenant)
                /\ due' = [c \in CostIds |-> IF c \in UnappliedCostEntries(cur.tenant) THEN Remaining(c) ELSE 0]
             \/ pc' = "tenants"
      BY <2>2 DEF ReadEntries
    <3>2. CASE pc' = "tenants"
      BY <3>2 DEF PassOfTenant, Holding
    <3>3. CASE pc' = "debit"
      <4>1. cur.id \in Open /\ wallets[cur.id].tenant = cur.tenant
        BY <3>1 DEF DeductInv, PassOfTenant, Holding
      <4>2. \A c \in todo' : costs'[c].tenant = cur'.tenant /\ due'[c] > 0
        BY <1>a, <3>1, <3>3 DEF UnappliedCostEntries, Remaining, CostRows
      <4> QED BY <1>b, <3>1, <3>3, <4>1, <4>2 DEF PassOfTenant, Holding
    <3> QED BY <3>1, <3>2, <3>3
  <2>3. CASE Refresh
    <3>1. pc = "refresh" /\ UNCHANGED <<wallets, costs>>
      BY <2>3 DEF Refresh
    <3>2. CASE pc' = "debit" /\ cur' = GetWallet(cur.tenant, cur.id) /\ todo' = todo /\ due' = due
      BY <1>b, <3>1, <3>2 DEF DeductInv, PassOfTenant, Holding, GetWallet
    <3>3. CASE pc' \in {"tenants", "down"}
      BY <3>3 DEF PassOfTenant, Holding
    <3> QED BY <2>3, <3>2, <3>3 DEF Refresh, Die
  <2>4. CASE \E c \in CostIds : CommitDeduct(c) \/ CommitNothing(c) \/ FailDeduct(c)
    <3>1. pc = "debit" /\ pc' \in {"debit", "refresh"} /\ cur' = cur /\ todo' \subseteq todo /\ due' = due
      BY <2>4 DEF CommitDeduct, CommitNothing, FailDeduct
    <3>2. /\ cur.id \in Open /\ wallets[cur.id].tenant = cur.tenant
          /\ \A c \in todo : costs[c].tenant = cur.tenant /\ due[c] > 0
      BY <3>1 DEF DeductInv, PassOfTenant, Holding
    <3>3. cur'.id \in Open' /\ wallets'[cur'.id].tenant = cur'.tenant
      BY <1>b, <3>1, <3>2
    <3>4. ASSUME NEW c \in todo' PROVE costs'[c].tenant = cur'.tenant /\ due'[c] > 0
      <4>1. c \in todo /\ c \in CostIds /\ cur.tenant \in Tenants
        BY <1>a, <3>1, <3>2
      <4>2. costs[c].tenant = cur.tenant /\ due[c] > 0
        BY <3>2, <4>1
      <4>3. costs'[c].tenant = costs[c].tenant
        BY <1>a, <1>b, <4>1, <4>2
      <4> QED BY <3>1, <4>2, <4>3
    <3> QED BY <3>1, <3>3, <3>4 DEF PassOfTenant, Holding
  <2>5. CASE pc' \in {"idle", "tenants", "down"}
    BY <2>5 DEF PassOfTenant, Holding
  <2>6. CASE UNCHANGED rater /\ (costs' = costs \/ pc = "idle")
    <3>1. UNCHANGED <<pc, cur, todo, due>>
      BY <2>6 DEF rater
    <3> QED BY <1>b, <2>6, <3>1 DEF DeductInv, PassOfTenant, Holding
  <2>7. ASSUME ~\E t \in Tenants, w \in WalletIds : ReadWallet(t, w), ~ReadEntries, ~Refresh,
               ~\E c \in CostIds : CommitDeduct(c) \/ CommitNothing(c) \/ FailDeduct(c)
        PROVE  \/ pc' \in {"idle", "tenants", "down"}
               \/ UNCHANGED rater /\ (costs' = costs \/ pc = "idle")
    <3>1. ASSUME TopUp PROVE UNCHANGED rater /\ costs' = costs
      BY <3>1 DEF TopUp, TopUpCheck, TopUpCommit, TopUpFail
    <3>2. ASSUME NEW w \in WalletIds, NEW t \in Tenants, CreateWallet(w, t)
          PROVE  UNCHANGED rater /\ costs' = costs
      BY <3>2 DEF CreateWallet
    <3>3. ASSUME NEW c \in CostIds, NEW t \in Tenants, NEW a \in CostAmounts, InsertCostEntry(c, t, a)
          PROVE  UNCHANGED rater /\ pc = "idle"
      BY <3>3 DEF InsertCostEntry
    <3>4. ASSUME StartDeduct \/ EndDeduct \/ NextTenant \/ Crash \/ Restart
          PROVE  pc' \in {"idle", "tenants", "down"}
      BY <3>4 DEF StartDeduct, EndDeduct, NextTenant, Crash, Die, Restart
    <3>5. ASSUME UNCHANGED vars PROVE UNCHANGED rater /\ costs' = costs
      BY <3>5 DEF vars, rater
    <3> QED BY <2>7, <3>1, <3>2, <3>3, <3>4, <3>5, Zenon DEF Next, DeductWallets
  <2> QED BY <2>1, <2>2, <2>3, <2>4, <2>5, <2>6, <2>7
<1>2. \A r \in Requests : InFlight(r)' => reqs'[r].wallet \in Open'
  <2>a. reqs \in [Requests -> TopUps]
    BY DEF TypeInv, TypeOK
  <2>b. \A r \in Requests : reqs[r].pc = "checked" => reqs[r].wallet \in Open
    BY DEF DeductInv, InUse, InFlight
  <2>1. ASSUME NEW q \in Requests, NEW w \in Open, NEW a, NEW ref, Receive(q, w, a, ref)
        PROVE  \A r \in Requests : reqs'[r].pc = "checked" => reqs'[r].wallet \in Open'
    <3>1. ASSUME NEW r \in Requests, reqs'[r].pc = "checked" PROVE reqs'[r].wallet \in Open
      BY <2>a, <2>b, <2>1, <3>1 DEF Receive
    <3> QED BY <1>b, <3>1
  <2>2. ASSUME NEW q \in Requests, Answer(q)
        PROVE  \A r \in Requests : reqs'[r].pc = "checked" => reqs'[r].wallet \in Open'
    BY <1>b, <2>a, <2>b, <2>2 DEF Answer, Request
  <2>3. ASSUME Die
        PROVE  \A r \in Requests : reqs'[r].pc = "checked" => reqs'[r].wallet \in Open'
    BY <1>b, <2>a, <2>b, <2>3 DEF Die, Request, InFlight
  <2>4. ASSUME reqs' = reqs
        PROVE  \A r \in Requests : reqs'[r].pc = "checked" => reqs'[r].wallet \in Open'
    <3>1. \A r \in Requests : reqs'[r].pc = "checked" => reqs'[r].wallet \in Open
      BY <2>b, <2>4
    <3> QED BY <1>b, <3>1
  <2>5. ASSUME NEW r \in Requests, NEW w \in WalletIds, NEW a \in TopUpAmounts,
               NEW ref \in Refs \cup {None}, TopUpCheck(r, w, a, ref)
        PROVE  Answer(r) \/ (w \in Open /\ Receive(r, w, a, ref))
    BY <2>5 DEF TopUpCheck
  <2>6. ASSUME NEW r \in Requests, TopUpCommit(r) \/ TopUpFail(r) PROVE Answer(r)
    BY <2>6 DEF TopUpCommit, TopUpFail
  <2>7. ASSUME ~TopUp PROVE reqs' = reqs \/ Die
    BY <2>7, Zenon DEF Next, DeductWallets, CreateWallet, InsertCostEntry, StartDeduct, EndDeduct, ReadWallet,
       ReadEntries, NextTenant, CommitDeduct, CommitNothing, FailDeduct, Refresh, Crash, Restart, vars
  <2>8. \A r \in Requests : reqs'[r].pc = "checked" => reqs'[r].wallet \in Open'
    <3>1. CASE TopUp
      BY <2>1, <2>2, <2>5, <2>6, <3>1, Zenon DEF TopUp
    <3> QED BY <2>3, <2>4, <2>7, <3>1
  <2> QED BY <2>8 DEF InFlight
<1>3. CASE ledger' = ledger /\ \A c \in CostIds : costs'[c].applied = costs[c].applied
  <2>1. RowsOfTenant'
    <3>1. ASSUME NEW w \in WalletIds, NEW i \in DOMAIN ledger[w], ledger[w][i].cost \in CostIds
          PROVE  costs'[ledger[w][i].cost].tenant = wallets'[w].tenant
      <4>1. costs[ledger[w][i].cost].tenant = wallets[w].tenant /\ w \in Open
        BY <1>a, <3>1 DEF DeductInv, RowsOfTenant, InUse
      <4> QED BY <1>a, <1>b, <3>1, <4>1
    <3> QED BY <1>3, <3>1 DEF RowsOfTenant
  <2>2. ASSUME NEW c \in CostIds PROVE costs'[c].applied = Total(Taken, Deductions(c))'
    <3>1. Total(Taken, Deductions(c)) = AllTaken(ledger, c)
      BY Booked DEF DeductInv
    <3>2. Total(Taken, Deductions(c))' = AllTaken(ledger', c)
      BY <2>1, BookedNext
    <3>3. costs[c].applied = Total(Taken, Deductions(c))
      BY Zenon, Zenon DEF DeductInv, AppliedIsDeducted
    <3> QED BY <1>3, <3>1, <3>2, <3>3
  <2>3. InUse'
    BY <1>2, <1>3, <1>b DEF DeductInv, InUse
  <2>4. AppliedUnits'
    BY <1>3 DEF DeductInv, AppliedUnits
  <2> QED BY <1>1, <2>1, <2>2, <2>3, <2>4, Zenon DEF DeductInv, AppliedIsDeducted
<1>4. ASSUME NEW w \in Open, NEW row \in Rows, Writes(w, row),
             (row.cost = 0 /\ costs' = costs) \/ Charges(w, row)
      PROVE  DeductInv'
  <2>a. w \in WalletIds /\ ledger' = [ledger EXCEPT ![w] = Append(ledger[w], row)]
    BY <1>4, <1>a DEF Writes
  <2>b. /\ \A v \in WalletIds : v # w => ledger'[v] = ledger[v]
        /\ \A i \in DOMAIN ledger'[w] : i \in DOMAIN ledger[w] \/ ledger'[w][i] = row
        /\ \A i \in DOMAIN ledger[w] : ledger'[w][i] = ledger[w][i]
    <3>1. /\ Len(ledger'[w]) = Len(ledger[w]) + 1 /\ ledger'[w][Len(ledger[w]) + 1] = row
          /\ Len(ledger[w]) \in Nat /\ \A i \in 1..Len(ledger[w]) : ledger'[w][i] = ledger[w][i]
          /\ \A v \in WalletIds : v # w => ledger'[v] = ledger[v]
      BY <1>a, <2>a, RowsOfLedger
    <3>2. DOMAIN ledger'[w] = 1..Len(ledger'[w]) /\ DOMAIN ledger[w] = 1..Len(ledger[w])
      BY <1>a, <2>a
    <3> QED BY <3>1, <3>2
  <2>c. row.cost \in CostIds => Charges(w, row)
    BY <1>4, WalletAssumption
  <2>1. RowsOfTenant'
    <3>1. ASSUME NEW v \in WalletIds, NEW i \in DOMAIN ledger[v], ledger[v][i].cost \in CostIds
          PROVE  costs'[ledger[v][i].cost].tenant = wallets'[v].tenant
      <4>1. costs[ledger[v][i].cost].tenant = wallets[v].tenant /\ v \in Open
        BY <1>a, <3>1 DEF DeductInv, RowsOfTenant, InUse
      <4> QED BY <1>a, <1>b, <3>1, <4>1
    <3>2. row.cost \in CostIds => costs'[row.cost].tenant = wallets'[w].tenant
      BY <1>a, <1>b, <2>c, Zenon DEF Charges
    <3>3. ASSUME NEW v \in WalletIds, NEW i \in DOMAIN ledger'[v], ledger'[v][i].cost \in CostIds
          PROVE  costs'[ledger'[v][i].cost].tenant = wallets'[v].tenant
      <4>1. CASE v = w /\ ledger'[v][i] = row
        BY <3>2, <3>3, <4>1
      <4>2. CASE ~(v = w /\ ledger'[v][i] = row)
        <5>1. i \in DOMAIN ledger[v] /\ ledger'[v][i] = ledger[v][i]
          BY <2>b, <4>2
        <5> QED BY <3>1, <3>3, <5>1
      <4> QED BY <4>1, <4>2
    <3> QED BY <3>3 DEF RowsOfTenant
  <2>2. ASSUME NEW c \in CostIds
        PROVE  /\ costs'[c].applied = Total(Taken, Deductions(c))'
               /\ costs'[c].applied \in Nat /\ IsUnits(costs'[c].applied)
    <3>1. Total(Taken, Deductions(c)) = AllTaken(ledger, c)
      BY Booked DEF DeductInv
    <3>2. Total(Taken, Deductions(c))' = AllTaken(ledger', c)
      BY <2>1, BookedNext
    <3>3. AllTaken(ledger', c) = AllTaken(ledger, c) + Share(row, c)
      <4>1. PICK l2 : l2 = ledger'
        BY Zenon, Zenon
      <4>2. PICK l \in [WalletIds -> Seq(Rows)] : l = ledger
        BY <1>a
      <4>3. w \in WalletIds /\ l2 = [l EXCEPT ![w] = Append(l[w], row)]
        BY <2>a, <4>1, <4>2
      <4>4. AllTaken(l2, c) = AllTaken(l, c) + Share(row, c)
        BY <4>3, TakenAppend, Zenon
      <4> QED BY <4>1, <4>2, <4>4
    <3>4. /\ costs[c].applied = Total(Taken, Deductions(c))
          /\ costs[c].applied \in Nat /\ IsUnits(costs[c].applied)
      BY Zenon, Zenon DEF DeductInv, AppliedIsDeducted, AppliedUnits
    <3>5. costs'[c].applied = costs[c].applied + Share(row, c)
      <4>1. CASE row.cost = 0 /\ costs' = costs
        BY <3>4, <4>1, WalletAssumption DEF Share
      <4>2. CASE Charges(w, row)
        BY <4>2 DEF Charges, Share
      <4> QED BY <1>4, <4>1, <4>2
    <3>6. costs'[c].applied = Total(Taken, Deductions(c))'
      BY <3>1, <3>2, <3>3, <3>4, <3>5
    <3>7. CASE row.cost = c
      <4>1. -row.amount \in Nat /\ IsUnits(-row.amount)
        BY <2>c, <3>7 DEF Charges
      <4>2. PICK m, n \in Nat : m = -row.amount /\ n = costs[c].applied /\ IsUnits(m) /\ IsUnits(n)
        BY <3>4, <4>1
      <4>3. costs'[c].applied = n + m /\ n + m \in Nat /\ m \in Int /\ n \in Int
        BY <3>5, <3>7, <4>2 DEF Share
      <4>4. IsUnits(n + m)
        BY <4>2, <4>3, UnitsAdd, Zenon
      <4> QED BY <3>6, <4>3, <4>4
    <3>8. CASE row.cost # c
      BY <3>4, <3>5, <3>6, <3>8 DEF Share
    <3> QED BY <3>7, <3>8
  <2>3. InUse'
    <3>1. ASSUME NEW v \in WalletIds, ledger'[v] # <<>> PROVE v \in Open'
      BY <1>b, <2>b, <3>1 DEF DeductInv, InUse
    <3> QED BY <1>2, <3>1 DEF InUse
  <2> QED BY <1>1, <2>1, <2>2, <2>3, Zenon DEF DeductInv, AppliedIsDeducted, AppliedUnits
<1> QED BY <1>3, <1>4, BooksMove

(***************************************************************************)
(* Whatever fails between or after the statements of a pass, what          *)
(* wallet_applied says of a cost entry is what the ledgers of its tenant's *)
(* wallets took for it.                                                    *)
(***************************************************************************)
THEOREM BothSidesBooked == Spec => []AppliedIsDeducted
<1>1. DeductInv => AppliedIsDeducted
  BY DEF DeductInv
<1> QED BY <1>1, TypeInit, TypeStep, DeductInit, DeductStep, PTL DEF Spec
=============================================================================
