---------------------------- MODULE WalletProof -----------------------------
(***************************************************************************)
(* The wallet's safety properties for every value of the constants.        *)
(***************************************************************************)
EXTENDS Wallet, FiniteSetTheorems, TLAPS

-----------------------------------------------------------------------------
(***************************************************************************)
(* Rounding to wallet units.                                               *)
(***************************************************************************)
IsUnits(x) == \E k \in Int : x = k * Grain

\* Integer division by 2 * Grain, the only fact about it the rest uses.
LEMMA DivBounds ==
  ASSUME NEW n \in Int, NEW d \in Nat \ {0}
  PROVE  /\ n \div d \in Int
         /\ d * (n \div d) <= n
         /\ n < d * (n \div d) + d
  BY SMT

\* Multiplication by a positive number reflects strict order.
LEMMA ScaleOrder ==
  ASSUME NEW a \in Int, NEW b \in Int, NEW g \in Nat \ {0}, g * a < g * b
  PROVE  a < b
  BY SMT

LEMMA RoundNatBounds ==
  ASSUME NEW x \in Int
  PROVE  /\ RoundNat(x) \in Int /\ IsUnits(RoundNat(x))
         /\ 2 * RoundNat(x) <= 2 * x + Grain
         /\ 2 * x < 2 * RoundNat(x) + Grain
<1> DEFINE q == (2 * x + Grain) \div (2 * Grain)
<1>1. q \in Int /\ (2 * Grain) * q <= 2 * x + Grain /\ 2 * x + Grain < (2 * Grain) * q + 2 * Grain
  <2>1. 2 * Grain \in Nat \ {0} /\ 2 * x + Grain \in Int
    BY WalletAssumption
  <2> QED BY <2>1, DivBounds
<1> HIDE DEF q
<1>2. Grain * q \in Int /\ Grain * q = q * Grain /\ (2 * Grain) * q = 2 * (Grain * q)
  BY <1>1, WalletAssumption
<1>3. RoundNat(x) = Grain * q
  BY DEF RoundNat, q
<1>4. IsUnits(RoundNat(x))
  BY <1>1, <1>2, <1>3 DEF IsUnits
<1> QED BY <1>1, <1>2, <1>3, <1>4, WalletAssumption

\* A stored value is a whole number of units within half a unit of the exact one.
LEMMA RoundBounds ==
  ASSUME NEW x \in Int
  PROVE  /\ Round(x) \in Int /\ IsUnits(Round(x))
         /\ 2 * Round(x) <= 2 * x + Grain
         /\ 2 * x <= 2 * Round(x) + Grain
<1>1. CASE x >= 0
  BY <1>1, RoundNatBounds, WalletAssumption DEF Round
<1>2. CASE ~(x >= 0)
  <2>1. -x \in Int /\ Round(x) = -RoundNat(-x)
    BY <1>2 DEF Round
  <2>2. PICK k \in Int : RoundNat(-x) = k * Grain
    BY <2>1, RoundNatBounds DEF IsUnits
  <2>3. -RoundNat(-x) = (-k) * Grain /\ -k \in Int
    BY <2>2, WalletAssumption
  <2>4. IsUnits(Round(x))
    BY <2>1, <2>3 DEF IsUnits
  <2> DEFINE r == RoundNat(-x)
  <2>5. r \in Int /\ 2 * r <= 2 * (-x) + Grain /\ 2 * (-x) < 2 * r + Grain
    BY <2>1, RoundNatBounds
  <2>6. Round(x) = -r
    BY <2>1
  <2> HIDE DEF r
  <2> QED BY <2>4, <2>5, <2>6, WalletAssumption
<1> QED BY <1>1, <1>2

\* Units never differ by less than one unit.
LEMMA UnitsApart ==
  ASSUME NEW a \in Int, NEW b \in Int, IsUnits(a), IsUnits(b), 2 * a < 2 * b + 2 * Grain
  PROVE  a <= b
<1>1. PICK k \in Int : a = k * Grain
  BY DEF IsUnits
<1>2. PICK m \in Int : b = m * Grain
  BY DEF IsUnits
<1>3. Grain * k < Grain * (m + 1)
  BY <1>1, <1>2, WalletAssumption
<1>4. k <= m
  BY <1>3, ScaleOrder, WalletAssumption
<1> QED BY <1>1, <1>2, <1>4, WalletAssumption

LEMMA UnitsZero == IsUnits(0)
<1>1. 0 = 0 * Grain
  BY WalletAssumption
<1> QED BY <1>1 DEF IsUnits

LEMMA UnitsAdd ==
  ASSUME NEW a \in Int, NEW b \in Int, IsUnits(a), IsUnits(b)
  PROVE  IsUnits(a + b) /\ IsUnits(a - b)
<1>1. PICK k \in Int : a = k * Grain
  BY DEF IsUnits
<1>2. PICK m \in Int : b = m * Grain
  BY DEF IsUnits
<1>3. a + b = (k + m) * Grain /\ a - b = (k - m) * Grain
  BY <1>1, <1>2, WalletAssumption
<1> QED BY <1>3 DEF IsUnits

\* Rounding never crosses a whole number of units.
LEMMA RoundKeepsUnits ==
  ASSUME NEW b \in Int, IsUnits(b), NEW x \in Int, b <= x
  PROVE  b <= Round(x)
<1>1. Round(x) \in Int /\ IsUnits(Round(x)) /\ 2 * x <= 2 * Round(x) + Grain
  BY RoundBounds
<1>2. 2 * b < 2 * Round(x) + 2 * Grain
  BY <1>1, WalletAssumption
<1> QED BY <1>1, <1>2, UnitsApart

\* What rounding a balance and an amount separately does to their sum.
LEMMA RoundSum ==
  ASSUME NEW b \in Int, IsUnits(b), NEW a \in Int
  PROVE  Explained(Round(b + a) - b - Round(a))
<1> DEFINE sum == Round(b + a)
           part == Round(a)
           gap == sum - b - part
<1>0. /\ sum \in Int /\ 2 * sum <= 2 * (b + a) + Grain /\ 2 * (b + a) <= 2 * sum + Grain
      /\ part \in Int /\ 2 * part <= 2 * a + Grain /\ 2 * a <= 2 * part + Grain
      /\ IsUnits(sum) /\ IsUnits(part)
  BY RoundBounds
<1> HIDE DEF sum, part
<1>1. gap \in Int /\ IsUnits(gap)
  <2>1. sum - b \in Int /\ IsUnits(sum - b)
    BY <1>0, UnitsAdd
  <2> QED BY <1>0, <2>1, UnitsAdd
<1>2. 2 * gap <= 2 * Grain /\ -(2 * Grain) <= 2 * gap
  BY <1>0, WalletAssumption
<1>3. PICK k \in Int : gap = k * Grain
  BY <1>1 DEF IsUnits
<1>4. k < 2 /\ -2 < k
  <2>1. Grain * k < Grain * 2 /\ Grain * (-2) < Grain * k
    BY <1>2, <1>3, WalletAssumption
  <2> QED BY <2>1, ScaleOrder, WalletAssumption
<1>5. k \in {-1, 0, 1}
  BY <1>4
<1>6. ASSUME k # 0 PROVE Grain % 2 = 0
  <2>1. 2 * gap = 2 * Grain \/ 2 * gap = -(2 * Grain)
    BY <1>3, <1>5, <1>6, WalletAssumption
  <2>2. Grain = 2 * (part - a) \/ Grain = 2 * (a - part)
    BY <1>0, <2>1, WalletAssumption
  <2>3. part - a \in Int /\ a - part \in Int
    BY <1>0
  <2> QED BY <2>2, <2>3, WalletAssumption
<1>7. gap \in {0, Grain, -Grain} /\ (k = 0 <=> gap = 0)
  BY <1>3, <1>5, WalletAssumption
<1> QED BY <1>6, <1>7 DEF Explained, sum, part

-----------------------------------------------------------------------------
(***************************************************************************)
(* Types, with what ties the requests and the pass to existing rows.       *)
(***************************************************************************)
Holding == pc \in {"entries", "debit", "refresh"}

Tied ==
  /\ \A r \in Requests : InFlight(r) => reqs[r].wallet \in WalletIds
  /\ Holding => cur.id \in WalletIds
  /\ \A w \in Open : wallets[w].tenant \in Tenants

TypeInv == TypeOK /\ Tied

LEMMA OpenCount ==
  Cardinality(Open) + 1 \in Nat
<1>1. IsFiniteSet(Open)
  BY WalletAssumption, FS_Subset DEF Open
<1> QED BY <1>1, FS_CardinalityType

LEMMA TypeInit == Init => TypeInv
  BY WalletAssumption DEF Init, TypeInv, TypeOK, Tied, WalletRows, CostRows, TopUps, Snapshots,
     Rows, InFlight, Holding, Open, NoWallet, NothingDue, Request

\* Failures are only ever added.
LEMMA FaultsGrow ==
  ASSUME faults \in Seq(Told \cup {"other"}), [Next]_vars
  PROVE  /\ faults' \in Seq(Told \cup {"other"})
         /\ \A kind \in Told : Fault(kind) => Happened(kind)'
         /\ \A kind \in Told : Happened(kind) => Happened(kind)'
<1>1. faults' = faults \/ \E kind \in FaultKinds : faults' = Append(faults, Noted(kind))
  BY WalletAssumption, Zenon DEF Next, TopUp, DeductWallets, CreateWallet, InsertCostEntry, TopUpCheck,
     TopUpCommit, TopUpFail, StartDeduct, EndDeduct, ReadWallet, ReadEntries, NextTenant,
     CommitDeduct, CommitNothing, FailDeduct, Refresh, Crash, Restart, Fault, vars
<1>2. ASSUME NEW noted \in Told \cup {"other"}
      PROVE  LET longer == Append(faults, noted)
             IN /\ longer \in Seq(Told \cup {"other"}) /\ Len(longer) = Len(faults) + 1
                /\ longer[Len(faults) + 1] = noted
                /\ Len(faults) \in Nat /\ \A i \in 1..Len(faults) : longer[i] = faults[i]
  OBVIOUS
<1>3. \A kind \in FaultKinds : Noted(kind) \in Told \cup {"other"}
  BY DEF Noted
<1>4. \A kind \in Told : faults' = Append(faults, kind) => Happened(kind)'
  BY <1>2 DEF Happened
<1>5. \A kind \in Told : Happened(kind) => Happened(kind)'
  BY <1>1, <1>2, <1>3 DEF Happened
<1>6. \A kind \in Told : Fault(kind) => Happened(kind)'
  BY <1>4 DEF Fault, Noted
<1>7. faults' \in Seq(Told \cup {"other"})
  BY <1>1, <1>2, <1>3
<1> QED BY <1>5, <1>6, <1>7

\* A request that is over fits the table, and holds no wallet.
LEMMA AnswerType ==
  ASSUME NEW r \in Requests, reqs \in [Requests -> TopUps], Answer(r)
  PROVE  /\ reqs' \in [Requests -> TopUps]
         /\ \A q \in Requests : InFlight(q)' => InFlight(q) /\ reqs'[q] = reqs[q]
  BY DEF Answer, Request, TopUps, InFlight

\* Neither does anything in a process that ended.
LEMMA DieType ==
  ASSUME TypeInv, Die
  PROVE  /\ reqs' \in [Requests -> TopUps] /\ \A q \in Requests : ~InFlight(q)'
         /\ tenants' \subseteq Tenants /\ cur' \in Snapshots /\ todo' \subseteq CostIds
         /\ due' \in [CostIds -> Int] /\ pc' = "down"
<1>1. reqs \in [Requests -> TopUps]
  BY DEF TypeInv, TypeOK
<1>2. Request("done") \in TopUps /\ Request("done").pc = "done"
  BY DEF Request, TopUps
<1>3. reqs' \in [Requests -> TopUps] /\ \A q \in Requests : ~InFlight(q)'
  BY <1>1, <1>2 DEF Die, InFlight
<1> QED BY <1>3 DEF Die, NoWallet, NothingDue, Snapshots

LEMMA TypeStep == TypeInv /\ [Next]_vars => TypeInv'
<1> SUFFICES ASSUME TypeInv, [Next]_vars PROVE TypeInv'
  OBVIOUS
<1>a. /\ wallets \in [WalletIds -> WalletRows] /\ costs \in [CostIds -> CostRows]
      /\ reqs \in [Requests -> TopUps] /\ ledger \in [WalletIds -> Seq(Rows)]
      /\ cur \in Snapshots /\ due \in [CostIds -> Int] /\ faults \in Seq(Told \cup {"other"})
  BY DEF TypeInv, TypeOK
<1>b. faults' \in Seq(Told \cup {"other"})
  BY <1>a, FaultsGrow
<1>c. NoWallet \in Snapshots /\ NothingDue \in [CostIds -> Int]
  BY DEF NoWallet, NothingDue, Snapshots
<1>1. ASSUME NEW w \in WalletIds, NEW t \in Tenants, CreateWallet(w, t) PROVE TypeInv'
  <2>1. wallets' \in [WalletIds -> WalletRows]
    BY <1>1, <1>a, OpenCount, Zenon DEF CreateWallet, WalletRows
  <2>2. \A v \in Open' : wallets'[v].tenant \in Tenants
    BY <1>1, <1>a DEF CreateWallet, WalletRows, Open, TypeInv, Tied
  <2> QED BY <1>1, <2>1, <2>2 DEF CreateWallet, rater, TypeInv, TypeOK, Tied, InFlight, Holding
<1>2. ASSUME NEW c \in CostIds, NEW t \in Tenants, NEW a \in CostAmounts, InsertCostEntry(c, t, a)
      PROVE TypeInv'
  <2>1. costs' \in [CostIds -> CostRows]
    <3>1. [costs[c] EXCEPT !.tenant = t, !.cost = a] \in CostRows
      BY <1>a, WalletAssumption, Zenon DEF CostRows
    <3> QED BY <1>2, <1>a, <3>1 DEF InsertCostEntry
  <2> QED BY <1>2, <2>1 DEF InsertCostEntry, rater, TypeInv, TypeOK, Tied, InFlight, Holding, Open
<1>3. ASSUME NEW r \in Requests, NEW w \in WalletIds, NEW a \in TopUpAmounts,
             NEW ref \in Refs \cup {None}, TopUpCheck(r, w, a, ref)
      PROVE TypeInv'
  <2>1. UNCHANGED <<wallets, ledger, costs, rater>> /\ (Answer(r) \/ Receive(r, w, a, ref))
    BY <1>3 DEF TopUpCheck
  <2>2. CASE Answer(r)
    BY <2>1, <2>2, <1>a, <1>b, AnswerType DEF rater, TypeInv, TypeOK, Tied, Holding, Open
  <2>3. CASE Receive(r, w, a, ref)
    <3>1. reqs' \in [Requests -> TopUps]
      BY <2>3, <1>a, WalletAssumption DEF Receive, TopUps
    <3>2. \A q \in Requests : q = r \/ reqs'[q] = reqs[q]
      BY <2>3 DEF Receive
    <3>3. reqs'[r].wallet \in WalletIds
      BY <2>3, <1>a DEF Receive
    <3> QED BY <2>1, <3>1, <3>2, <3>3, <1>b DEF rater, TypeInv, TypeOK, Tied, InFlight, Holding, Open
  <2> QED BY <2>1, <2>2, <2>3
<1>5. ASSUME NEW r \in Requests, TopUpCommit(r) PROVE TypeInv'
  <2> DEFINE w == reqs[r].wallet
             after == Round(wallets[w].balance + reqs[r].amount)
             row == Row("top_up", Round(reqs[r].amount), after, reqs[r].ref, 0)
  <2>1. w \in WalletIds /\ reqs[r] \in TopUps
    BY <1>5, <1>a DEF TopUpCommit, TypeInv, Tied, InFlight
  <2>2. wallets[w] \in WalletRows
    BY <2>1, <1>a
  <2>a. wallets[w].balance + reqs[r].amount \in Int /\ wallets[w].reference + reqs[r].amount \in Int
        /\ reqs[r].amount \in Int /\ reqs[r].ref \in Refs \cup {None}
    BY <2>1, <2>2 DEF TopUps, WalletRows
  <2>4. after \in Int /\ Round(wallets[w].reference + reqs[r].amount) \in Int
        /\ Round(reqs[r].amount) \in Int
    BY <2>a, RoundBounds
  <2>3. row \in Rows
    BY <2>4, <2>a DEF Row, Rows
  <2>5. wallets' \in [WalletIds -> WalletRows]
    <3> DEFINE new == [wallets[w] EXCEPT !.balance = after,
                         !.reference = Round(wallets[w].reference + reqs[r].amount)]
    <3>1. new \in WalletRows
      BY <2>2, <2>4, Zenon DEF WalletRows
    <3>2. wallets' = [wallets EXCEPT ![w] = new]
      BY <1>5 DEF TopUpCommit
    <3> HIDE DEF new
    <3> QED BY <1>a, <3>1, <3>2, Zenon
  <2>6. ledger' \in [WalletIds -> Seq(Rows)]
    BY <1>5, <1>a, <2>1, <2>3 DEF TopUpCommit
  <2>7. /\ reqs' \in [Requests -> TopUps]
        /\ \A q \in Requests : InFlight(q)' => InFlight(q) /\ reqs'[q] = reqs[q]
    BY <1>5, <1>a, AnswerType DEF TopUpCommit
  <2>9. \A v \in WalletIds : wallets'[v].open = wallets[v].open /\ wallets'[v].tenant = wallets[v].tenant
    BY <1>5, <1>a DEF TopUpCommit, WalletRows
  <2>10. UNCHANGED <<costs, rater>>
    BY <1>5 DEF TopUpCommit
  <2> QED BY <2>5, <2>6, <2>7, <2>9, <2>10, <1>b, Zenon DEF rater, TypeInv, TypeOK, Tied, Holding, Open
<1>6. ASSUME NEW r \in Requests, TopUpFail(r) PROVE TypeInv'
  <2>1. Answer(r) /\ UNCHANGED <<wallets, ledger, costs, rater>>
    BY <1>6 DEF TopUpFail
  <2> QED BY <2>1, <1>a, <1>b, AnswerType DEF rater, TypeInv, TypeOK, Tied, Holding, Open
<1>7. CASE StartDeduct
  <2>1. AllTenantsWithWallets \subseteq Tenants
    BY DEF AllTenantsWithWallets, TypeInv, Tied
  <2> QED BY <1>7, <2>1 DEF StartDeduct, TypeInv, TypeOK, Tied, InFlight, Holding, Open
<1>8. CASE EndDeduct
  BY <1>8 DEF EndDeduct, TypeInv, TypeOK, Tied, InFlight, Holding, Open
<1>9. ASSUME NEW t \in Tenants, NEW w \in WalletIds, ReadWallet(t, w) PROVE TypeInv'
  <2>1. GetWallet(t, w) \in Snapshots /\ GetWallet(t, w).id = w
    BY <1>a DEF GetWallet, WalletRows, Snapshots
  <2> QED BY <1>9, <1>b, <2>1 DEF ReadWallet, TypeInv, TypeOK, Tied, InFlight, Holding, Open
<1>10. CASE ReadEntries
  <2>1. todo' \subseteq CostIds /\ due' \in [CostIds -> Int]
    BY <1>10, <1>a DEF ReadEntries, UnappliedCostEntries, Remaining, CostRows, TypeInv, TypeOK
  <2>2. pc = "entries" /\ ((pc' = "debit" /\ cur' = cur) \/ (pc' = "tenants" /\ cur' = NoWallet))
    BY <1>10 DEF ReadEntries
  <2> QED BY <1>10, <1>b, <1>c, <2>1, <2>2
          DEF ReadEntries, TypeInv, TypeOK, Tied, InFlight, Holding, Open
<1>11. CASE NextTenant
  BY <1>11, <1>c DEF NextTenant, TypeInv, TypeOK, Tied, InFlight, Holding, Open
<1>13. CASE Refresh
  <2>1. GetWallet(cur.tenant, cur.id) \in Snapshots
    BY <1>13, <1>a DEF Refresh, GetWallet, WalletRows, Snapshots, TypeInv, Tied, Holding
  <2>2. GetWallet(cur.tenant, cur.id).id = cur.id
    BY DEF GetWallet
  <2>3. CASE Die
    BY <1>13, <1>b, <2>3, DieType DEF Refresh, TypeInv, TypeOK, Tied, Holding, Open
  <2>4. CASE ~Die
    BY <1>13, <1>b, <1>c, <2>1, <2>2, <2>4
       DEF Refresh, TypeInv, TypeOK, Tied, InFlight, Holding, Open
  <2> QED BY <2>3, <2>4
<1>14. ASSUME NEW c \in CostIds, CommitDeduct(c) PROVE TypeInv'
  <2> DEFINE w == cur.id
             after == Round(wallets[w].balance - Debit(c))
             row == Row("deduction", Round(-Debit(c)), after, None, c)
  <2>1. w \in WalletIds /\ Debit(c) \in Int
    BY <1>14, <1>a DEF CommitDeduct, Debit, Lesser, Available, Snapshots, TypeInv, Tied, Holding
  <2>2. wallets[w].balance - Debit(c) \in Int /\ -Debit(c) \in Int /\ costs[c].applied + Debit(c) \in Int
    BY <1>a, <2>1 DEF WalletRows, CostRows
  <2>4. after \in Int /\ Round(-Debit(c)) \in Int /\ Round(costs[c].applied + Debit(c)) \in Int
    BY <2>2, RoundBounds
  <2>3. row \in Rows
    BY <1>a, <2>4 DEF Row, Rows
  <2>5. wallets' \in [WalletIds -> WalletRows]
    BY <1>14, <1>a, <2>1, <2>4, Zenon DEF CommitDeduct, WalletRows
  <2>6. ledger' \in [WalletIds -> Seq(Rows)]
    BY <1>14, <1>a, <2>1, <2>3 DEF CommitDeduct
  <2>7. costs' \in [CostIds -> CostRows]
    BY <1>14, <1>a, <2>4, Zenon DEF CommitDeduct, CostRows
  <2>9. \A v \in WalletIds : wallets'[v].open = wallets[v].open /\ wallets'[v].tenant = wallets[v].tenant
    BY <1>14, <1>a DEF CommitDeduct, WalletRows
  <2>10. /\ UNCHANGED <<reqs, tenants, cur, due>> /\ todo' \subseteq todo
         /\ pc = "debit" /\ pc' \in {"refresh", "debit"}
    BY <1>14 DEF CommitDeduct
  <2> QED BY <2>5, <2>6, <2>7, <2>9, <2>10, <1>b, Zenon DEF TypeInv, TypeOK, Tied, InFlight, Holding, Open
<1>19. ASSUME NEW c \in CostIds, CommitNothing(c) PROVE TypeInv'
  BY <1>19, <1>b DEF CommitNothing, TypeInv, TypeOK, Tied, InFlight, Holding, Open
<1>15. ASSUME NEW c \in CostIds, FailDeduct(c) PROVE TypeInv'
  BY <1>15, <1>b DEF FailDeduct, TypeInv, TypeOK, Tied, InFlight, Holding, Open
<1>16. CASE Crash
  BY <1>16, <1>b, DieType DEF Crash, TypeInv, TypeOK, Tied, Holding, Open
<1>17. CASE Restart
  BY <1>17 DEF Restart, TypeInv, TypeOK, Tied, InFlight, Holding, Open
<1>18. CASE UNCHANGED vars
  BY <1>18 DEF vars, TypeInv, TypeOK, Tied, InFlight, Holding, Open
<1> QED
  BY <1>1, <1>2, <1>3, <1>5, <1>6, <1>7, <1>8, <1>9, <1>10, <1>11, <1>13,
     <1>14, <1>15, <1>16, <1>17, <1>18, <1>19 DEF Next, TopUp, DeductWallets

(***************************************************************************)
(* Every state of the wallet service is well formed.                       *)
(***************************************************************************)
THEOREM WalletTypes == Spec => []TypeOK
<1>1. TypeInv => TypeOK
  BY DEF TypeInv
<1> QED BY <1>1, TypeInit, TypeStep, PTL DEF Spec

-----------------------------------------------------------------------------
(***************************************************************************)
(* The ledger explains the balance.  Only the two transactions move money, *)
(* and balances are whole units, so each adds a row RoundSum accounts for. *)
(***************************************************************************)
BalancesAreUnits == \A w \in WalletIds : IsUnits(wallets[w].balance)
LedgerInv == BalancesAreUnits /\ LedgerExplainsBalance

\* What a transaction that writes a ledger row does to the two tables.
Moves(w, amount) ==
  \E row \in Rows :
    /\ row.after = Round(wallets[w].balance + amount) /\ row.amount = Round(amount)
    /\ ledger' = [ledger EXCEPT ![w] = Append(ledger[w], row)]
    /\ \A v \in WalletIds : wallets'[v].balance = IF v = w THEN row.after ELSE wallets[v].balance

LEMMA MoneyMoves ==
  ASSUME TypeInv, [Next]_vars
  PROVE  \/ ledger' = ledger /\ \A v \in WalletIds : wallets'[v].balance = wallets[v].balance
         \/ \E w \in WalletIds, amount \in Int : Moves(w, amount)
<1>a. /\ wallets \in [WalletIds -> WalletRows] /\ costs \in [CostIds -> CostRows]
      /\ reqs \in [Requests -> TopUps] /\ cur \in Snapshots /\ due \in [CostIds -> Int]
  BY DEF TypeInv, TypeOK
<1>1. CASE \E r \in Requests : TopUpCommit(r)
  <2>1. PICK r \in Requests : TopUpCommit(r)
    BY <1>1
  <2> DEFINE w == reqs[r].wallet
             amount == reqs[r].amount
             after == Round(wallets[w].balance + amount)
             row == Row("top_up", Round(amount), after, reqs[r].ref, 0)
  <2>2. w \in WalletIds /\ amount \in Int /\ wallets[w].balance + amount \in Int
        /\ reqs[r].ref \in Refs \cup {None}
    BY <1>a, <2>1 DEF TopUpCommit, TypeInv, Tied, InFlight, TopUps, WalletRows
  <2>3. row \in Rows /\ row.after = after /\ row.amount = Round(amount)
    BY <2>2, RoundBounds DEF Row, Rows
  <2>4. ledger' = [ledger EXCEPT ![w] = Append(ledger[w], row)]
    BY <2>1 DEF TopUpCommit
  <2>5. \A v \in WalletIds : wallets'[v].balance = IF v = w THEN after ELSE wallets[v].balance
    BY <1>a, <2>1 DEF TopUpCommit, WalletRows
  <2>6. Moves(w, amount)
    BY <2>3, <2>4, <2>5, Zenon DEF Moves
  <2> QED BY <2>2, <2>6
<1>2. CASE \E c \in CostIds : CommitDeduct(c)
  <2>1. PICK c \in CostIds : CommitDeduct(c)
    BY <1>2
  <2> DEFINE w == cur.id
             amount == -Debit(c)
             after == Round(wallets[w].balance + amount)
             row == Row("deduction", Round(amount), after, None, c)
  <2>2. w \in WalletIds /\ amount \in Int /\ Debit(c) \in Int /\ wallets[w].balance \in Int
    BY <1>a, <2>1 DEF CommitDeduct, TypeInv, Tied, Holding, Debit, Lesser, Available, Snapshots,
       WalletRows
  <2>3. wallets[w].balance - Debit(c) = wallets[w].balance + amount
    BY <2>2
  <2>4. row \in Rows /\ row.after = after /\ row.amount = Round(amount)
    BY <1>a, <2>2, RoundBounds DEF Row, Rows
  <2>5. ledger' = [ledger EXCEPT ![w] = Append(ledger[w], row)]
    BY <2>1, <2>3, Zenon DEF CommitDeduct
  <2>6. \A v \in WalletIds : wallets'[v].balance = IF v = w THEN after ELSE wallets[v].balance
    BY <1>a, <2>1, <2>3 DEF CommitDeduct, WalletRows
  <2>7. Moves(w, amount)
    BY <2>4, <2>5, <2>6, Zenon DEF Moves
  <2> QED BY <2>2, <2>7
<1>3. ASSUME NEW w \in WalletIds, NEW t \in Tenants, CreateWallet(w, t)
      PROVE ledger' = ledger /\ \A v \in WalletIds : wallets'[v].balance = wallets[v].balance
  BY <1>a, <1>3 DEF CreateWallet, WalletRows
<1>4. ASSUME [Next]_vars,
             ~\E r \in Requests : TopUpCommit(r), ~\E c \in CostIds : CommitDeduct(c),
             ~\E w \in WalletIds, t \in Tenants : CreateWallet(w, t)
      PROVE UNCHANGED <<ledger, wallets>>
  BY <1>4, Zenon DEF Next, TopUp, DeductWallets, InsertCostEntry, TopUpCheck, TopUpFail,
     StartDeduct, EndDeduct, ReadWallet, ReadEntries, NextTenant, CommitNothing, FailDeduct, Refresh,
     Crash, Restart, vars
<1> QED BY <1>1, <1>2, <1>3, <1>4

LEMMA AppendAccounts ==
  ASSUME NEW rows \in Seq(Rows), NEW row \in Rows, NEW balance \in Int,
         Accounts(rows, balance), Explained(row.after - balance - row.amount)
  PROVE  Accounts(Append(rows, row), row.after)
<1> DEFINE n == Len(rows)
           new == Append(rows, row)
<1>1. /\ n \in Nat /\ Len(new) = n + 1 /\ new[n + 1] = row
      /\ \A i \in 1..n : new[i] = rows[i]
  OBVIOUS
<1> HIDE DEF n, new
<1>2. row.after = Before(new, Len(new) + 1)
  BY <1>1 DEF Before
<1>3. \A i \in 1..(n + 1) : Before(new, i) = Before(rows, i)
  BY <1>1 DEF Before
<1>4. Before(rows, n + 1) = balance
  BY DEF Accounts, n
<1>5. ASSUME NEW i \in 1..(n + 1)
      PROVE  Explained(new[i].after - Before(new, i) - new[i].amount)
  <2>1. CASE i = n + 1
    BY <2>1, <1>1, <1>3, <1>4
  <2>2. CASE i \in 1..n
    BY <2>2, <1>1, <1>3 DEF Accounts, n
  <2> QED BY <2>1, <2>2, <1>1
<1> QED BY <1>1, <1>2, <1>5 DEF Accounts, new

LEMMA LedgerInit == Init => LedgerInv
  BY UnitsZero DEF Init, LedgerInv, BalancesAreUnits, LedgerExplainsBalance, Accounts, Before

LEMMA LedgerStep == TypeInv /\ LedgerInv /\ [Next]_vars => LedgerInv'
<1> SUFFICES ASSUME TypeInv, LedgerInv, [Next]_vars PROVE LedgerInv'
  OBVIOUS
<1>1. CASE ledger' = ledger /\ \A v \in WalletIds : wallets'[v].balance = wallets[v].balance
  BY <1>1 DEF LedgerInv, BalancesAreUnits, LedgerExplainsBalance
<1>2. ASSUME NEW w \in WalletIds, NEW amount \in Int, Moves(w, amount) PROVE LedgerInv'
  <2>1. PICK row \in Rows :
          /\ row.after = Round(wallets[w].balance + amount) /\ row.amount = Round(amount)
          /\ ledger' = [ledger EXCEPT ![w] = Append(ledger[w], row)]
          /\ \A v \in WalletIds : wallets'[v].balance = IF v = w THEN row.after
                                                         ELSE wallets[v].balance
    BY <1>2, Zenon DEF Moves
  <2>2. /\ ledger \in [WalletIds -> Seq(Rows)] /\ wallets[w].balance \in Int
        /\ wallets[w].balance + amount \in Int
    BY DEF TypeInv, TypeOK, WalletRows
  <2>3. BalancesAreUnits'
    BY <2>1, <2>2, RoundBounds, Zenon DEF LedgerInv, BalancesAreUnits
  <2>4. Explained(row.after - wallets[w].balance - row.amount)
    BY <2>1, <2>2, RoundSum DEF LedgerInv, BalancesAreUnits
  <2>5. Accounts(Append(ledger[w], row), row.after)
    BY <2>2, <2>4, AppendAccounts DEF LedgerInv, LedgerExplainsBalance
  <2>6. LedgerExplainsBalance'
    BY <2>1, <2>2, <2>5 DEF LedgerInv, LedgerExplainsBalance
  <2> QED BY <2>3, <2>6 DEF LedgerInv
<1> QED BY <1>1, <1>2, MoneyMoves

(***************************************************************************)
(* The ledger of a wallet explains its balance, for any mix of top-ups,    *)
(* deductions, failures and restarts.                                      *)
(***************************************************************************)
THEOREM LedgerCorrect == Spec => []LedgerExplainsBalance
<1>1. LedgerInv => LedgerExplainsBalance
  BY DEF LedgerInv
<1> QED BY <1>1, TypeInit, TypeStep, LedgerInit, LedgerStep, PTL DEF Spec

-----------------------------------------------------------------------------
(***************************************************************************)
(* The floor.  While a pass holds a wallet, other goroutines only add to   *)
(* it, so the balance in memory is at most the one in the table.           *)
(***************************************************************************)
SnapshotBelow == pc \in {"entries", "debit"} => cur.balance <= wallets[cur.id].balance
Floors == \A w \in WalletIds : wallets[w].balance >= wallets[w].floor
FloorInv == ~Happened("lostack") => Floors /\ SnapshotBelow

LEMMA FloorInit == Init => FloorInv
  BY DEF Init, FloorInv, Floors, SnapshotBelow

LEMMA FloorStep == TypeInv /\ LedgerInv /\ FloorInv /\ [Next]_vars => FloorInv'
<1> SUFFICES ASSUME TypeInv, LedgerInv, FloorInv, [Next]_vars, ~Happened("lostack")'
             PROVE  (Floors /\ SnapshotBelow)'
  BY DEF FloorInv
<1>a. /\ wallets \in [WalletIds -> WalletRows] /\ reqs \in [Requests -> TopUps]
      /\ cur \in Snapshots /\ due \in [CostIds -> Int] /\ faults \in Seq(Told \cup {"other"})
  BY DEF TypeInv, TypeOK
<1>d. ~Fault("lostack") /\ Floors /\ SnapshotBelow
  BY <1>a, FaultsGrow DEF Told, FloorInv
<1>b. \A w \in WalletIds : /\ wallets[w].balance \in Int /\ wallets[w].floor = 0
                            /\ wallets[w].balance >= 0 /\ IsUnits(wallets[w].balance)
  BY <1>a, <1>d DEF WalletRows, Floors, LedgerInv, BalancesAreUnits
<1>c. cur.balance \in Int /\ cur.floor = 0 /\ (Holding => cur.id \in WalletIds)
  BY <1>a DEF Snapshots, TypeInv, Tied
<1>1. ASSUME NEW w \in WalletIds, NEW t \in Tenants, CreateWallet(w, t) PROVE (Floors /\ SnapshotBelow)'
  <2>1. \A v \in WalletIds : wallets'[v].balance = wallets[v].balance /\ wallets'[v].floor = 0
    BY <1>1, <1>a, <1>b DEF CreateWallet, WalletRows
  <2>2. UNCHANGED <<pc, cur>>
    BY <1>1 DEF CreateWallet, rater
  <2> QED BY <2>1, <2>2, <1>b, <1>c, <1>d DEF Floors, SnapshotBelow, Holding
<1>2. ASSUME NEW r \in Requests, TopUpCommit(r) PROVE (Floors /\ SnapshotBelow)'
  <2> DEFINE w == reqs[r].wallet
             after == Round(wallets[w].balance + reqs[r].amount)
  <2>1. w \in WalletIds /\ reqs[r].amount \in Nat
    BY <1>2, <1>a DEF TopUpCommit, TypeInv, Tied, InFlight, TopUps
  <2>2. after \in Int /\ wallets[w].balance <= after
    BY <1>b, <2>1, RoundKeepsUnits, RoundBounds
  <2>3. \A v \in WalletIds : wallets'[v].balance = IF v = w THEN after ELSE wallets[v].balance
    BY <1>2, <1>a DEF TopUpCommit, WalletRows
  <2>6. \A v \in WalletIds : wallets'[v].floor = wallets[v].floor
    BY <1>2, <1>a DEF TopUpCommit, WalletRows
  <2>4. UNCHANGED <<pc, cur>>
    BY <1>2 DEF TopUpCommit, rater
  <2> HIDE DEF after
  <2>5. \A v \in WalletIds : wallets'[v].balance >= wallets[v].balance /\ wallets'[v].balance \in Int
    BY <1>b, <2>2, <2>3
  <2> QED BY <1>b, <1>c, <1>d, <2>4, <2>5, <2>6 DEF Floors, SnapshotBelow, Holding
<1>3. ASSUME NEW c \in CostIds, CommitDeduct(c) PROVE (Floors /\ SnapshotBelow)'
  <2> DEFINE w == cur.id
             after == Round(wallets[w].balance - Debit(c))
  <2>1. w \in WalletIds /\ Debit(c) \in Int /\ Debit(c) <= cur.balance
    BY <1>3, <1>a, <1>c DEF CommitDeduct, Holding, Debit, Lesser, Available
  <2>2. wallets[w].balance - Debit(c) \in Int /\ 0 <= wallets[w].balance - Debit(c)
    BY <1>3, <1>b, <1>c, <1>d, <2>1 DEF CommitDeduct, SnapshotBelow
  <2>3. after \in Int /\ 0 <= after
    BY <2>2, UnitsZero, RoundKeepsUnits, RoundBounds
  <2>4. \A v \in WalletIds : wallets'[v].balance = IF v = w THEN after ELSE wallets[v].balance
    BY <1>3, <1>a DEF CommitDeduct, WalletRows
  <2>6. \A v \in WalletIds : wallets'[v].floor = wallets[v].floor
    BY <1>3, <1>a DEF CommitDeduct, WalletRows
  <2>5. pc' = "refresh"
    BY <1>3, <1>d DEF CommitDeduct
  <2> HIDE DEF after
  <2> QED BY <1>b, <2>3, <2>4, <2>5, <2>6 DEF Floors, SnapshotBelow
<1>4. ASSUME NEW t \in Tenants, NEW w \in WalletIds, ReadWallet(t, w) PROVE (Floors /\ SnapshotBelow)'
  BY <1>4, <1>b, <1>d DEF ReadWallet, GetWallet, Floors, SnapshotBelow
<1>5. CASE Refresh
  <2>1. UNCHANGED wallets /\ pc = "refresh"
        /\ (pc' \in {"tenants", "down"} \/ cur' = GetWallet(cur.tenant, cur.id))
    BY <1>5 DEF Refresh, Die
  <2>2. cur.id \in WalletIds
    BY <2>1, <1>c DEF Holding
  <2> QED BY <2>1, <2>2, <1>b, <1>d DEF GetWallet, Floors, SnapshotBelow
<1>6. CASE ReadEntries
  BY <1>6, <1>d DEF ReadEntries, Floors, SnapshotBelow
<1>7. ASSUME ~\E w \in WalletIds, t \in Tenants : CreateWallet(w, t),
             ~\E r \in Requests : TopUpCommit(r), ~\E c \in CostIds : CommitDeduct(c),
             ~\E t \in Tenants, w \in WalletIds : ReadWallet(t, w), ~Refresh, ~ReadEntries
      PROVE (Floors /\ SnapshotBelow)'
  <2>1. UNCHANGED wallets /\ (pc' \in {"tenants", "down", "idle", "refresh"} \/ UNCHANGED <<pc, cur>>)
    BY <1>7, Zenon DEF Next, TopUp, DeductWallets, InsertCostEntry, TopUpCheck, TopUpFail,
       StartDeduct, EndDeduct, NextTenant, CommitNothing, FailDeduct, Crash, Die, Restart, vars, rater
  <2> QED BY <2>1, <1>d DEF Floors, SnapshotBelow
<1> QED BY <1>1, <1>2, <1>3, <1>4, <1>5, <1>6, <1>7

(***************************************************************************)
(* Deductions stop at the floor, in any interleaving with top-ups and      *)
(* restarts, provided no commit loses its answer.                          *)
(***************************************************************************)
THEOREM FloorHolds == Spec => []FloorRespected
<1>1. FloorInv => FloorRespected
  BY DEF FloorInv, Floors, FloorRespected
<1> QED BY <1>1, FloorStep, TypeInit, TypeStep, LedgerInit, LedgerStep, FloorInit, PTL DEF Spec

-----------------------------------------------------------------------------
(***************************************************************************)
(* Nothing is charged twice.  What a pass holds as remaining is current    *)
(* for every entry it has still to visit: entries are inserted only        *)
(* between passes, and a deduction is never followed by another one of the *)
(* same entry in the same pass.                                            *)
(***************************************************************************)
DueCurrent ==
  pc \in {"debit", "refresh"} =>
     \A c \in todo : costs[c].tenant # None /\ due[c] = costs[c].cost - costs[c].applied
BlankRows == \A c \in CostIds : costs[c].tenant = None => costs[c].cost = 0 /\ costs[c].applied = 0
ApplyInv == NeverOverApplied /\ DueCurrent /\ BlankRows

LEMMA ApplyInit == Init => ApplyInv
  BY WalletAssumption DEF Init, ApplyInv, NeverOverApplied, DueCurrent, BlankRows

LEMMA ApplyStep == TypeInv /\ ApplyInv /\ [Next]_vars => ApplyInv'
<1> SUFFICES ASSUME TypeInv, ApplyInv, [Next]_vars PROVE ApplyInv'
  OBVIOUS
<1>a. /\ costs \in [CostIds -> CostRows] /\ due \in [CostIds -> Int] /\ todo \subseteq CostIds
      /\ \A c \in CostIds : costs[c].cost \in Nat /\ costs[c].applied \in Int
  BY DEF TypeInv, TypeOK, CostRows
<1>1. ASSUME NEW c \in CostIds, CommitDeduct(c) PROVE ApplyInv'
  <2> DEFINE x == costs[c].applied + Debit(c)
  <2>1. c \in todo /\ Debit(c) \in Int /\ Debit(c) <= due[c]
    BY <1>1, <1>a DEF CommitDeduct, IsFirst, Debit, Lesser, Available, TypeInv, TypeOK, Snapshots
  <2>2. costs[c].tenant # None /\ due[c] = costs[c].cost - costs[c].applied
    BY <1>1, <2>1 DEF CommitDeduct, ApplyInv, DueCurrent
  <2>3. x \in Int /\ x <= costs[c].cost
    BY <1>a, <2>1, <2>2
  <2> DEFINE rounded == Round(x)
  <2>4. rounded \in Int /\ 2 * rounded <= 2 * x + Grain
    BY <2>3, RoundBounds
  <2>5. costs' = [costs EXCEPT ![c].applied = rounded]
    BY <1>1 DEF CommitDeduct
  <2> HIDE DEF x, rounded
  <2>6. 2 * (rounded - costs[c].cost) <= Grain
    BY <1>a, <2>3, <2>4, WalletAssumption
  <2>7. /\ costs'[c].applied = rounded /\ costs'[c].cost = costs[c].cost
        /\ costs'[c].tenant = costs[c].tenant
        /\ \A d \in CostIds : d # c => costs'[d] = costs[d]
    BY <1>a, <2>5 DEF CostRows
  <2>8. todo' = todo \ {c} /\ pc = "debit" /\ due' = due
    BY <1>1 DEF CommitDeduct
  <2>9. NeverOverApplied'
    BY <2>6, <2>7 DEF ApplyInv, NeverOverApplied
  <2>10. BlankRows'
    BY <2>2, <2>7 DEF ApplyInv, BlankRows
  <2>11. DueCurrent'
    BY <1>a, <2>7, <2>8 DEF ApplyInv, DueCurrent
  <2> QED BY <2>9, <2>10, <2>11 DEF ApplyInv
<1>2. ASSUME NEW c \in CostIds, NEW t \in Tenants, NEW a \in CostAmounts, InsertCostEntry(c, t, a)
      PROVE ApplyInv'
  <2>1. /\ costs'[c].applied = 0 /\ costs'[c].cost = a /\ costs'[c].tenant = t
        /\ \A d \in CostIds : d # c => costs'[d] = costs[d]
    BY <1>2, <1>a DEF InsertCostEntry, CostRows, ApplyInv, BlankRows
  <2>2. a \in Nat /\ t # None
    BY WalletAssumption
  <2>3. 2 * (0 - a) <= Grain
    BY <2>2, WalletAssumption
  <2>4. NeverOverApplied'
    BY <2>1, <2>3 DEF ApplyInv, NeverOverApplied
  <2>5. BlankRows'
    BY <2>1, <2>2 DEF ApplyInv, BlankRows
  <2>6. DueCurrent'
    BY <1>2 DEF InsertCostEntry, rater, DueCurrent
  <2> QED BY <2>4, <2>5, <2>6 DEF ApplyInv
<1>3. CASE ReadEntries
  <2>1. UNCHANGED costs
    BY <1>3 DEF ReadEntries
  <2>2. \A c \in CostIds : costs[c].applied < costs[c].cost => costs[c].tenant # None
    BY <1>a DEF ApplyInv, BlankRows
  <2>3. DueCurrent'
    BY <1>3, <2>1, <2>2 DEF ReadEntries, UnappliedCostEntries, Remaining, DueCurrent
  <2> QED BY <2>1, <2>3 DEF ApplyInv, NeverOverApplied, BlankRows
<1>4. ASSUME UNCHANGED costs, DueCurrent' PROVE ApplyInv'
  BY <1>4 DEF ApplyInv, NeverOverApplied, BlankRows
<1>5. ASSUME ~\E c \in CostIds : CommitDeduct(c), ~ReadEntries,
             ~\E c \in CostIds, t \in Tenants, a \in CostAmounts : InsertCostEntry(c, t, a)
      PROVE UNCHANGED costs /\ DueCurrent'
  BY <1>5, Zenon DEF Next, TopUp, DeductWallets, CreateWallet, TopUpCheck, TopUpCommit,
     TopUpFail, StartDeduct, EndDeduct, ReadWallet, NextTenant, CommitNothing, FailDeduct, Refresh,
     Crash, Die, Restart, vars, rater, ApplyInv, DueCurrent
<1> QED BY <1>1, <1>2, <1>3, <1>4, <1>5

(***************************************************************************)
(* A cost entry is never charged past its amount by more than the rounding *)
(* of its wallet_applied column, whatever fails.                           *)
(***************************************************************************)
THEOREM NeverChargedTwice == Spec => []NeverOverApplied
<1>1. ApplyInv => NeverOverApplied
  BY DEF ApplyInv
<1> QED BY <1>1, TypeInit, TypeStep, ApplyInit, ApplyStep, PTL DEF Spec

-----------------------------------------------------------------------------
(***************************************************************************)
(* One reference, one credit.  A request in flight found its reference     *)
(* unused, and as long as no other request with the reference is in flight *)
(* it stays unused: nothing but the commit of a top-up writes one.         *)
(***************************************************************************)
Credits(w, i) == ledger[w][i].ref # None

UniqueRefs ==
  \A w \in WalletIds : \A i, j \in 1..Len(ledger[w]) :
     Credits(w, i) /\ ledger[w][i].ref = ledger[w][j].ref => i = j
FreshRefs ==
  \A r \in Requests : InFlight(r) /\ reqs[r].ref # None => ~RefUsed(reqs[r].wallet, reqs[r].ref)
LoneDeliveries ==
  \A q, r \in Requests :
     InFlight(q) /\ InFlight(r) /\ reqs[r].ref # None /\ reqs[q].ref = reqs[r].ref => q = r

CreditInv == ~Overlap /\ ~Happened("check") => UniqueRefs /\ FreshRefs /\ LoneDeliveries

LEMMA CreditInit == Init => CreditInv
  BY DEF Init, CreditInv, UniqueRefs, FreshRefs, LoneDeliveries, InFlight, Request

\* A row of a ledger, or one more with the reference ref at the end.
LEMMA RowsOfLedger ==
  ASSUME ledger \in [WalletIds -> Seq(Rows)], NEW w \in WalletIds, NEW row \in Rows,
         ledger' = [ledger EXCEPT ![w] = Append(ledger[w], row)]
  PROVE  \A v \in WalletIds :
           /\ Len(ledger[v]) \in Nat
           /\ v # w => ledger'[v] = ledger[v]
           /\ v = w => /\ Len(ledger'[v]) = Len(ledger[v]) + 1
                       /\ ledger'[v][Len(ledger[v]) + 1] = row
                       /\ \A i \in 1..Len(ledger[v]) : ledger'[v][i] = ledger[v][i]
<1>1. \A v \in WalletIds : ledger[v] \in Seq(Rows) /\ Len(ledger[v]) \in Nat
  OBVIOUS
<1>2. ledger'[w] = Append(ledger[w], row)
  OBVIOUS
<1> QED BY <1>1, <1>2

\* The commit of a deduction adds a row without a reference.
LEMMA PlainRow ==
  ASSUME TypeInv, NEW w \in WalletIds, NEW row \in Rows, row.ref = None,
         ledger' = [ledger EXCEPT ![w] = Append(ledger[w], row)],
         UniqueRefs, FreshRefs, UNCHANGED reqs
  PROVE  UniqueRefs' /\ FreshRefs'
<1>1. ledger \in [WalletIds -> Seq(Rows)] /\ ledger' \in [WalletIds -> Seq(Rows)]
  BY DEF TypeInv, TypeOK
<1>2. \A v \in WalletIds :
        /\ Len(ledger[v]) \in Nat
        /\ v # w => ledger'[v] = ledger[v]
        /\ v = w => /\ Len(ledger'[v]) = Len(ledger[v]) + 1
                    /\ ledger'[v][Len(ledger[v]) + 1] = row
                    /\ \A i \in 1..Len(ledger[v]) : ledger'[v][i] = ledger[v][i]
  BY <1>1, RowsOfLedger
<1>3. ASSUME NEW v \in WalletIds, NEW i \in 1..Len(ledger'[v]), ledger'[v][i].ref # None
      PROVE  i \in 1..Len(ledger[v]) /\ ledger'[v][i] = ledger[v][i]
  BY <1>2, <1>3
<1>4. UniqueRefs'
  <2> SUFFICES ASSUME NEW v \in WalletIds, NEW i \in 1..Len(ledger'[v]),
                      NEW j \in 1..Len(ledger'[v]), ledger'[v][i].ref # None,
                      ledger'[v][i].ref = ledger'[v][j].ref
               PROVE  i = j
    BY DEF UniqueRefs, Credits
  <2> QED BY <1>3 DEF UniqueRefs, Credits
<1>5. FreshRefs'
  <2> SUFFICES ASSUME NEW r \in Requests, InFlight(r), reqs[r].ref # None,
                      NEW i \in 1..Len(ledger'[reqs[r].wallet]),
                      ledger'[reqs[r].wallet][i].ref = reqs[r].ref
               PROVE  FALSE
    BY DEF FreshRefs, InFlight, RefUsed
  <2>1. reqs[r].wallet \in WalletIds
    BY DEF TypeInv, Tied
  <2> QED BY <1>3, <2>1 DEF FreshRefs, RefUsed
<1> QED BY <1>4, <1>5

\* The commit of a top-up uses the reference of the request that it ends.
LEMMA CreditRow ==
  ASSUME TypeInv, NEW r \in Requests, TopUpCommit(r), UniqueRefs, FreshRefs, LoneDeliveries
  PROVE  UniqueRefs' /\ FreshRefs'
<1> DEFINE w == reqs[r].wallet
<1>1. /\ ledger \in [WalletIds -> Seq(Rows)] /\ reqs \in [Requests -> TopUps]
      /\ wallets \in [WalletIds -> WalletRows]
  BY DEF TypeInv, TypeOK
<1>2. InFlight(r) /\ w \in WalletIds
  BY DEF TopUpCommit, InFlight, TypeInv, Tied
<1>3. PICK row \in Rows : /\ row.ref = reqs[r].ref
                          /\ ledger' = [ledger EXCEPT ![w] = Append(ledger[w], row)]
  <2>1. wallets[w].balance + reqs[r].amount \in Int /\ reqs[r].amount \in Int
    BY <1>1, <1>2 DEF WalletRows, TopUps
  <2> DEFINE after == Round(wallets[w].balance + reqs[r].amount)
             part == Round(reqs[r].amount)
  <2>2. after \in Int /\ part \in Int
    BY <2>1, RoundBounds
  <2>3. reqs[r].ref \in Refs \cup {None}
    BY <1>1 DEF TopUps
  <2>4. ledger' = [ledger EXCEPT ![w] = Append(ledger[w], Row("top_up", part, after, reqs[r].ref, 0))]
    BY DEF TopUpCommit
  <2> HIDE DEF after, part
  <2>5. Row("top_up", part, after, reqs[r].ref, 0) \in Rows
    BY <2>2, <2>3 DEF Row, Rows
  <2> QED BY <2>4, <2>5, Zenon DEF Row
<1>4. \A v \in WalletIds :
        /\ Len(ledger[v]) \in Nat
        /\ v # w => ledger'[v] = ledger[v]
        /\ v = w => /\ Len(ledger'[v]) = Len(ledger[v]) + 1
                    /\ ledger'[v][Len(ledger[v]) + 1] = row
                    /\ \A i \in 1..Len(ledger[v]) : ledger'[v][i] = ledger[v][i]
  BY <1>1, <1>2, <1>3, RowsOfLedger
<1>5. \A q \in Requests : InFlight(q)' => InFlight(q) /\ reqs'[q] = reqs[q] /\ q # r
  BY <1>1 DEF TopUpCommit, Answer, Request, InFlight
<1>6. row.ref # None => \A i \in 1..Len(ledger[w]) : ledger[w][i].ref # row.ref
  BY <1>2, <1>3 DEF FreshRefs, RefUsed
<1>7. ASSUME NEW v \in WalletIds, NEW i \in 1..Len(ledger'[v])
      PROVE  \/ i \in 1..Len(ledger[v]) /\ ledger'[v][i] = ledger[v][i]
             \/ v = w /\ i = Len(ledger[v]) + 1 /\ ledger'[v][i] = row
  BY <1>4
<1>8. UniqueRefs'
  <2> SUFFICES ASSUME NEW v \in WalletIds, NEW i \in 1..Len(ledger'[v]),
                      NEW j \in 1..Len(ledger'[v]), ledger'[v][i].ref # None,
                      ledger'[v][i].ref = ledger'[v][j].ref
               PROVE  i = j
    BY DEF UniqueRefs, Credits
  <2>1. CASE i \in 1..Len(ledger[v]) /\ j \in 1..Len(ledger[v])
    <3>1. ledger'[v][i] = ledger[v][i] /\ ledger'[v][j] = ledger[v][j]
      BY <1>4, <2>1
    <3> QED BY <2>1, <3>1 DEF UniqueRefs, Credits
  <2>2. CASE ~(i \in 1..Len(ledger[v]) /\ j \in 1..Len(ledger[v]))
    <3>1. v = w
      BY <1>7, <2>2
    <3> QED BY <1>6, <1>7, <2>2, <3>1, Zenon
  <2> QED BY <2>1, <2>2
<1>9. FreshRefs'
  <2> SUFFICES ASSUME NEW q \in Requests, InFlight(q)', reqs'[q].ref # None,
                      NEW i \in 1..Len(ledger'[reqs'[q].wallet]),
                      ledger'[reqs'[q].wallet][i].ref = reqs'[q].ref
               PROVE  FALSE
    BY DEF FreshRefs, RefUsed
  <2>1. InFlight(q) /\ reqs'[q] = reqs[q] /\ q # r /\ reqs[q].wallet \in WalletIds
    BY <1>5 DEF TypeInv, Tied
  <2>2. reqs[q].ref # row.ref
    BY <1>2, <1>3, <2>1 DEF LoneDeliveries
  <2>3. \A k \in 1..Len(ledger[reqs[q].wallet]) : ledger[reqs[q].wallet][k].ref # reqs[q].ref
    BY <2>1 DEF FreshRefs, RefUsed
  <2> QED BY <1>7, <2>1, <2>2, <2>3
<1> QED BY <1>8, <1>9

LEMMA CreditStep == TypeInv /\ TypeInv' /\ CreditInv /\ [Next]_vars => CreditInv'
<1> SUFFICES ASSUME TypeInv, TypeInv', CreditInv, [Next]_vars, ~Overlap, ~Happened("check")'
             PROVE  UniqueRefs' /\ FreshRefs' /\ LoneDeliveries'
  BY DEF CreditInv
<1>a. /\ ledger \in [WalletIds -> Seq(Rows)] /\ reqs \in [Requests -> TopUps]
      /\ faults \in Seq(Told \cup {"other"})
  BY DEF TypeInv, TypeOK
<1>b. "check" \in Told
  BY DEF Told
<1>c. ~Happened("check") /\ ~Fault("check")
  BY <1>a, <1>b, FaultsGrow
<1>d. UniqueRefs /\ FreshRefs /\ LoneDeliveries
  BY <1>c DEF CreditInv
<1>e. ASSUME UNCHANGED ledger, \A q \in Requests : InFlight(q)' => InFlight(q) /\ reqs'[q] = reqs[q]
      PROVE  UniqueRefs' /\ FreshRefs' /\ LoneDeliveries'
  BY <1>d, <1>e DEF UniqueRefs, Credits, FreshRefs, RefUsed, LoneDeliveries
<1>1. ASSUME NEW r \in Requests, NEW w \in WalletIds, NEW a \in TopUpAmounts,
             NEW ref \in Refs \cup {None}, TopUpCheck(r, w, a, ref)
      PROVE  UniqueRefs' /\ FreshRefs' /\ LoneDeliveries'
  <2>1. CASE Answer(r)
    BY <1>1, <1>a, <1>e, <2>1, AnswerType DEF TopUpCheck
  <2>2. CASE ~Answer(r)
    <3>1. /\ Receive(r, w, a, ref) /\ UNCHANGED ledger
          /\ ref = None \/ ~RefUsed(w, ref)
          /\ ref = None \/ \A q \in Requests : ~(InFlight(q) /\ reqs[q].ref = ref)
      BY <1>1, <1>c, <2>2 DEF TopUpCheck
    <3>2. /\ reqs'[r].wallet = w /\ reqs'[r].ref = ref
          /\ \A q \in Requests : q # r /\ InFlight(q)' => InFlight(q) /\ reqs'[q] = reqs[q]
      BY <1>a, <3>1 DEF Receive, InFlight
    <3>3. UniqueRefs'
      BY <1>d, <3>1 DEF UniqueRefs, Credits
    <3>4. FreshRefs'
      <4> SUFFICES ASSUME NEW q \in Requests, InFlight(q)', reqs'[q].ref # None
                   PROVE  ~RefUsed(reqs'[q].wallet, reqs'[q].ref)
        BY <3>1 DEF FreshRefs, RefUsed
      <4>1. CASE q = r
        BY <3>1, <3>2, <4>1
      <4>2. CASE q # r
        BY <1>d, <3>2, <4>2 DEF FreshRefs
      <4> QED BY <4>1, <4>2
    <3>5. LoneDeliveries'
      BY <1>d, <3>1, <3>2 DEF LoneDeliveries
    <3> QED BY <3>3, <3>4, <3>5
  <2> QED BY <2>1, <2>2
<1>2. ASSUME NEW r \in Requests, TopUpCommit(r) PROVE UniqueRefs' /\ FreshRefs' /\ LoneDeliveries'
  <2>1. \A q \in Requests : InFlight(q)' => InFlight(q) /\ reqs'[q] = reqs[q]
    BY <1>2, <1>a, AnswerType DEF TopUpCommit
  <2>2. LoneDeliveries'
    BY <1>d, <2>1 DEF LoneDeliveries
  <2> QED BY <1>2, <1>d, <2>2, CreditRow
<1>3. ASSUME NEW r \in Requests, TopUpFail(r) PROVE UniqueRefs' /\ FreshRefs' /\ LoneDeliveries'
  BY <1>3, <1>a, <1>e, AnswerType DEF TopUpFail
<1>4. ASSUME NEW c \in CostIds, CommitDeduct(c) PROVE UniqueRefs' /\ FreshRefs' /\ LoneDeliveries'
  <2> DEFINE w == cur.id
             after == Round(wallets[w].balance - Debit(c))
             part == Round(-Debit(c))
  <2>1. w \in WalletIds
    BY <1>4 DEF CommitDeduct, TypeInv, Tied, Holding
  <2>b. /\ wallets \in [WalletIds -> WalletRows] /\ cur \in Snapshots /\ due \in [CostIds -> Int]
    BY DEF TypeInv, TypeOK
  <2>c. cur.balance \in Int /\ cur.floor \in Int /\ due[c] \in Int /\ wallets[w].balance \in Int
    BY <2>1, <2>b DEF Snapshots, WalletRows
  <2>2. Debit(c) \in Int /\ wallets[w].balance - Debit(c) \in Int /\ -Debit(c) \in Int
    BY <2>c DEF Debit, Lesser, Available
  <2>3. after \in Int /\ part \in Int
    BY <2>2, RoundBounds
  <2>4. ledger' = [ledger EXCEPT ![w] = Append(ledger[w], Row("deduction", part, after, None, c))]
        /\ UNCHANGED reqs
    BY <1>4 DEF CommitDeduct
  <2> HIDE DEF after, part
  <2>5. Row("deduction", part, after, None, c) \in Rows /\ Row("deduction", part, after, None, c).ref = None
    BY <2>3 DEF Row, Rows
  <2>6. UniqueRefs' /\ FreshRefs'
    BY <1>d, <2>1, <2>4, <2>5, PlainRow, Zenon
  <2>7. LoneDeliveries'
    BY <1>d, <2>4 DEF LoneDeliveries, InFlight
  <2> QED BY <2>6, <2>7
<1>5. ASSUME Die, UNCHANGED ledger PROVE UniqueRefs' /\ FreshRefs' /\ LoneDeliveries'
  BY <1>5, <1>e, DieType
<1>6. ASSUME UNCHANGED <<ledger, reqs>> PROVE UniqueRefs' /\ FreshRefs' /\ LoneDeliveries'
  BY <1>6, <1>e DEF InFlight
<1>7. ASSUME ~\E r \in Requests, w \in WalletIds, a \in TopUpAmounts, ref \in Refs \cup {None} :
               TopUpCheck(r, w, a, ref),
             ~\E r \in Requests : TopUpCommit(r) \/ TopUpFail(r), ~\E c \in CostIds : CommitDeduct(c)
      PROVE  (Die /\ UNCHANGED ledger) \/ UNCHANGED <<ledger, reqs>>
  BY <1>7, Zenon DEF Next, TopUp, DeductWallets, CreateWallet, InsertCostEntry, StartDeduct, EndDeduct,
     ReadWallet, ReadEntries, NextTenant, CommitNothing, FailDeduct, Refresh, Crash, Restart, vars
<1> QED BY <1>1, <1>2, <1>3, <1>4, <1>5, <1>6, <1>7

(***************************************************************************)
(* One external_ref credits a wallet once if a delivery is retried only    *)
(* after the one before it has been answered or cut off.  (Where two       *)
(* deliveries may overlap, the run wallet_double_credit refutes it.)       *)
(***************************************************************************)
THEOREM CreditedOnce == Spec => [](~Overlap => NoDoubleCredit)
<1>1. CreditInv => (~Overlap => NoDoubleCredit)
  BY DEF CreditInv, UniqueRefs, Credits, NoDoubleCredit
<1>2. Init => TypeInv /\ CreditInv
  BY TypeInit, CreditInit
<1>3. TypeInv /\ CreditInv /\ [Next]_vars => TypeInv' /\ CreditInv'
  BY TypeStep, CreditStep
<1> QED BY <1>1, <1>2, <1>3, PTL DEF Spec

=============================================================================
