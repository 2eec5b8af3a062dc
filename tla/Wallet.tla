------------------------------- MODULE Wallet -------------------------------
(***************************************************************************)
(* Prepaid wallets: the wallet half of inventory.Store, the HTTP top-up    *)
(* handlers, and the deduction pass Rater.DeductWallets that the rating    *)
(* goroutine runs after each rating sweep.                                 *)
(*                                                                         *)
(* A step is one SQL statement or one SQL transaction, so top-ups of other *)
(* goroutines fall between any two steps of the deduction pass.  Money is  *)
(* counted in units of cost_amount, NUMERIC(18,10); the wallet columns are *)
(* NUMERIC(18,6), and Grain is the number of cost units in one of theirs   *)
(* (10^4 in the schema).                                                   *)
(***************************************************************************)
EXTENDS Sequences, FiniteSets, Sums

CONSTANTS
  Tenants,      \* tenants that may own wallets
  WalletIds,    \* uuids handed out by CreateWallet
  CostIds,      \* cost entries, numbered in the order of their period_start
  Requests,     \* HTTP top-up deliveries, a retry being a request of its own
  Refs,         \* external references a billing system may send
  None,         \* SQL NULL and the empty string
  TopUpAmounts, \* amounts of the top-ups
  CostAmounts,  \* amounts of the cost entries
  Grain,        \* cost units per wallet unit
  Overlap,      \* whether two deliveries of one reference may be in flight
  Faults,       \* which failures may happen
  MaxFaults,    \* bound on the number of failures
  MaxRows       \* rows of a ledger after which those of amount 0 are not kept

FaultKinds == {"check", "topup", "read", "deduct", "lostack", "refresh", "crash"}

ASSUME WalletAssumption ==
  /\ CostIds \subseteq Nat \ {0} /\ IsFiniteSet(WalletIds)
  /\ None \notin Refs \cup Tenants \cup WalletIds
  /\ TopUpAmounts \subseteq Nat \ {0}
  /\ CostAmounts \subseteq Nat
  /\ Grain \in Nat \ {0}
  /\ Faults \subseteq FaultKinds
  /\ Overlap \in BOOLEAN
  /\ MaxFaults \in Nat /\ MaxRows \in Nat

VARIABLES
  wallets,      \* table wallets; open is the creation rank, 0 before creation
  ledger,       \* table wallet_ledger_entries, per wallet in commit order
  costs,        \* table cost_entries; cost is 0 for a row not inserted yet
  reqs,         \* the HTTP top-up requests
  pc,           \* where the rating goroutine is
  tenants,      \* DeductWallets: the tenants still to visit
  cur,          \* DeductWallets: the wallet record held in memory
  todo,         \* DeductWallets: the entries of the tenant still to visit
  due,          \* DeductWallets: remaining of each entry, as it was read
  faults        \* the failures so far

vars == <<wallets, ledger, costs, reqs, pc, tenants, cur, todo, due, faults>>
rater == <<pc, tenants, cur, todo, due>>

(***************************************************************************)
(* Storing x into a NUMERIC(18,6) column: PostgreSQL rounds half away from *)
(* zero.                                                                   *)
(***************************************************************************)
RoundNat(x) == Grain * ((2 * x + Grain) \div (2 * Grain))

Round(x) == IF x >= 0 THEN RoundNat(x) ELSE -RoundNat(-x)

Lesser(a, b) == IF a <= b THEN a ELSE b

\* Bug: records the balance before the change.
RowBefore(kind, amount, after, ref, cost) ==
  [kind |-> kind, amount |-> amount, after |-> after - amount, ref |-> ref, cost |-> cost]

Row(kind, amount, after, ref, cost) ==
  [kind |-> kind, amount |-> amount, after |-> after, ref |-> ref, cost |-> cost]

Rows == [kind: {"top_up", "deduction"}, amount: Int, after: Int,
         ref: Refs \cup {None}, cost: CostIds \cup {0}]

(***************************************************************************)
(* The queries.  Every wallet is created active and nothing changes that.  *)
(***************************************************************************)
Open == {w \in WalletIds : wallets[w].open > 0}

AllTenantsWithWallets == {wallets[w].tenant : w \in Open}

\* Wallet w as the pass for tenant t holds it.
GetWallet(t, w) == [tenant |-> t, id |-> w, balance |-> wallets[w].balance,
                    floor |-> wallets[w].floor]

\* Bug: the newest wallet of anyone.
IsNewestWallet(w, t) == w \in Open /\ \A v \in Open : wallets[v].open <= wallets[w].open

\* ORDER BY created_at DESC LIMIT 1 over the tenant's active wallets.
IsWalletForTenant(w, t) ==
  /\ w \in Open /\ wallets[w].tenant = t
  /\ \A v \in Open : wallets[v].tenant = t => wallets[v].open <= wallets[w].open

UnappliedCostEntries(t) ==
  {c \in CostIds : costs[c].tenant = t /\ costs[c].applied < costs[c].cost}

\* Bug: a partly applied entry comes up with its whole amount.
WholeCost(c) == costs[c].cost

Remaining(c) == costs[c].cost - costs[c].applied

\* Bug: looks at the latest row only.
RefIsLatest(w, ref) == ledger[w] # <<>> /\ ledger[w][Len(ledger[w])].ref = ref

RefUsed(w, ref) == \E i \in 1..Len(ledger[w]) : ledger[w][i].ref = ref

-----------------------------------------------------------------------------
\* Local variables out of scope, and a request that holds nothing.
NoWallet == [tenant |-> None, id |-> None, balance |-> 0, floor |-> 0]
NothingDue == [c \in CostIds |-> 0]
Request(at) == [pc |-> at, wallet |-> None, amount |-> 0, ref |-> None]

Init ==
  /\ wallets = [w \in WalletIds |-> [tenant |-> None, balance |-> 0,
                                     reference |-> 0, floor |-> 0, open |-> 0]]
  /\ ledger = [w \in WalletIds |-> <<>>]
  /\ costs = [c \in CostIds |-> [tenant |-> None, cost |-> 0, applied |-> 0]]
  /\ reqs = [r \in Requests |-> Request("new")]
  /\ pc = "idle" /\ tenants = {} /\ todo = {}
  /\ cur = NoWallet /\ due = NothingDue
  /\ faults = <<>>

\* A failure of one of the kinds this instance allows, within its budget.
\* The failures that a property tells from the others, and what is recorded of one.
Told == {"check", "lostack"}
Noted(kind) == IF kind \in Told THEN kind ELSE "other"

Fault(kind) ==
  kind \in Faults /\ Len(faults) < MaxFaults /\ faults' = Append(faults, Noted(kind))

(***************************************************************************)
(* POST /wallets.  Nothing stops a tenant from having two.  Which uuid it  *)
(* gets makes no difference, nor does which of the Requests comes next.    *)
(***************************************************************************)
CreateWallet(w, t) ==
  /\ w \notin Open /\ w = CHOOSE v \in WalletIds : v \notin Open
  /\ wallets' = [wallets EXCEPT ![w] =
                   [@ EXCEPT !.tenant = t, !.open = Cardinality(Open) + 1]]
  /\ UNCHANGED <<ledger, costs, reqs, rater, faults>>

(***************************************************************************)
(* POST /wallets/{id}/top-up, and a positive POST .../adjustments: the     *)
(* EXISTS query runs outside the transaction that credits the wallet, and  *)
(* when it fails the reference counts as unused.                           *)
(***************************************************************************)
InFlight(r) == reqs[r].pc = "checked"

Receive(r, w, a, ref) ==
  reqs' = [reqs EXCEPT ![r] = [pc |-> "checked", wallet |-> w, amount |-> a, ref |-> ref]]

\* 201, 400 or 500, received or lost: the request is over.
Answer(r) == reqs' = [reqs EXCEPT ![r] = Request("done")]

TopUpCheck(r, w, a, ref) ==
  /\ reqs[r].pc = "new" /\ r = (CHOOSE q \in Requests : reqs[q].pc = "new") /\ w \in Open
  /\ Overlap \/ ref = None \/ \A q \in Requests : ~(InFlight(q) /\ reqs[q].ref = ref)
  /\ \/ /\ IF ref # None /\ RefUsed(w, ref) THEN Answer(r) ELSE Receive(r, w, a, ref)
        /\ UNCHANGED faults
     \/ ref # None /\ Fault("check") /\ Receive(r, w, a, ref)
  /\ UNCHANGED <<wallets, ledger, costs, rater>>

TopUpCommit(r) ==
  LET q == reqs[r]
      after == Round(wallets[q.wallet].balance + q.amount)
  IN /\ q.pc = "checked"
     /\ wallets' = [wallets EXCEPT ![q.wallet] =
                      [wallets[q.wallet] EXCEPT !.balance = after,
                         !.reference = Round(wallets[q.wallet].reference + q.amount)]]
     /\ ledger' = [ledger EXCEPT ![q.wallet] =
                     Append(@, Row("top_up", Round(q.amount), after, q.ref, 0))]
     /\ Answer(r)
     /\ UNCHANGED <<costs, rater, faults>>

TopUpFail(r) ==
  /\ InFlight(r) /\ Fault("topup") /\ Answer(r)
  /\ UNCHANGED <<wallets, ledger, costs, rater>>

(***************************************************************************)
(* The rating sweep has inserted a cost entry.  It runs in the goroutine   *)
(* that runs DeductWallets, so never between two steps of a pass.          *)
(***************************************************************************)
InsertCostEntry(c, t, a) ==
  /\ pc = "idle" /\ costs[c].tenant = None
  /\ costs' = [costs EXCEPT ![c] = [@ EXCEPT !.tenant = t, !.cost = a]]
  /\ UNCHANGED <<wallets, ledger, reqs, rater, faults>>

(***************************************************************************)
(* Rater.DeductWallets, one step per database call.                        *)
(***************************************************************************)
StartDeduct ==
  /\ pc = "idle" /\ Open # {}
  /\ pc' = "tenants" /\ tenants' = AllTenantsWithWallets
  /\ UNCHANGED <<wallets, ledger, costs, reqs, cur, todo, due, faults>>

EndDeduct ==
  /\ pc = "tenants" /\ tenants = {}
  /\ pc' = "idle"
  /\ UNCHANGED <<wallets, ledger, costs, reqs, tenants, cur, todo, due, faults>>

ReadWallet(t, w) ==
  /\ pc = "tenants" /\ t \in tenants /\ IsWalletForTenant(w, t)
  /\ tenants' = tenants \ {t}
  /\ \/ pc' = "entries" /\ cur' = GetWallet(t, w) /\ UNCHANGED faults
     \/ pc' = "tenants" /\ UNCHANGED cur /\ Fault("read")
  /\ UNCHANGED <<wallets, ledger, costs, reqs, todo, due>>

ReadEntries ==
  LET found == UnappliedCostEntries(cur.tenant)
  IN /\ pc = "entries"
     /\ \/ /\ pc' = "debit" /\ todo' = found
           /\ due' = [c \in CostIds |-> IF c \in found THEN Remaining(c) ELSE 0]
           /\ UNCHANGED <<cur, faults>>
        \/ pc' = "tenants" /\ cur' = NoWallet /\ UNCHANGED <<todo, due>> /\ Fault("read")
     /\ UNCHANGED <<wallets, ledger, costs, reqs, tenants>>

\* Bug: keeps one wallet unit back.
AvailableLessOne == cur.balance - cur.floor - Grain

Available == cur.balance - cur.floor
IsFirst(c) == c \in todo /\ \A d \in todo : c <= d

\* Bug: not capped at what is available.
DebitUncapped(c) == due[c]

Debit(c) == Lesser(due[c], Available)

\* No entry left, or "wallet depleted": on to the next tenant.
NextTenant ==
  /\ pc = "debit" /\ (todo = {} \/ Available <= 0)
  /\ pc' = "tenants" /\ todo' = {} /\ cur' = NoWallet /\ due' = NothingDue
  /\ UNCHANGED <<wallets, ledger, costs, reqs, tenants, faults>>

(***************************************************************************)
(* DeductFromWallet.  The amount was computed from cur; the transaction    *)
(* subtracts it from whatever the balance is now and does not look at the  *)
(* floor.  When the commit's answer is lost the caller takes it for a      *)
(* failure and goes on to the next entry with the wallet it had.           *)
(***************************************************************************)
CommitDeduct(c) ==
  LET after == Round(wallets[cur.id].balance - Debit(c))
  IN /\ pc = "debit" /\ IsFirst(c) /\ Available > 0
     /\ Round(-Debit(c)) # 0 \/ Len(ledger[cur.id]) < MaxRows
     /\ wallets' = [wallets EXCEPT ![cur.id].balance = after]
     /\ costs' = [costs EXCEPT ![c].applied = Round(@ + Debit(c))]
     /\ ledger' = [ledger EXCEPT ![cur.id] =
                     Append(@, Row("deduction", Round(-Debit(c)), after, None, c))]
     /\ todo' = todo \ {c}
     /\ \/ pc' = "refresh" /\ UNCHANGED faults
        \/ pc' = "debit" /\ Fault("lostack")
     /\ UNCHANGED <<reqs, tenants, cur, due>>

\* The same of a remainder that rounds to nothing, which leaves only a row of amount 0,
\* when the ledger has MaxRows rows already.
CommitNothing(c) ==
  /\ pc = "debit" /\ IsFirst(c) /\ Available > 0
  /\ Round(-Debit(c)) = 0 /\ Len(ledger[cur.id]) >= MaxRows
  /\ todo' = todo \ {c}
  /\ \/ pc' = "refresh" /\ UNCHANGED faults
     \/ pc' = "debit" /\ Fault("lostack")
  /\ UNCHANGED <<wallets, ledger, costs, reqs, tenants, cur, due>>

FailDeduct(c) ==
  /\ pc = "debit" /\ IsFirst(c) /\ Available > 0 /\ Fault("deduct")
  /\ todo' = todo \ {c}
  /\ UNCHANGED <<wallets, ledger, costs, reqs, pc, tenants, cur, due>>

\* The process ends: nothing in memory survives, open requests are cut off.
Die ==
  /\ pc' = "down" /\ tenants' = {} /\ cur' = NoWallet /\ todo' = {} /\ due' = NothingDue
  /\ reqs' = [r \in Requests |-> IF InFlight(r) THEN Request("done") ELSE reqs[r]]

(***************************************************************************)
(* wallet, _ = GetWallet(...): a failed read leaves nil, which the next    *)
(* entry dereferences; the recovered panic ends the service.               *)
(***************************************************************************)
Refresh ==
  /\ pc = "refresh"
  /\ \/ /\ pc' = "debit" /\ cur' = GetWallet(cur.tenant, cur.id)
        /\ UNCHANGED <<reqs, tenants, todo, due, faults>>
     \/ /\ todo = {} /\ Fault("refresh")
        /\ pc' = "tenants" /\ cur' = NoWallet /\ due' = NothingDue
        /\ UNCHANGED <<reqs, tenants, todo>>
     \/ todo # {} /\ Fault("refresh") /\ Die
  /\ UNCHANGED <<wallets, ledger, costs>>

Crash ==
  /\ pc # "down" /\ Fault("crash") /\ Die
  /\ UNCHANGED <<wallets, ledger, costs>>

Restart ==
  /\ pc = "down" /\ pc' = "idle"
  /\ UNCHANGED <<wallets, ledger, costs, reqs, tenants, cur, todo, due, faults>>

TopUp ==
  \E r \in Requests :
     \/ \E w \in WalletIds, a \in TopUpAmounts, ref \in Refs \cup {None} :
          TopUpCheck(r, w, a, ref)
     \/ TopUpCommit(r) \/ TopUpFail(r)

DeductWallets ==
  \/ StartDeduct \/ EndDeduct
  \/ \E t \in Tenants, w \in WalletIds : ReadWallet(t, w)
  \/ ReadEntries \/ NextTenant \/ Refresh
  \/ \E c \in CostIds : CommitDeduct(c) \/ CommitNothing(c) \/ FailDeduct(c)

Next ==
  \/ \E w \in WalletIds, t \in Tenants : CreateWallet(w, t)
  \/ \E c \in CostIds, t \in Tenants, a \in CostAmounts : InsertCostEntry(c, t, a)
  \/ TopUp \/ DeductWallets \/ Crash \/ Restart

Spec == Init /\ [][Next]_vars

(***************************************************************************)
(* The rating goroutine is driven by a ticker and every database call of a *)
(* pass returns; a stopped service is restarted by its Deployment.         *)
(***************************************************************************)
FairSpec == Spec /\ WF_vars(DeductWallets) /\ WF_vars(Restart)

-----------------------------------------------------------------------------
WalletRows == [tenant: Tenants \cup {None}, balance: Int, reference: Int,
               floor: {0}, open: Nat]
CostRows == [tenant: Tenants \cup {None}, cost: Nat, applied: Int]
TopUps == [pc: {"new", "checked", "done"},
           wallet: WalletIds \cup {None}, amount: Nat, ref: Refs \cup {None}]
Snapshots == [tenant: Tenants \cup {None}, id: WalletIds \cup {None}, balance: Int,
              floor: {0}]

TypeOK ==
  /\ wallets \in [WalletIds -> WalletRows] /\ ledger \in [WalletIds -> Seq(Rows)]
  /\ costs \in [CostIds -> CostRows] /\ reqs \in [Requests -> TopUps]
  /\ pc \in {"idle", "tenants", "entries", "debit", "refresh", "down"}
  /\ tenants \subseteq Tenants /\ cur \in Snapshots
  /\ todo \subseteq CostIds /\ due \in [CostIds -> Int]
  /\ faults \in Seq(Told \cup {"other"})

Happened(kind) == \E i \in 1..Len(faults) : faults[i] = kind

(***************************************************************************)
(* A deduction never takes a wallet below its floor, although the amount   *)
(* is computed from a balance read before the transaction and top-ups,     *)
(* failures and restarts fall in between, as long as no commit loses its   *)
(* answer.  It rests on every acknowledged deduction being followed by a   *)
(* refresh, and on the rating goroutine being the only one that debits.    *)
(***************************************************************************)
FloorRespected ==
  ~Happened("lostack") => \A w \in WalletIds : wallets[w].balance >= wallets[w].floor

(***************************************************************************)
(* The ledger explains the balance: the last balance_after is the balance, *)
(* and each row's balance_after is the one before plus its amount.  Only   *)
(* an amount that ends in exactly half a wallet unit can break the sum, by *)
(* one unit: the balance and the amount then round the same way.           *)
(***************************************************************************)
Before(rows, i) == IF i = 1 THEN 0 ELSE rows[i - 1].after

Explained(gap) == gap = 0 \/ (gap \in {Grain, -Grain} /\ Grain % 2 = 0)

Accounts(rows, balance) ==
  /\ balance = Before(rows, Len(rows) + 1)
  /\ \A i \in 1..Len(rows) : Explained(rows[i].after - Before(rows, i) - rows[i].amount)

LedgerExplainsBalance == \A w \in WalletIds : Accounts(ledger[w], wallets[w].balance)

(***************************************************************************)
(* No cost entry is charged more than once: whatever the failures,         *)
(* restarts and resumed partial deductions, wallet_applied exceeds         *)
(* cost_amount by at most the half wallet unit its rounding adds.          *)
(***************************************************************************)
NeverOverApplied == \A c \in CostIds : 2 * (costs[c].applied - costs[c].cost) <= Grain

(***************************************************************************)
(* What cost_entries says was applied is what the ledgers of that tenant's *)
(* wallets took for it: after any failure or restart no deduction is       *)
(* recorded on one side only, or charged to another tenant.                *)
(***************************************************************************)
LedgerRows == UNION {{w} \X DOMAIN ledger[w] : w \in WalletIds}

Taken == [p \in LedgerRows |-> -ledger[p[1]][p[2]].amount]

Deductions(c) ==
  {p \in LedgerRows : /\ wallets[p[1]].tenant = costs[c].tenant
                      /\ ledger[p[1]][p[2]].cost = c}

AppliedIsDeducted == \A c \in CostIds : costs[c].applied = Total(Taken, Deductions(c))

(***************************************************************************)
(* One external_ref credits a wallet once, as long as a delivery is only   *)
(* retried once the one before it has been answered or cut off and the     *)
(* EXISTS query has not failed.                                            *)
(***************************************************************************)
NoDoubleCredit ==
  ~Happened("check") => \A w \in WalletIds : \A i, j \in 1..Len(ledger[w]) :
     ledger[w][i].ref # None /\ ledger[w][i].ref = ledger[w][j].ref => i = j

(***************************************************************************)
(* Whatever fails on the way, the passes keep returning to a state in      *)
(* which what every tenant has not paid rounds to nothing in the unit of   *)
(* the wallets, entry by entry, or the tenant's wallet is exhausted (the   *)
(* one created last; an older one is never drawn on again).  A remainder   *)
(* of less than half a wallet unit is never paid: its entry comes up in    *)
(* every pass, for a row of amount 0.                                      *)
(***************************************************************************)
Settled ==
  \A t \in Tenants, w \in WalletIds : IsWalletForTenant(w, t) =>
     \/ \A c \in UnappliedCostEntries(t) : Round(Remaining(c)) = 0
     \/ wallets[w].balance <= wallets[w].floor

KeepsSettling == []<>Settled
=============================================================================
