# A TLA+ model of the cost event pipeline

This directory models `inventory-watcher` (the service built as
`cost-event-consumer`) and `kube-cost-agent`: how usage of OSAC resources
becomes events, metering entries, cost entries, alerts and wallet deductions.
The modules are translated from the Go code; `PROJECT.json` maps every
definition to the lines it stands for. TLC checks the modules on small instances
(`*.cfg`), and TLAPS proves the central safety properties of ingestion, wallets,
metering, the rating sweep, quotas and alerts, the Kafka consumer and the Splunk
forwarder for every value of the constants.

    tlc -config Wallet.cfg MCWallet            # one run
    tlapm WalletProof.tla                      # one module of proofs

## The system

One process runs these goroutines over one PostgreSQL database, most of them
with autocommit statements at READ COMMITTED; each can be switched off with
`DISABLE_COMPONENTS`. A panic in any of them ends the process (`safeGo`), and the
Deployment starts it again. The Deployment has one replica, but a rolling update
lets an old and a new process overlap.

| Part | State it owns | Operations | Interacts with |
|---|---|---|---|
| watcher | connection to the OSAC watch stream | create, update, delete of resources, projects | inventory tables, final metering, Kafka producer |
| reconciler | none (lists held in memory) | periodic and triggered comparison of OSAC and inventory | inventory tables |
| metering | `last_metered_at`, `metering_entries` | sweep over three kinds, final metering, usage of models | inventory, rating |
| event ingestion | `raw_events`, `ingestion_receipts` | single events and batches over HTTP and Kafka | all tables, in one transaction |
| event handlers, custom metrics | inventory rows, metering entries | one handler per type, operator-defined meters | ingestion, metering |
| Kafka producer and consumer | topic, committed offset | publish, poll, process, commit, shutdown | watcher, ingestion |
| rating | `cost_entries`, `rated` marks | sweep in batches, flat, tiered and cumulative rates | rates, rule engine, billing periods |
| cost reports | none (reads) | report with filters and groups, breakdown | `cost_entries`, HTTP |
| start-up | `rates`, `quotas`, `pricing_rules` | seed defaults and rule files when the tables are empty | rating, quotas, rule engine |
| rule engine | cache of `pricing_rules` | seed, check version, reload | rating |
| wallets | `wallets`, `wallet_ledger_entries`, `wallet_applied` | create, top up, deduct | rating goroutine, HTTP |
| quotas and alerts | `quotas`, `alerts` | create, update, delete with overcommit check; threshold evaluation | rating goroutine, HTTP, billing periods |
| Splunk forwarder | cursor | read rows beyond it, post, advance | `raw_events` |
| project cache | map of tenant to default project | look up, upsert | watcher, reconciler, ingestion |
| kube-cost-agent | `lastHeartbeat`, bounded channel | heartbeat loop, deletions, batches, retries | ingestion over HTTP |

What makes it hard, and what the properties are about:

* Two statements where one was meant: cost entries are inserted and metering
  entries marked separately; a top-up is checked outside its transaction; a
  limit is read, summed and written by three statements.
* Values used after they went stale: the sweep's list of billable rows, the
  wallet held during a deduction pass, the reconciler's two lists, the rule
  version, the billing window, the project cache.
* Identifiers drawn before a commit: tiers count smaller ids and the Splunk
  cursor passes them, while entries become visible in commit order.
* Lost answers, retries and restarts at every step.
* Several functions that each decide for themselves whose event it is.
* Rounding between columns of different scale; calendars; tier boundaries.

## Modules

| Module | Models | State and actions |
|---|---|---|
| `Wallet` | wallet part of `Store`, top-up handlers, `Rater.DeductWallets` | tables, requests and the pass's local variables; one action per statement or transaction |
| `Ingest` | `IngestEvent`, `IngestEventBatch`, `processEvents`, `ClaimIngestionReceipt` | senders with retries, open transactions, receipts; PostgreSQL's lock waits and deadlock aborts are external |
| `EventLog` | what ingestion promises: each event takes effect once, all of a batch or nothing, and acknowledged means stored | abstract specification, implemented by `Ingest` |
| `EventHandlers` | `classifyEvent`, validation of identity, all handlers, package `custommetrics` | the registry, the inventory and what each event wrote |
| `Metering` | watcher, reconciler, sweep, final metering, collector heartbeats | OSAC's truth, the stream, inventory rows, how often each unit of time was metered and by whom |
| `Rating` | `Rater.sweep` and its statements, `matchRate`, `MeteringSumBefore` | entries that commit in any order across writers, sweeps of several raters |
| `Reports` | `GetCostReport`, `GetCostBreakdown` and their queries | extends `Rating`; operators on its cost entries, one answer per request |
| `Tiers` | `applyTieredRate`, `applyTieredRateCumulative` | pure operators, and the graduated tariff they are compared with |
| `BillingPeriod` | `ResolvePeriod`, `PeriodLabel` | pure operators over a real calendar |
| `RuleEngine` | seeding of rules, `CheckVersion`, `LoadRules` | table with versions, caches of several engines |
| `Startup` | `SeedDefaultRates`, `SeedDefaultQuotas` and the order of `main` | composes the boot of several instances with `RuleEngine` |
| `Quota` | quota handlers, `validateProjectOvercommit`, `evaluateThresholds`, `InsertAlert`, `GetEntitlementValue` | requests statement by statement, evaluation with window changes; uses `BillingPeriod` |
| `Kafka` | producer, consumer, shutdown | log, committed offset, consumers with their batch; broker and reassignment are external |
| `Splunk` | `Forwarder` and its cursor | rows of several writers, forwarders of a rollout; its names differ from those of `Kafka` (`SplunkSpec`), so that one module can prove both |
| `ProjectCache` | `DefaultProjectForTenant`, `UpsertProject` | query and store of a lookup as two steps |
| `Agent` | controller and emitter of `kube-cost-agent` | pods, informer, heartbeat loop, channel, batch, attempts |
| `Sums` | the SUM of the store's queries | one operator, used by `Wallet` and `Quota` |
| `MC*` | instances for TLC | values of constants |
| `IngestProof`, `WalletProof`, `MeteringProof`, `MeteredOnceProof`, `RatingProof`, `QuotaProof`, `CursorsProof`, `WalletBooksProof` | theorems | `MeteredOnceProof` extends `MeteringProof`, `WalletBooksProof` extends `WalletProof`; `CursorsProof` is about `Kafka` and `Splunk` |

In each module a step is one SQL statement, one SQL transaction or one network
call, so that the steps of other goroutines fall between any two of them. A
failure of kind `k` is possible where the code has an error path for it, if
`k \in Faults` and fewer than `MaxFaults` failures have happened. Money, usage
and time are integers in the smallest unit that matters; `Wallet` keeps the
scales of the two kinds of NUMERIC column apart (`Grain`). Names, payloads and
formats are abstracted except where a property is about them (`EventHandlers`,
`BillingPeriod`). Each module has one type invariant `TypeOK`, which is a
conjunct of the first safety invariant of its run. Operators marked "Bug"
are not used by any specification: each is a plausible wrong version of the definition that follows it, which the
property it belongs to rejects.

### Abstractions to know of

* `Ingest`: what an event writes is one effect. `EventHandlers` has the writes,
  with the transaction as one step.
* One of each goroutine, where a rollout may overlap two: `Wallet` has one
  deduction pass and `Metering` one sweep. Two passes that hold the same balance could
  debit it twice, and two sweeps with the same list meter it twice; `FloorRespected`,
  `NeverOverApplied`, `MeteredOnce` and the theorems about them say nothing of that.
  `Rating` and `Splunk` are parameterised by the set of raters and forwarders: the runs
  have one, and the theorems `RatedStaysCosted` and `CursorSafe` hold for any number.
* `Wallet`: a pass deducts a remainder that rounds to nothing again and again and
  leaves a ledger row of amount 0 each time. A ledger keeps such rows only up to
  `MaxRows` rows (`CommitNothing`); every other row is kept. The run keeps them in
  ledgers of up to three rows; the theorems hold for any `MaxRows`.
* `EventHandlers`: the usage figures of an event are one field; the length limit
  of ids, the sub-second part of durations and durations beyond the range of
  `time.Duration` are left out.
* `Metering`: the meters of a resource are one, since its entries are inserted
  together. Heartbeats carry the states of the watch stream. The kind of each resource
  is chosen once, in `kindOf`; a sweep or a reconciliation passes over kinds of
  which there is none, since it would list nothing.
* `Reports`: an answer is computed from one state. A report is one query, whose rows
  it totals itself; report and breakdown are separate requests, and the property
  compares them between two sweeps. Amounts are in one currency.
* `Startup`: rates and quotas are counted and inserted row by row; what is in a
  rule file is its version.
* `Rating`: the rates in effect do not change during a run.
* `Quota`: one tenant. A quota is a budget (its unit is a currency) or not; the
  overcommit check and the key of an alert look at the meter only, as in the code, so budgets and
  usage quotas of a meter mix. The meter names "" and "*" are one, `AllMeters`.
  Entries of both tables are inserted by the same action: rating is `Rating`'s.
* `Kafka`: whether ingestion refuses a CloudEvent (too old by now, a receipt of
  another payload, an error of the handler) is a free choice, recorded in `refused`;
  `Ingest` has the conditions. One partition; a member is reassigned between batches only, and the
  broker refuses commits of a member that does not own the partition.
* `Agent`: listing the pods and reading the clock are one step, as are reading
  `lastHeartbeat` and emitting; a pod that finishes without being deleted is
  left out. `MaxLives` allows pods of the same name; the properties are stated
  for the first.
* `Wallet`: a positive adjustment is a top-up, as in the handler; a negative one
  is refused. `Store.AdjustWallet` has no caller. Every wallet has floor 0, which
  is all the API can create.

## Runs

Runs that pass:

| Run | Properties | What it shows |
|---|---|---|
| `Wallet` | `FloorRespected`, `LedgerExplainsBalance`, `NeverOverApplied`, `NoDoubleCredit`, `AppliedIsDeducted`, `KeepsSettling` | Top-ups of two tenants interleave with deduction passes that fail, panic, crash and lose a commit's answer, with costs finer than wallet units: floor, ledger and cost entries stay consistent up to the rounding of one column, and the passes keep settling what a wallet can pay, down to remainders that round to nothing. |
| `Ingest` | `ReceiptsMatchEffects`, `ImplementsEventLog`, `EveryoneAnswered` | Two senders with overlapping and contradictory batches, malformed and unprocessable events, retries, time-outs, lost answers, crashes and PostgreSQL deadlocks: ingestion implements the abstract event log, and every sender reaches a final answer. |
| `Metering_usage` | `MeteredOnce`, `NoGap`, `DeletionSettled` | Sweep, watcher and reconciler on a compute instance, a cluster or a bare metal instance, with state changes, lost and repeated events, failing statements and crashes: no unit is metered twice or left out without a failure or a deletion that raced, and a deleted instance is metered for its whole life. |
| `Metering_converges` | `ExistenceConverges` | Overlapping reconciliations with stale lists, lost events, failures and late heartbeats that revive deleted rows: the inventory still comes to hold exactly the resources OSAC has. |
| `Rating` | `RatedIsCosted`, `ChargedPerFault`, `PeriodBilledAsWhole`, `ReportsAccount`, `TiersAreGraduated`, `EventuallyRated` | Meters of every kind, several writers and batches, with failing statements and crashes: no entry is written off, it takes a failure to charge one twice, a billing period is billed as one usage, an entry that is rated again costs the same, the reports on successive days and months account for the costs, and the backlog empties. |
| `Splunk` | `CursorBehindSent`, `SentPerFault`, `EventuallySent` | One forwarder with every failure: the cursor never passes a row that Splunk lacks, it takes a failure to send a row twice, and every row reaches Splunk in the end, if rows become visible in the order of their ids. |
| `Agent` | `SecondsAddUp`, `BilledPerProcess`, `Delivers` | A pod is reported while posts fail, answers are lost, the channel fills up, the pod is deleted and the agent is stopped, crashes and restarts: every second up to the last heartbeat is credited, under way or forfeited exactly once, no process bills it twice, and what the emitter holds is dealt with in the end. |
| `Quota` | `AlertsOfTheirWindow`, `WindowsTile`, `LoneWriteFits`, `RefusedWhenUsedUp`, `EventuallyAlerted` | Two administrators change quotas, usage arrives while windows end, the evaluation fails or is cut short and a gateway asks for entitlements: a project limit whose check nobody overtook fits, alerts are true of the window they name and come in the end, access is refused only when what was metered for one of the quotas reached its limit; and the windows of the calendar tile the time. |
| `Kafka` | `CommittedWasHanded`, `LostPerFailure`, `NeverStuck` | Two members of the group, two CloudEvents and an event of the watcher, with lost and duplicated records, crashes, failed commits, reassignments and shutdowns: the committed offset never passes a record that was neither handed over nor abandoned by a shutdown, an event is lost only by a failure of the database or a shutdown that is counted, or because ingestion refused it, and no record holds up the ones after it. |
| `Startup` | `UnchangedMeansFresh`, `SeededOnce`, `SeededWhole`, `EventuallyReloaded`, `EventuallyCoherent` | Instances that start side by side and again after failures seed the default rates, the default quotas and their rule files while another reloads its rules; and lookups of the default project race the watcher and the reconciler: the defaults are seeded in order, once and whole but for the named exceptions, an engine that sees no new version has the rules of the table, and a stale cache does not last, except for a tenant whose last project moved to another. |
| `EventHandlers` | `OneOwner`, `MetersAsConfigured` | Over events of every type with fields missing, null, of the wrong type or right, and over custom metrics files, one of which defines event types that have a handler, the raw event, the inventory and the metering entries of an event name one tenant and resource if the event names both itself, and the configured meters are metered. |

Runs that end in a counterexample: the property states what a document, comment,
message or test of the repository says, and the code does otherwise.

| Run | Property | What happens, and what it contradicts |
|---|---|---|
| `Wallet_double_credit` | `NoDoubleCredit` | TopUpWallet looks for the external_ref outside the transaction that credits the wallet and no unique index backs it, so two overlapping deliveries both credit; docs/poc_architecture/boundary_monitoring/wallet-spec-draft.md:546 says "Same `external_ref` does not double-credit" (Must), and docs/implementation-status.md:395 says "Idempotent top-ups / Done / Duplicate `external_ref` rejected". |
## Bounds

Each run has the fewest actors for which its question is not trivial: two
writers, engines, consumers, senders or reconciliations where the question is
about two of them; at least one batch boundary (`Batch`, `BatchSize` smaller than
the number of entries); at least one failure, and two or three where a retry can
fail in turn. `MaxClock` leaves room for a period before and after the
events that matter.

* `Wallet`: top-ups of 8 and costs of 5 and 6 in units of which 4 make one wallet unit,
  so that a balance covers one entry and part of the next, rounding falls on half
  a unit, and a remainder of 1 rounds to nothing. As tenants are interchangeable, `MCWallet` lets
  one of them be the first that is named; `MCStartup` does so with the versions of the
  rules directory. `Overlap` says whether two requests with one
  reference may be in flight together: `Wallet` says no, `Wallet_double_credit` yes.
* `Metering_usage`: every behaviour has one resource of any of the three kinds,
  since rows of different resources do not interact; one change of state, one
  failure of any kind, three instants. `Metering_converges` has two overlapping
  reconciliations and the collector's late heartbeats.
* `Rating`: eight entries over five meters, with flat, tiered, cumulative and
  unpriced usage, writers that commit out of order, entries across the end of a
  billing period, and batches of two. The report requests of `Reports` are the
  days and months of this calendar, with and without filters and groups, and the limits around
  the default and the maximum.
* `Quota`: `Plans` are the combinations asked for: administrators that race, an evaluation
  over the end of a window, an entitlement request, each with budgets beside usage quotas. `WindowsTile` covers 400
  days from 25 December 2023, so a whole leap year: every hour of the first ten days,
  then midnight and the hour before it.
* `Kafka`: three events of two sources, two members, and a log of four so that one
  record is duplicated.
* `Startup`: two instances that seed and one that rates, two rule files in two versions, two
  default rates and two default quotas; two tenants, two projects, one of which may move to
  another tenant, and a lookup that races with the watcher and the reconciler.
* `EventHandlers` handles one event per behaviour: its properties relate what
  one event wrote, and the breadth is in the events and the files: fields that are
  missing, null, of another type or right, paths of one to three parts, files that are
  refused, and one that defines event types which have a handler.

Runs say `CHECK_DEADLOCK FALSE` where the system may really stop: when all
senders have their answers (`Ingest`), when a finite supply of records is
consumed (`Kafka`), and when all instances are up and everything is loaded (`Startup`).

## Fairness

Liveness is checked under weak fairness of the steps a running goroutine takes
next: tickers fire again and every database or network call returns, with a
result or an error. Environment steps (top-ups, new events, failures, changes in
OSAC, window changes) are never assumed fair.

* `Wallet`: the deduction pass; restart of the process by its Deployment.
* `Ingest`: strong fairness of each request's steps, because a step waits for a
  row lock that another transaction may take again, and of the sender's retries;
  weak fairness of the abort with which PostgreSQL breaks a deadlock.
* `Metering`: watcher, reconnection, sweep, each reconciler pass.
* `Rating`, `Splunk`, `RuleEngine`: each instance's sweep. `Quota`: the evaluation of
  thresholds.
* `Kafka`: each consumer's loop, and assignment while the partition has no owner.
* `ProjectCache`: the reconciler's listing and the completion of lookups and
  upserts; not the watcher, whose stream may stay silent.
* `Startup`: the boot of each instance, up to the next failure.
* `Agent`: the emitter's goroutine while the process runs.

## Proofs

All proofs hold for every value of the constants that satisfies the named
`ASSUME` of the module.

**`IngestProof`** (from `IngestAssumption`)
* `ReceiptsAreEffects`: `Spec => []ReceiptsMatchEffects`, for any senders, batches,
  requests at a time and failures. `IngestInv` adds what an open transaction
  knows: nobody has committed a receipt it claimed, because whoever claims the same
  key waits for its lock, so two transactions never hold one key; every event before the
  current one is claimed or was found committed; and an event it serves is neither
  malformed nor too far in the future, which time does not undo.
* `IngestImplementsLog`: `Spec => ImplementsEventLog`, the refinement. A commit is
  the log's delivery of the batch, a final answer without one its refusal, and waits,
  aborts, timeouts, crashes and retries are stutters. The same invariant shows that a
  committed batch contradicts nothing stored and that a refused one was not stored,
  unless it was sent again when it had become too old.

**`WalletProof`** (from `WalletAssumption`)
* `WalletTypes`: `Spec => []TypeOK`. The inductive `TypeInv` adds what types do
  not say: a pass that holds a wallet holds an existing one, and entries still to
  visit are entries that exist.
* `LedgerCorrect`: `Spec => []LedgerExplainsBalance`. `LedgerInv` adds that every
  balance is a whole number of wallet units, from which the rounding lemmas bound
  what one row can be off.
* `FloorHolds`: without lost commit answers, `Spec => []FloorRespected`.
  `FloorInv` adds that, between reading the wallet and committing a deduction, the
  balance held in memory is at most the one in the table: top-ups only raise the
  latter, and the pass is the only one that lowers it.
* `NeverChargedTwice`: `Spec => []NeverOverApplied`. `ApplyInv` adds that what is
  still due of an entry to visit is what the table says remains.
* `CreditedOnce`: where no two deliveries of one reference overlap,
  `NoDoubleCredit` holds, for any wallets, requests and failures. `CreditInv` adds
  that a top-up under way carries a reference that no ledger row of its wallet has,
  and that no other request carries it: a retry begins after the one before it was
  answered or cut off. `Wallet_double_credit` shows that the premise is needed.

**`WalletBooksProof`** (from `WalletAssumption`)
* `BothSidesBooked`: `Spec => []AppliedIsDeducted`, for any wallets, tenants, amounts,
  precision and failures. `DeductInv` adds what makes the two sums move together.
  What was applied so far is a whole number of wallet units, so adding an amount and
  rounding is rounding and adding it (`RoundAdds`). The wallet of a pass and its
  entries have one tenant and something is due of each. A row names an entry of
  the tenant of its wallet, and neither tenant changes afterwards (`TenantsStay`),
  so that no row drops out of the sum or joins it later. The sums themselves rest on lemmas like those of
  `QuotaProof`, here with integers of either sign.

**`MeteringProof`** and **`MeteredOnceProof`** (from `MeteringAssumption`, which also
keeps `None` apart from resources, rows and times)
* `MeteringTypes`: `Spec => []TypeOK`, which includes that no empty period is ever
  inserted.
* `SweepLeavesNoGap`: `Spec => []NoGap`, for any resources, number of overlapping
  reconciliations and failures. `NoGap` is not inductive: `GapInv` adds that a
  row the sweep still has to visit is listed with the period start that the
  table has now, because only the sweep moves `last_metered_at` and an upsert
  keeps it, and that between the two statements for a row everything up to the
  start of the sweep is metered or its insert failed.
* `MeteredAtMostOnce`: `Spec => []MeteredOnce`, for any fleet. `OnceInv` is an account
  for each unit of time: how often it was metered, the final metering that is
  about to be inserted included, plus what the sweep and the DELETE events still to
  be handled may add, is at most one more than the failures, and one more again when
  the deletion raced. It needs to count the DELETE events of a resource in the
  stream, to know whether the unit lies behind `last_metered_at` or will when the
  sweep's update succeeds, and that an event which brings a row back to life is
  followed by a DELETE of a resource that is gone.

**`RatingProof`** (from the assumptions of `Rating`)
* `RatedStaysCosted`: no entry is marked as rated without a cost entry
  (`RatedIsCosted`), for any number of raters. `CostedInv` adds that a rater
  about to mark has stored the cost of everything in its batch.
* `ChargedOncePerFault`: with one rater an entry is charged at most once more than
  there were failures (`ChargedPerFault`). `ChargeInv` separates the entries a
  rater has fetched, stored and not yet marked from the others.

**`CursorsProof`**, two readers of a log that store how far they are (from
`KafkaAssumption` and the assumptions of `Splunk`)
* `CommitsOnlyHanded`: `Spec => []CommittedWasHanded`, for any members, reassignments
  and failures. `CommitInv` adds that the owner of the partition has accounted for all
  it polled before its present batch, and for the part of the batch before the
  record it is at; nothing is known of other members, which begin again at the
  committed offset.
* `LossTakesFailure`: `Spec => []LostPerFailure`. `FailInv` bounds the events that
  were handed over without effect and not refused by the failures of the database; with
  `CommitInv`, every other event behind the committed offset was abandoned by a
  shutdown, and a surjection from the abandoned records bounds their number.
* `CursorSafe`: in `Splunk`, with rows that become visible in the order of their ids, the
  cursor never passes a row that Splunk does not have (`CursorBehindSent`), for
  any number of forwarders. `CursorInv` adds that every batch held in memory has
  left out no visible row between its cursor and its greatest id; `InOrder` states
  the premise.
* `SentOncePerFault`: a lone forwarder sends a row at most once more than there were
  failures (`SentPerFault`). `SentInv` adds that what lies beyond both the stored and
  the held cursor, and is not in a batch just posted, was sent at most as often as
  there were failures: only a failure takes the cursor back.

**`QuotaProof`** (from `QuotaAssumption`: what a plan is made of; finitely many
kinds of usage entries, and limits that the create endpoint accepts)
* The lemmas `Total...` are about sums over a finite set: a sum does not depend on
  the order in which elements are picked, grows with its terms, and changes by an
  element's term when the element is taken out. Each is shown for a least set that
  would contradict it.
* `AlertsTrue`: `Spec => []AlertsOfTheirWindow`, for any quotas, usage, hours and
  failures. `ReportTrue` adds that an evaluation about to fire alerts holds a sum
  that was consumed in the window of its one reading of the clock, and has since
  only grown (`ConsumedGrows`), and levels which that sum has reached.
* `RefusalJustified`: `Spec => RefusedWhenUsedUp`, an action property. `SumTrue` adds
  that as long as the metered values of every quota whose sum was read are below its
  limit, the usage added up is below the limits added up, unless nothing was added up yet.
* `LoneWriteSafe`: `Spec => LoneWriteFits`, an action property, for any number of
  requests. `CheckedFits` adds that a request about to write that nobody has
  overtaken still fits: the sum of the other projects' limits, taken now, plus its
  own is at most the limit it read. `WriteFits` shows what the write makes of that
  sum when it appends a row, replaces one in force or replaces a deleted one.

Only model-checked: liveness under fairness, which the prover does not support;
what the recursive functions of tiers and calendars compute for every input
(`TiersAreGraduated`, `WindowsTile`), which needs an induction over data for each of
them; the price of a whole period and the reports (`PeriodBilledAsWhole`,
`ReportsAccount`), which rest on the former; `DeletionSettled`, whose account
follows a row through the lists that sweep and reconciler hold; and the safety
properties of `Agent`, `Startup`, `RuleEngine` and `EventHandlers`.

## Where code and documents disagree

`Wallet_double_credit` is a run of its own. Modelling met more places where the
code does other than a document or comment says; the models do what the code
does, and the properties name these cases as exceptions. Paths are relative to
`src/` and its `inventory-watcher/internal/` where the file is Go.

Wallets and rating:
* A deduction whose commit took effect but answered with an error leaves the pass
  with the old balance (`inventory/store.go:1609`); the next debit can pass the floor that
  `wallet-spec-draft.md:112` promises.
* `wallet_applied` has fewer decimals than `cost_amount` (`store.go:402`) and can
  round above it; `wallet-spec-draft.md:289` wants it never to.
* A remainder of a cost entry smaller than half a wallet unit is never paid: each pass
  debits it, the columns round it away, and a ledger row of amount 0 stays
  (`rating.go:284`, `store.go:1596`). `KeepsSettling` takes an entry for settled then.
* Cost entries and their marks are two statements (`rating/rating.go:172`), so a
  failed mark charges again; `docs/decisions/004-raw-events-no-unique-index.md:44`
  says "exactly once".
* Prior usage is what is visible with a smaller id and starts inside the period
  (`store.go:1782`): entries that commit out of order, or lie across the end of
  a period, are priced at the bottom of the tiers.
* A report's range is closed at both ends and both ends of an entry must lie in
  it (`store.go:1935`): on successive days, an instant at the end is in two reports and usage across the
  end in none. `GetCostReport` ignores `to` without `from`,
  `GetCostBreakdown` honours it, and a limit above the maximum becomes the default.
* Rules are stored without `.json` (`cmd/consumer/main.go:106`) and looked up with it
  (`rating.go:214`): the rater falls back to the static rate.

Metering and inventory:
* A deleted cluster has no final metering (`watcher/watcher.go:219`);
  `docs/decisions/001-metering-sweep-interval.md:36` says every DELETE does.
* The reconciler repairs existence, not state (`reconciler/reconciler.go:94`);
  `docs/ingestion-modes.md:25` says "stale inventory state".
* After a resume the time a resource was stopped is metered (`metering/metering.go:97`).
* A heartbeat meters its whole period whatever the sweep has metered (`api/handler.go:596`);
  `docs/decisions/003-heartbeat-emitter-vs-sweep.md:179` says "no double-counting".
* A DELETE delivered again meters the final period again: final metering does not move
  `last_metered_at`.

Ingestion:
* A replay of an event that has become too old is refused (`handler.go:431`);
  `osac-batch-ingest-contract.md:35` calls it "a successful no-op".
* A duration that is not positive fails inside the transaction with 500
  (`handler.go:579`), which makes the sender retry for ever.
* Several handlers take tenant and id from other fields than validation does
  (`handler.go:598`, `handler.go:446`, `custommetrics/custommetrics.go:282`); OSAC v1 inference
  is never metered (`handler.go:881`) and OSAC v1 VMs are not found by the sweep
  (`store.go:553`).
* A custom metric for an event type that has a handler "will be ignored", says the loader
  (`custommetrics.go:78`), and `docs/reviews/adversarial-review-v3.md:195` that `HasEventType`
  "returns false for known types". The definition is kept, and an event that does
  not name its resource takes its identity from it (`handler.go:446`): the raw event has
  an id, the row and the entries of the handler an empty one. `OneOwner` asks that
  the event names tenant and resource itself.
* A project that moves to another tenant drops the cache entry of the new tenant only
  (`store.go:814`): a tenant left without projects may keep the old one cached.
* The Kafka consumer commits the offset of an event that ingestion refuses, for instance
  because it waited in the topic until it was too old (`kafka/consumer.go:85`).
* The Kafka consumer commits a batch it has not handed over when it is stopped
  between poll and check (`kafka/consumer.go:58`); what the watcher hands off is not a CloudEvent and is
  refused (`watcher.go:81`).

Quotas, audit and agent:
* The overcommit check is three statements (`handler.go:1253`) and is not made for
  tenant-level quotas (`handler.go:1003`); alerts compare tenant usage with
  project limits (`rating.go:394`), and their key has neither project nor unit
  (`store.go:1826`); the entitlement check compares the limit of a budget, which is money,
  with metered values (`handler.go:1792`); the weekly label repeats at the turn of a year (`billing/period.go:94`).
* A raw event that commits after a larger id was sent is never sent to Splunk (`store.go:2115`).
* The agent reports a pod again from its start after a restart
  (`kube-cost-agent/internal/controller/controller.go:347`) or when its deletion falls into a sweep
  (`controller.go:351`), and loses what is in the channel on shutdown (`emitter.go:101`).

## Not modelled

`FindRate` (no caller) and the rate endpoints, with the effective dates of rates;
read-only queries other than cost reports and entitlements: lists of wallets, ledgers,
quotas, rates and inventory, the pipeline summary and the dashboards; plain upserts of
tenants, instance types, catalogue items and models by watcher and reconciler;
schema migration; authentication; the transport of the OSAC client;
configuration and Prometheus metrics; generated code; the load generators and
simulators. None of them takes part in a protocol with another component beyond
the tables the modules have, or they only format what is in those tables.
`PROJECT.json` gives the reason for each. The zen library that
evaluates a decision graph, PostgreSQL, the Kafka broker, Splunk, the Kubernetes
informer and the senders of events are external: they are modelled by how the
code uses them.

The components are composed where they share a table that both write
(`Metering`, `Quota` with usage, `Startup`, `Wallet` with cost entries). Ingestion,
metering, rating and wallets are not composed into one module: each hands over
to the next through committed rows only, which the later module takes in any
order that commits allow.
