------------------------------ MODULE Metering ------------------------------
(***************************************************************************)
(* Inventory and usage metering: the OSAC watcher, the reconciler, the     *)
(* metering sweep and the heartbeats of an external collector, all writing *)
(* the inventory tables and metering_entries of one database with          *)
(* separate autocommit statements.                                         *)
(*                                                                         *)
(* Time is cut into units.  A metering entry for [from, to) is kept as one *)
(* more count for each unit of the period, per source of the entry: what   *)
(* the properties tell apart is how often a unit of a resource was         *)
(* metered, and by whom.                                                   *)
(***************************************************************************)
EXTENDS Integers, Sequences

CONSTANTS
  Resources,   \* compute instances, clusters and bare metal instances
  Kinds,       \* the kinds of resource, in the order they are swept
  Reconcilers, \* passes of the reconciler that may overlap: ticker and trigger
  Enabled,     \* components that are not disabled
  MaxClock,    \* bound on the clock
  MaxChanges,  \* bound on the number of state changes in OSAC
  Faults,      \* which failures may happen
  MaxFaults,   \* bound on the number of failures
  None

Components == {"watcher", "reconciler", "metering", "collector"}

\* A metering insert fails; another statement or call fails; the process
\* dies; the event stream breaks; an event is delivered again.
FaultKinds == {"insert", "statement", "crash", "disconnect", "repeat"}

Times == 0..MaxClock

\* Rows of the inventory tables; event: who wrote the row last.
Rows == [up: BOOLEAN, created: Times, deleted: Times \cup {None}, last: Times \cup {None},
         event: {"watch", "reconcile", "collector"}]

ASSUME MeteringAssumption ==
  /\ Kinds \in Seq({"vm", "cluster", "bm"})
  /\ Enabled \subseteq Components /\ Faults \subseteq FaultKinds
  /\ MaxClock \in Nat /\ MaxChanges \in Nat /\ MaxFaults \in Nat
  /\ None \notin Nat /\ None \notin Rows /\ None \notin Resources

VARIABLES
  kindOf,      \* the kind of each resource: "vm", "cluster" or "bm"
  clock,
  osac,        \* the resources as OSAC knows them
  ran,         \* history: the units a resource was up in OSAC
  stream,      \* events on the watch connection
  connected,
  inv,         \* the inventory row of each resource, or None
  swept,       \* how often each unit was metered by the sweep
  final,       \* ... by final metering on DELETE
  beaten,      \* ... by a heartbeat of the collector
  skipped,     \* history: the units of inserts of the sweep that failed
  raced,       \* history: resources whose deletion overlapped a sweep or was undone
  watcher, sweep, recs, \* the goroutines
  changes, faults

world == <<kindOf, clock, osac, ran>>
feed == <<stream, connected>>
meters == <<swept, final, beaten, skipped, raced>>
vars == <<world, feed, inv, meters, watcher, sweep, recs, changes, faults>>

\* The goroutines between two events, sweeps or passes.
Waiting == [pc |-> "idle", r |-> None, from |-> 0, to |-> 0]
Resting == [pc |-> "idle", now |-> 0, kind |-> 0, todo |-> {}, r |-> None]
Between == [pc |-> "idle", kind |-> 0, create |-> {}, delete |-> {}]

Init ==
  /\ kindOf \in [Resources -> {"vm", "cluster", "bm"}]
  /\ clock = 0
  /\ osac = [r \in Resources |-> [there |-> "never", up |-> FALSE, steady |-> FALSE,
                                  created |-> 0, deleted |-> 0]]
  /\ ran = [r \in Resources |-> {}]
  /\ stream = <<>> /\ connected = TRUE
  /\ inv = [r \in Resources |-> None]
  /\ swept = [r \in Resources |-> [t \in Times |-> 0]]
  /\ final = swept /\ beaten = swept
  /\ skipped = [r \in Resources |-> {}] /\ raced = {}
  /\ watcher = Waiting /\ sweep = Resting /\ recs = [i \in Reconcilers |-> Between]
  /\ changes = 0 /\ faults = 0

\* Kinds without a resource are passed over: listing them finds nothing.
KindsInUse == SelectSeq(Kinds, LAMBDA k : \E r \in Resources : kindOf[r] = k)

\* A failure of one of the kinds this instance allows, within its budget.
Fault(kind) == kind \in Faults /\ faults < MaxFaults /\ faults' = faults + 1

-----------------------------------------------------------------------------
(***************************************************************************)
(* The inventory tables.                                                   *)
(***************************************************************************)
Alive(row) == row # None /\ row.deleted = None

\* INSERT ... ON CONFLICT DO UPDATE: the row becomes alive, and keeps
\* created_at and last_metered_at.
Upsert(r, up, created, event) ==
  inv' = [inv EXCEPT ![r] =
            IF inv[r] = None
            THEN [up |-> up, created |-> created, deleted |-> None, last |-> None, event |-> event]
            ELSE [inv[r] EXCEPT !.up = up, !.deleted = None, !.event = event]]

MarkDeleted(r, at, event) ==
  inv' = IF Alive(inv[r])
         THEN [inv EXCEPT ![r] = [inv[r] EXCEPT !.deleted = at, !.event = event]] ELSE inv

\* Bug: only the first sweep of a row moves its last_metered_at.
UpdateLastMeteredFirst(r, at) ==
  inv' = IF inv[r] # None /\ inv[r].last = None
         THEN [inv EXCEPT ![r] = [inv[r] EXCEPT !.last = at]] ELSE inv

UpdateLastMetered(r, at) ==
  inv' = IF inv[r] = None THEN inv ELSE [inv EXCEPT ![r] = [inv[r] EXCEPT !.last = at]]

\* Where the next metering period of a row starts.
PeriodStart(row) == IF row.last = None THEN row.created ELSE row.last

\* InsertMeteringEntryBatch, for the period [from, to).
Metered(f, r, from, to) ==
  [f EXCEPT ![r] = [t \in Times |-> f[r][t] + (IF from <= t /\ t < to THEN 1 ELSE 0)]]

-----------------------------------------------------------------------------
(***************************************************************************)
(* OSAC: resources come, change state and go; each step is announced on    *)
(* the watch connection, if there is one.                                  *)
(***************************************************************************)
Announce(r, type, o) ==
  stream' = IF connected /\ "watcher" \in Enabled
            THEN Append(stream, [type |-> type, r |-> r, up |-> o.up,
                                 created |-> o.created, at |-> o.deleted])
            ELSE stream

Become(r, type, o) ==
  /\ osac' = [osac EXCEPT ![r] = o]
  /\ Announce(r, type, o)
  /\ UNCHANGED <<kindOf, clock, ran, connected, inv, meters, watcher, sweep, recs, faults>>

Provision(r) ==
  /\ osac[r].there = "never"
  /\ \E up \in BOOLEAN :
       Become(r, "put", [osac[r] EXCEPT !.there = "yes", !.up = up, !.steady = up,
                                        !.created = clock])
  /\ UNCHANGED changes

Change(r) ==
  /\ osac[r].there = "yes" /\ changes < MaxChanges /\ changes' = changes + 1
  /\ Become(r, "put", [osac[r] EXCEPT !.up = ~osac[r].up, !.steady = FALSE])

Remove(r) ==
  /\ osac[r].there = "yes"
  /\ Become(r, "del", [osac[r] EXCEPT !.there = "gone", !.deleted = clock])
  /\ UNCHANGED changes

Tick ==
  /\ clock < MaxClock /\ clock' = clock + 1
  /\ ran' = [r \in Resources |-> IF osac[r].there = "yes" /\ osac[r].up
                                 THEN ran[r] \cup {clock} ELSE ran[r]]
  /\ UNCHANGED <<kindOf, osac, feed, inv, meters, watcher, sweep, recs, changes, faults>>

-----------------------------------------------------------------------------
(***************************************************************************)
(* The watcher handles one event at a time.  (It also stores the raw       *)
(* event, which nothing here reads; Kafka has its hand-off to a producer.) *)
(***************************************************************************)
WatchEvent == watcher.pc = "idle" /\ stream # <<>> /\ stream' = Tail(stream)

UpsertOf(event) == Upsert(event.r, event.up, event.created, "watch")

\* Created and updated: one upsert, whose error is only logged.
HandleCreateOrUpdate ==
  /\ WatchEvent /\ Head(stream).type = "put"
  /\ \/ UpsertOf(Head(stream)) /\ UNCHANGED faults
     \/ UNCHANGED inv /\ Fault("statement")
  /\ UNCHANGED <<world, connected, meters, watcher, sweep, recs, changes>>

\* Bug: instances are deleted the way clusters are.
HandleDeletePlain ==
  /\ WatchEvent /\ Head(stream).type = "del"
  /\ watcher' = [pc |-> "mark", r |-> Head(stream).r, from |-> 0, to |-> Head(stream).at]
  /\ UNCHANGED <<world, connected, inv, meters, sweep, recs, changes, faults>>

\* A row has usage for the final metering: it is in the inventory, deleted or
\* not, in a billable state, and was not metered up to its deletion.
FinalDue(row, at) == row # None /\ row.up /\ PeriodStart(row) < at

\* The sweep has listed the row and not moved its last_metered_at.
InSweep(r) == sweep.r = r \/ \E x \in sweep.todo : x.r = r

\* Deleted: a cluster is marked; an instance is read for its final metering.
HandleDelete ==
  /\ WatchEvent /\ Head(stream).type = "del"
  /\ LET r == Head(stream).r  at == Head(stream).at IN
     \/ /\ kindOf[r] # "cluster" /\ FinalDue(inv[r], at)
        /\ watcher' = [pc |-> "final", r |-> r, from |-> PeriodStart(inv[r]), to |-> at]
        /\ raced' = raced \cup {s \in {r} : InSweep(s)}
        /\ UNCHANGED faults
     \/ /\ kindOf[r] = "cluster" \/ ~FinalDue(inv[r], at)
        /\ watcher' = [pc |-> "mark", r |-> r, from |-> 0, to |-> at]
        /\ UNCHANGED <<raced, faults>>
     \/ /\ kindOf[r] # "cluster" /\ Fault("statement")
        /\ watcher' = [pc |-> "mark", r |-> r, from |-> 0, to |-> at]
        /\ UNCHANGED raced
  /\ UNCHANGED <<world, connected, inv, swept, final, beaten, skipped, sweep, recs, changes>>

MeterFinal ==
  /\ watcher.pc = "final"
  /\ watcher' = [watcher EXCEPT !.pc = "mark", !.from = 0]
  /\ \/ final' = Metered(final, watcher.r, watcher.from, watcher.to) /\ UNCHANGED faults
     \/ Fault("insert") /\ UNCHANGED final
  /\ UNCHANGED <<world, feed, inv, swept, beaten, skipped, raced, sweep, recs, changes>>

WatchMark ==
  /\ watcher.pc = "mark" /\ watcher' = Waiting
  /\ \/ MarkDeleted(watcher.r, watcher.to, "watch") /\ UNCHANGED faults
     \/ Fault("statement") /\ UNCHANGED inv
  /\ UNCHANGED <<world, feed, meters, sweep, recs, changes>>

Watch == HandleCreateOrUpdate \/ HandleDelete \/ MeterFinal \/ WatchMark

-----------------------------------------------------------------------------
(***************************************************************************)
(* The metering sweep: for each kind, list the billable rows, then insert  *)
(* the entries of each and move its last_metered_at, both with the time    *)
(* the sweep started.                                                      *)
(***************************************************************************)
StartSweep ==
  /\ "metering" \in Enabled /\ sweep.pc = "idle"
  /\ sweep' = [Resting EXCEPT !.pc = "list", !.now = clock, !.kind = 1]
  /\ UNCHANGED <<world, feed, inv, meters, watcher, recs, changes, faults>>

BillableRows(kind) == {r \in Resources : kindOf[r] = kind /\ Alive(inv[r]) /\ inv[r].up}
BillableComputeInstances == BillableRows("vm")
BillableClusters == BillableRows("cluster")
BillableBareMetalInstances == BillableRows("bm")

\* The rows with a period that has not been metered, and the start of it.
Due(rows) ==
  {x \in {[r |-> r, from |-> PeriodStart(inv[r])] : r \in rows} : x.from < sweep.now}

\* The sweep goes on with the next row, the next kind, or ends.
Onward(s) ==
  CASE s.todo # {}           -> [s EXCEPT !.pc = "insert", !.r = None]
    [] s.kind = Len(KindsInUse)   -> Resting
    [] OTHER                 -> [s EXCEPT !.pc = "list", !.kind = s.kind + 1, !.r = None]

\* A kind whose rows cannot be listed is left to the next sweep.
ListBillable(rows) ==
  /\ sweep.pc = "list"
  /\ \/ /\ sweep' = Onward([sweep EXCEPT !.todo = Due(rows)])
        /\ raced' = raced \cup {r \in rows : watcher.r = r}
        /\ UNCHANGED faults
     \/ sweep' = Onward(sweep) /\ Fault("statement") /\ UNCHANGED raced
  /\ UNCHANGED <<world, feed, inv, swept, final, beaten, skipped, watcher, recs, changes>>

SweepInsert ==
  /\ sweep.pc = "insert"
  /\ \E x \in sweep.todo :
       /\ sweep' = [sweep EXCEPT !.pc = "update", !.todo = sweep.todo \ {x}, !.r = x.r]
       /\ \/ swept' = Metered(swept, x.r, x.from, sweep.now) /\ UNCHANGED <<skipped, faults>>
          \/ /\ Fault("insert") /\ UNCHANGED swept
             /\ skipped' = [skipped EXCEPT ![x.r] = @ \cup x.from..(sweep.now - 1)]
  /\ UNCHANGED <<world, feed, inv, final, beaten, raced, watcher, recs, changes>>

\* Bug: last_metered_at is set to the time of the update.
SweepUpdateLate ==
  /\ sweep.pc = "update" /\ sweep' = Onward(sweep)
  /\ UpdateLastMetered(sweep.r, clock)
  /\ UNCHANGED <<world, feed, meters, watcher, recs, changes, faults>>

SweepUpdate ==
  /\ sweep.pc = "update" /\ sweep' = Onward(sweep)
  /\ \/ UpdateLastMetered(sweep.r, sweep.now) /\ UNCHANGED faults
     \/ Fault("statement") /\ UNCHANGED inv
  /\ UNCHANGED <<world, feed, meters, watcher, recs, changes>>

\* The functions for the three kinds have the same steps.
Meter(kind, rows) ==
  /\ sweep.pc # "idle" /\ KindsInUse[sweep.kind] = kind
  /\ ListBillable(rows) \/ SweepInsert \/ SweepUpdate

MeterComputeInstances == Meter("vm", BillableComputeInstances)
MeterClusters == Meter("cluster", BillableClusters)
MeterBareMetalInstances == Meter("bm", BillableBareMetalInstances)

Sweep == StartSweep \/ MeterComputeInstances \/ MeterClusters \/ MeterBareMetalInstances

-----------------------------------------------------------------------------
(***************************************************************************)
(* A pass of the reconciler: for each kind, list OSAC, then the inventory, *)
(* then create what only OSAC has and mark what only the inventory has.    *)
(***************************************************************************)
Pass(i, p) == recs' = [recs EXCEPT ![i] = p]

NextKind(p) ==
  IF p.kind = Len(KindsInUse) THEN Between ELSE [Between EXCEPT !.pc = "list", !.kind = p.kind + 1]

\* A pass with nothing left to repair goes on with the next kind.
Settled(p) == IF p.create = {} /\ p.delete = {} THEN NextKind(p) ELSE p

StartReconcile(i) ==
  /\ "reconciler" \in Enabled /\ recs[i].pc = "idle"
  /\ Pass(i, [Between EXCEPT !.pc = "list", !.kind = 1])
  /\ UNCHANGED <<world, feed, inv, meters, watcher, sweep, changes, faults>>

\* The list of OSAC is kept in create until the inventory is listed.
ListOsac(i) ==
  /\ recs[i].pc = "list"
  /\ \/ /\ Pass(i, [recs[i] EXCEPT !.pc = "known", !.create =
                     {[r |-> r, up |-> osac[r].up, created |-> osac[r].created] :
                        r \in {s \in Resources : kindOf[s] = KindsInUse[recs[i].kind]
                                                 /\ osac[s].there = "yes"}}])
        /\ UNCHANGED faults
     \/ Pass(i, NextKind(recs[i])) /\ Fault("statement")
  /\ UNCHANGED <<world, feed, inv, meters, watcher, sweep, changes>>

\* Bug: what only the inventory has stays.
OnlyKnownKept(known, seen) == {}

\* Missed DELETED events.
OnlyKnown(known, seen) == known \ {x.r : x \in seen}

AliveRows(kind) == {r \in Resources : kindOf[r] = kind /\ Alive(inv[r])}
ListAliveComputeInstances == AliveRows("vm")
ListAliveClusters == AliveRows("cluster")
ListAliveBareMetalInstances == AliveRows("bm")

ListKnown(i, known) ==
  /\ recs[i].pc = "known"
  /\ LET seen == recs[i].create
     IN \/ /\ Pass(i, Settled([recs[i] EXCEPT !.pc = "fix",
                                 !.create = {x \in seen : x.r \notin known},
                                 !.delete = OnlyKnown(known, seen)]))
           /\ UNCHANGED faults
        \/ Pass(i, NextKind(recs[i])) /\ Fault("statement")
  /\ UNCHANGED <<world, feed, inv, meters, watcher, sweep, changes>>

FixCreate(i) ==
  /\ recs[i].pc = "fix"
  /\ \E x \in recs[i].create :
       /\ Pass(i, Settled([recs[i] EXCEPT !.create = recs[i].create \ {x}]))
       /\ \/ /\ Upsert(x.r, x.up, x.created, "reconcile") /\ UNCHANGED faults
             /\ raced' = raced \cup {r \in {x.r} : inv[r] # None /\ inv[r].deleted # None}
          \/ Fault("statement") /\ UNCHANGED <<inv, raced>>
  /\ UNCHANGED <<world, feed, swept, final, beaten, skipped, watcher, sweep, changes>>

FixDelete(i) ==
  /\ recs[i].pc = "fix" /\ recs[i].create = {}
  /\ \E r \in recs[i].delete :
       /\ Pass(i, Settled([recs[i] EXCEPT !.delete = recs[i].delete \ {r}]))
       /\ \/ MarkDeleted(r, clock, "reconcile") /\ UNCHANGED faults
          \/ Fault("statement") /\ UNCHANGED inv
  /\ UNCHANGED <<world, feed, meters, watcher, sweep, changes>>

\* The functions for the three kinds have the same steps.
ReconcileKind(i, kind, known) ==
  /\ recs[i].pc # "idle" /\ KindsInUse[recs[i].kind] = kind
  /\ ListOsac(i) \/ ListKnown(i, known) \/ FixCreate(i) \/ FixDelete(i)

ReconcileComputeInstances(i) == ReconcileKind(i, "vm", ListAliveComputeInstances)
ReconcileClusters(i) == ReconcileKind(i, "cluster", ListAliveClusters)
ReconcileBareMetalInstances(i) == ReconcileKind(i, "bm", ListAliveBareMetalInstances)

ReconcileAll(i) ==
  \/ StartReconcile(i) \/ ReconcileComputeInstances(i) \/ ReconcileClusters(i)
  \/ ReconcileBareMetalInstances(i)

-----------------------------------------------------------------------------
(***************************************************************************)
(* The collector reports each unit a resource was up once, late and in any *)
(* order, with the states of the watch stream (EventHandlers has the short *)
(* forms too, which the sweep does not find).  A heartbeat is one          *)
(* transaction: upsert (compute instances only), metering entries,         *)
(* last_metered_at.                                                        *)
(***************************************************************************)
Heartbeat(r, from, to) ==
  /\ "collector" \in Enabled /\ kindOf[r] # "bm"
  /\ from < to /\ \A t \in from..(to - 1) : t \in ran[r] /\ beaten[r][t] = 0
  /\ beaten' = Metered(beaten, r, from, to)
  /\ CASE kindOf[r] = "cluster" -> UpdateLastMetered(r, to)
       [] inv[r] = None       -> inv' = [inv EXCEPT ![r] = [up |-> TRUE, created |-> from,
                                    deleted |-> None, last |-> to, event |-> "collector"]]
       [] OTHER               -> inv' = [inv EXCEPT ![r] = [inv[r] EXCEPT !.up = TRUE,
                                    !.deleted = None, !.last = to, !.event = "collector"]]
  /\ UNCHANGED <<world, feed, swept, final, skipped, raced, watcher, sweep, recs, changes,
                 faults>>

-----------------------------------------------------------------------------
\* Events that are announced while nobody is connected are not repeated.
Disconnect ==
  /\ connected /\ Fault("disconnect")
  /\ connected' = FALSE /\ stream' = <<>>
  /\ UNCHANGED <<world, inv, meters, watcher, sweep, recs, changes>>

Connect ==
  /\ ~connected /\ connected' = TRUE
  /\ UNCHANGED <<world, stream, inv, meters, watcher, sweep, recs, changes, faults>>

Repeat ==
  /\ stream # <<>> /\ Fault("repeat")
  /\ stream' = <<Head(stream)>> \o stream
  /\ UNCHANGED <<world, connected, inv, meters, watcher, sweep, recs, changes>>

Crash ==
  /\ Fault("crash")
  /\ connected' = FALSE /\ stream' = <<>>
  /\ watcher' = Waiting /\ sweep' = Resting /\ recs' = [i \in Reconcilers |-> Between]
  /\ UNCHANGED <<world, inv, meters, changes>>

Next ==
  \/ \E r \in Resources : Provision(r) \/ Change(r) \/ Remove(r)
  \/ Tick
  \/ Watch \/ Sweep
  \/ \E i \in Reconcilers : ReconcileAll(i)
  \/ \E r \in Resources, from, to \in Times : Heartbeat(r, from, to)
  \/ Disconnect \/ Connect \/ Repeat \/ Crash

Spec == Init /\ [][Next]_vars

(***************************************************************************)
(* The goroutines run: the watcher reads its stream and reconnects, a      *)
(* sweep and a reconciliation that started go on, and the ticker starts    *)
(* the next one.                                                           *)
(***************************************************************************)
Fairness ==
  /\ WF_vars(Watch) /\ WF_vars(Connect) /\ WF_vars(Sweep)
  /\ \A i \in Reconcilers : WF_vars(ReconcileAll(i))

FairSpec == Spec /\ Fairness

-----------------------------------------------------------------------------
Counts == [Resources -> [Times -> Nat]]

Objects == [there: {"never", "yes", "gone"}, up: BOOLEAN, steady: BOOLEAN,
            created: Times, deleted: Times]

Events == [type: {"put", "del"}, r: Resources, up: BOOLEAN, created: Times, at: Times]

WatcherStates == [pc: {"idle", "final", "mark"}, r: Resources \cup {None}, from: Times, to: Times]

SweepStates == [pc: {"idle", "list", "insert", "update"}, now: Times, kind: Nat,
                todo: SUBSET [r: Resources, from: Times], r: Resources \cup {None}]

PassStates == [pc: {"idle", "list", "known", "fix"}, kind: Nat,
               create: SUBSET [r: Resources, up: BOOLEAN, created: Times],
               delete: SUBSET Resources]

(***************************************************************************)
(* Types, and that a period handed to an insert is never empty: sweep and  *)
(* final metering skip a duration that is not positive.                    *)
(***************************************************************************)
TypeOK ==
  /\ kindOf \in [Resources -> {"vm", "cluster", "bm"}] /\ clock \in Times /\ osac \in [Resources -> Objects]
  /\ ran \in [Resources -> SUBSET Times] /\ skipped \in [Resources -> SUBSET Times]
  /\ raced \subseteq Resources
  /\ stream \in Seq(Events) /\ connected \in BOOLEAN
  /\ inv \in [Resources -> Rows \cup {None}]
  /\ swept \in Counts /\ final \in Counts /\ beaten \in Counts
  /\ watcher \in WatcherStates /\ (watcher.pc = "final" => watcher.from < watcher.to)
  /\ sweep \in SweepStates /\ \A x \in sweep.todo : x.from < sweep.now
  /\ recs \in [Reconcilers -> PassStates]
  /\ changes \in Nat /\ faults \in Nat

(***************************************************************************)
(* Sweep and final metering together meter no unit twice, unless           *)
(* last_metered_at could not be moved after the insert or a DELETE was     *)
(* delivered again, once for each failure, or the deletion raced: its      *)
(* final metering and a sweep both read the row before the other was done  *)
(* with it, or a reconciliation with a stale list brought the row back.    *)
(* (Instances without the collector, which also moves last_metered_at.)    *)
(***************************************************************************)
MeteredOnce ==
  "collector" \notin Enabled =>
    \A r \in Resources, t \in Times :
      swept[r][t] + final[r][t] <= 1 + faults + (IF r \in raced THEN 1 ELSE 0)

(***************************************************************************)
(* The sweep leaves no gap behind last_metered_at, whatever crashes and    *)
(* however long it takes, except for the period of an insert that failed   *)
(* (last_metered_at moves all the same).                                   *)
(***************************************************************************)
NoGap ==
  /\ TypeOK
  /\ "collector" \notin Enabled =>
       \A r \in Resources : inv[r] # None /\ inv[r].last # None =>
         \A t \in inv[r].created..(inv[r].last - 1) : swept[r][t] > 0 \/ t \in skipped[r]

(***************************************************************************)
(* An instance that was up from its creation to its deletion, and whose    *)
(* DELETE event the watcher has handled, is metered for all of its life:   *)
(* final metering closes the gap that the last sweep left, wherever that   *)
(* sweep was at the time.  (Instances without the collector: a heartbeat   *)
(* moves last_metered_at past units whose own heartbeat is still to come.) *)
(***************************************************************************)
DeletionSettled ==
  "collector" \notin Enabled =>
    \A r \in Resources :
      /\ kindOf[r] # "cluster" /\ osac[r].steady /\ faults = 0
      /\ inv[r] # None /\ inv[r].deleted # None /\ inv[r].event = "watch"
      => \A t \in ran[r] : swept[r][t] + final[r][t] > 0

(***************************************************************************)
(* Once OSAC stops changing, the inventory comes to hold exactly the       *)
(* resources that OSAC has: the reconciler makes up for lost events, for   *)
(* its own stale lists and for heartbeats that arrive late.                *)
(***************************************************************************)
ExistenceConverges ==
  <>[](\A r \in Resources : Alive(inv[r]) <=> osac[r].there = "yes")
=============================================================================
