--------------------------- MODULE MeteringProof ----------------------------
(***************************************************************************)
(* Metering without gaps and without overlaps, for any fleet, number of    *)
(* overlapping reconciliations and failures.                               *)
(***************************************************************************)
EXTENDS Metering, TLAPS

-----------------------------------------------------------------------------
(***************************************************************************)
(* Types.                                                                  *)
(***************************************************************************)
\* What the three functions of the sweep do, whatever the kind.
LEMMA SweepSteps ==
  ASSUME Sweep
  PROVE  \/ StartSweep \/ SweepInsert \/ SweepUpdate
         \/ \E kind \in {"vm", "cluster", "bm"} : ListBillable(BillableRows(kind))
  BY DEF Sweep, MeterComputeInstances, MeterClusters, MeterBareMetalInstances, Meter,
         BillableComputeInstances, BillableClusters, BillableBareMetalInstances

\* What the three functions of a reconciliation do, whatever the kind.
LEMMA ReconcileSteps ==
  ASSUME NEW i \in Reconcilers, ReconcileAll(i)
  PROVE  \/ StartReconcile(i) \/ ListOsac(i) \/ FixCreate(i) \/ FixDelete(i)
         \/ \E kind \in {"vm", "cluster", "bm"} : ListKnown(i, AliveRows(kind))
  BY DEF ReconcileAll, ReconcileComputeInstances, ReconcileClusters,
         ReconcileBareMetalInstances, ReconcileKind, ListAliveComputeInstances,
         ListAliveClusters, ListAliveBareMetalInstances

LEMMA TimesAreNat == Times \subseteq Nat /\ 0 \in Times
  BY MeteringAssumption DEF Times

\* The goroutines at rest.
LEMMA RestTypes == Waiting \in WatcherStates /\ Waiting.pc = "idle"
                   /\ Resting \in SweepStates /\ Resting.todo = {} /\ Resting.pc = "idle"
                   /\ Between \in PassStates
  BY TimesAreNat DEF Waiting, Resting, Between, WatcherStates, SweepStates, PassStates

LEMMA FaultGrows == ASSUME NEW kind, faults \in Nat, Fault(kind) PROVE faults' \in Nat
  BY MeteringAssumption DEF Fault

\* One more count for some units.
LEMMA MeteredCounts ==
  ASSUME NEW f \in Counts, NEW r, NEW from, NEW to
  PROVE  Metered(f, r, from, to) \in Counts
<1> DEFINE g == [t \in Times |-> f[r][t] + (IF from <= t /\ t < to THEN 1 ELSE 0)]
<1>1. r \in Resources => g \in [Times -> Nat]
  <2> SUFFICES ASSUME r \in Resources, NEW t \in Times
               PROVE  f[r][t] + (IF from <= t /\ t < to THEN 1 ELSE 0) \in Nat
    OBVIOUS
  <2>1. f[r][t] \in Nat
    BY DEF Counts
  <2> QED BY <2>1
<1>2. Metered(f, r, from, to) = [f EXCEPT ![r] = g]
  BY DEF Metered
<1> HIDE DEF g
<1> QED BY <1>1, <1>2, Zenon DEF Counts

\* A unit of the period has one more count, every other as many as before.
LEMMA MeteredAdds ==
  ASSUME NEW f \in Counts, NEW r \in Resources, NEW from \in Times, NEW to \in Times
  PROVE  \A s \in Resources, t \in Times :
           /\ f[s][t] \in Nat
           /\ Metered(f, r, from, to)[s][t] = f[s][t]
              \/ Metered(f, r, from, to)[s][t] = f[s][t] + 1
           /\ s = r /\ from <= t /\ t < to => Metered(f, r, from, to)[s][t] = f[s][t] + 1
<1> SUFFICES ASSUME NEW s \in Resources, NEW t \in Times
             PROVE  /\ f[s][t] \in Nat
                    /\ Metered(f, r, from, to)[s][t] = f[s][t]
                       \/ Metered(f, r, from, to)[s][t] = f[s][t] + 1
                    /\ s = r /\ from <= t /\ t < to
                       => Metered(f, r, from, to)[s][t] = f[s][t] + 1
  OBVIOUS
<1>1. f[s][t] \in Nat
  BY DEF Counts
<1>2. CASE s = r
  <2>1. Metered(f, r, from, to)[s] = [u \in Times |-> f[r][u] + (IF from <= u /\ u < to THEN 1 ELSE 0)]
    BY <1>2 DEF Metered, Counts
  <2>2. Metered(f, r, from, to)[s][t] = f[s][t] + (IF from <= t /\ t < to THEN 1 ELSE 0)
    BY <1>2, <2>1
  <2> QED BY <1>1, <2>2
<1>3. CASE s # r
  BY <1>1, <1>3 DEF Metered, Counts
<1> QED BY <1>2, <1>3

LEMMA PeriodStartType == ASSUME NEW row \in Rows PROVE PeriodStart(row) \in Times
  BY DEF PeriodStart, Rows

\* The parts of the type invariant that the steps use.
LEMMA RowTypes == TypeOK => inv \in [Resources -> Rows \cup {None}]
  BY Zenon DEF TypeOK

LEMMA CountTypes == TypeOK => swept \in Counts /\ final \in Counts /\ faults \in Nat
  BY Zenon DEF TypeOK

LEMMA FeedTypes ==
  TypeOK => clock \in Times /\ osac \in [Resources -> Objects] /\ stream \in Seq(Events)
  BY Zenon DEF TypeOK

LEMMA PassTypes ==
  TypeOK => /\ watcher \in WatcherStates /\ sweep \in SweepStates
            /\ recs \in [Reconcilers -> PassStates]
  BY Zenon DEF TypeOK

LEMMA HeadIsEvent ==
  ASSUME TypeOK, WatchEvent
  PROVE  Head(stream) \in Events
<1>1. stream \in Seq(Events) /\ stream # <<>>
  BY Zenon DEF TypeOK, WatchEvent
<1> QED BY <1>1

\* What a sweep takes from the rows it lists.
LEMMA DueRows ==
  ASSUME TypeOK, NEW kind, NEW x \in Due(BillableRows(kind))
  PROVE  /\ x \in [r: Resources, from: Times] /\ x.r \in BillableRows(kind)
         /\ inv[x.r] # None /\ Alive(inv[x.r])
         /\ x.from = PeriodStart(inv[x.r]) /\ x.from < sweep.now
<1>1. PICK r \in BillableRows(kind) : x = [r |-> r, from |-> PeriodStart(inv[r])]
  BY DEF Due
<1>2. r \in Resources /\ inv[r] # None /\ Alive(inv[r])
  BY Zenon DEF BillableRows, Alive
<1>3. PeriodStart(inv[r]) \in Times
  BY <1>2, RowTypes, PeriodStartType
<1> QED BY <1>1, <1>2, <1>3 DEF Due

LEMMA UpsertType ==
  ASSUME inv \in [Resources -> Rows \cup {None}], NEW r, NEW up \in BOOLEAN,
         NEW created \in Times, NEW event \in {"watch", "reconcile"}, Upsert(r, up, created, event)
  PROVE  inv' \in [Resources -> Rows \cup {None}]
  BY Zenon DEF Upsert, Rows

LEMMA MarkType ==
  ASSUME inv \in [Resources -> Rows \cup {None}], NEW r, NEW at \in Times,
         NEW event \in {"watch", "reconcile"}, MarkDeleted(r, at, event)
  PROVE  inv' \in [Resources -> Rows \cup {None}]
  BY Zenon DEF MarkDeleted, Alive, Rows

LEMMA LastType ==
  ASSUME inv \in [Resources -> Rows \cup {None}], NEW r, NEW at \in Times,
         UpdateLastMetered(r, at)
  PROVE  inv' \in [Resources -> Rows \cup {None}]
  BY Zenon DEF UpdateLastMetered, Rows

\* The part of TypeOK about the sweep.
SweepOK(s) == s \in SweepStates /\ \A x \in s.todo : x.from < s.now

\* The three ways a sweep goes on.
LEMMA OnwardWays ==
  ASSUME NEW s
  PROVE  \/ Onward(s) = [s EXCEPT !.pc = "insert", !.r = None]
         \/ Onward(s) = Resting
         \/ Onward(s) = [s EXCEPT !.pc = "list", !.kind = s.kind + 1, !.r = None]
  BY DEF Onward

LEMMA OnwardType == ASSUME NEW s, SweepOK(s) PROVE SweepOK(Onward(s))
<1>1. SweepOK([s EXCEPT !.pc = "insert", !.r = None])
  BY Zenon DEF SweepOK, SweepStates
<1>2. SweepOK(Resting)
  BY RestTypes DEF SweepOK
<1>3. SweepOK([s EXCEPT !.pc = "list", !.kind = s.kind + 1, !.r = None])
  <2> DEFINE k == s.kind + 1
  <2>1. k \in Nat
    BY DEF SweepOK, SweepStates
  <2> HIDE DEF k
  <2>2. SweepOK([s EXCEPT !.pc = "list", !.kind = k, !.r = None])
    BY <2>1, Zenon DEF SweepOK, SweepStates
  <2> QED BY <2>2 DEF k
<1> QED BY <1>1, <1>2, <1>3, OnwardWays, Zenon

LEMMA NextKindType == ASSUME NEW p \in PassStates PROVE NextKind(p) \in PassStates
<1>1. p.kind + 1 \in Nat
  BY DEF PassStates
<1>2. [Between EXCEPT !.pc = "list", !.kind = p.kind + 1] \in PassStates
  BY <1>1, RestTypes, Zenon DEF PassStates
<1> QED BY <1>2, RestTypes DEF NextKind

LEMMA SettledType == ASSUME NEW p \in PassStates PROVE Settled(p) \in PassStates
  BY NextKindType DEF Settled

LEMMA TypeInit == Init => TypeOK
<1> SUFFICES ASSUME Init PROVE TypeOK
  OBVIOUS
<1>1. swept \in Counts /\ final \in Counts /\ beaten \in Counts
  BY DEF Init, Counts
<1>2. osac \in [Resources -> Objects]
  BY TimesAreNat DEF Init, Objects
<1>3. recs \in [Reconcilers -> PassStates]
  BY RestTypes DEF Init
<1> QED BY <1>1, <1>2, <1>3, RestTypes, TimesAreNat DEF Init, TypeOK

LEMMA TypeNext == TypeOK /\ [Next]_vars => TypeOK'
<1> SUFFICES ASSUME TypeOK, [Next]_vars PROVE TypeOK'
  OBVIOUS
<1> USE DEF world, feed, meters
<1>1. ASSUME NEW r \in Resources, NEW type \in {"put", "del"}, NEW o \in Objects,
             Become(r, type, o), changes' \in Nat
      PROVE  TypeOK'
  <2>1. osac' \in [Resources -> Objects]
    BY <1>1 DEF Become, TypeOK
  <2>2. [type |-> type, r |-> r, up |-> o.up, created |-> o.created, at |-> o.deleted] \in Events
    BY DEF Events, Objects
  <2>3. stream' \in Seq(Events)
    BY <1>1, <2>2 DEF Become, Announce, TypeOK
  <2> QED BY <1>1, <2>1, <2>3 DEF Become, TypeOK
<1>2. ASSUME NEW r \in Resources, Provision(r) PROVE TypeOK'
  <2>1. PICK up \in BOOLEAN :
          Become(r, "put", [osac[r] EXCEPT !.there = "yes", !.up = up, !.steady = up,
                                           !.created = clock])
    BY <1>2, Zenon DEF Provision
  <2>2. [osac[r] EXCEPT !.there = "yes", !.up = up, !.steady = up, !.created = clock] \in Objects
    BY Zenon DEF TypeOK, Objects
  <2> QED BY <1>1, <1>2, <2>1, <2>2 DEF Provision, TypeOK
<1>3. ASSUME NEW r \in Resources, Change(r) PROVE TypeOK'
  <2>1. [osac[r] EXCEPT !.up = ~osac[r].up, !.steady = FALSE] \in Objects
    BY Zenon DEF TypeOK, Objects
  <2> QED BY <1>1, <1>3, <2>1 DEF Change, TypeOK
<1>4. ASSUME NEW r \in Resources, Remove(r) PROVE TypeOK'
  <2>1. [osac[r] EXCEPT !.there = "gone", !.deleted = clock] \in Objects
    BY Zenon DEF TypeOK, Objects
  <2> QED BY <1>1, <1>4, <2>1 DEF Remove, TypeOK
<1>5. CASE Tick
  <2>1. clock' \in Times
    BY <1>5, MeteringAssumption DEF Tick, TypeOK, Times
  <2>2. ran' \in [Resources -> SUBSET Times]
    BY <1>5 DEF Tick, TypeOK
  <2> QED BY <1>5, <2>1, <2>2 DEF Tick, TypeOK
<1>6. ASSUME WatchEvent
      PROVE  stream' \in Seq(Events) /\ Head(stream) \in Events
  BY <1>6 DEF WatchEvent, TypeOK
<1>7. CASE HandleCreateOrUpdate
  <2>1. stream' \in Seq(Events) /\ Head(stream) \in Events
    BY <1>6, <1>7 DEF HandleCreateOrUpdate
  <2>2. inv' \in [Resources -> Rows \cup {None}]
    BY <1>7, <2>1, UpsertType, Zenon DEF HandleCreateOrUpdate, UpsertOf, TypeOK, Events
  <2>3. faults' \in Nat
    BY <1>7, FaultGrows DEF HandleCreateOrUpdate, TypeOK
  <2> QED BY <1>7, <2>1, <2>2, <2>3 DEF HandleCreateOrUpdate, TypeOK
<1>8. CASE HandleDelete
  <2> DEFINE r == Head(stream).r
             at == Head(stream).at
  <2>1. stream' \in Seq(Events) /\ r \in Resources /\ at \in Times
    BY <1>6, <1>8 DEF HandleDelete, Events
  <2>2. inv[r] \in Rows \cup {None}
    BY <2>1 DEF TypeOK
  <2>3. FinalDue(inv[r], at) => PeriodStart(inv[r]) \in Times /\ PeriodStart(inv[r]) < at
    BY <2>2, PeriodStartType DEF FinalDue
  <2>4. /\ watcher' \in WatcherStates
        /\ watcher'.pc = "final" => watcher'.from < watcher'.to
    BY <1>8, <2>1, <2>3, TimesAreNat DEF HandleDelete, WatcherStates
  <2>5. raced' \subseteq Resources
    BY <1>8, <2>1 DEF HandleDelete, TypeOK
  <2>6. faults' \in Nat
    BY <1>8, FaultGrows DEF HandleDelete, TypeOK
  <2> QED BY <1>8, <2>1, <2>4, <2>5, <2>6 DEF HandleDelete, TypeOK
<1>9. CASE MeterFinal
  <2>1. final' \in Counts
    BY <1>9, MeteredCounts DEF MeterFinal, TypeOK
  <2>2. watcher' \in WatcherStates /\ watcher'.pc = "mark"
    BY <1>9, TimesAreNat, Zenon DEF MeterFinal, TypeOK, WatcherStates
  <2>3. faults' \in Nat
    BY <1>9, FaultGrows DEF MeterFinal, TypeOK
  <2> QED BY <1>9, <2>1, <2>2, <2>3 DEF MeterFinal, TypeOK
<1>10. CASE WatchMark
  <2>1. inv' \in [Resources -> Rows \cup {None}]
    BY <1>10, MarkType DEF WatchMark, TypeOK, WatcherStates
  <2>2. faults' \in Nat
    BY <1>10, FaultGrows DEF WatchMark, TypeOK
  <2> QED BY <1>10, <2>1, <2>2, RestTypes DEF WatchMark, TypeOK
<1>11. CASE StartSweep
  <2>1. SweepOK(sweep')
    BY <1>11, RestTypes, Zenon DEF StartSweep, TypeOK, SweepOK, SweepStates
  <2> QED BY <1>11, <2>1 DEF StartSweep, TypeOK, SweepOK
<1>12. ASSUME NEW kind, ListBillable(BillableRows(kind)) PROVE TypeOK'
  <2>1. SweepOK(sweep)
    BY DEF TypeOK, SweepOK
  <2>2. Due(BillableRows(kind)) \subseteq {x \in [r: Resources, from: Times] : x.from < sweep.now}
    BY DueRows
  <2>3. SweepOK([sweep EXCEPT !.todo = Due(BillableRows(kind))])
    BY <2>1, <2>2 DEF SweepOK, SweepStates
  <2>4. SweepOK(sweep')
    BY <1>12, <2>1, <2>3, OnwardType DEF ListBillable
  <2>5. raced' \subseteq Resources
    BY <1>12 DEF ListBillable, BillableRows, TypeOK
  <2>6. faults' \in Nat
    BY <1>12, FaultGrows DEF ListBillable, TypeOK
  <2> QED BY <1>12, <2>4, <2>5, <2>6 DEF ListBillable, TypeOK, SweepOK
<1>13. CASE SweepInsert
  <2>1. PICK x \in sweep.todo :
          /\ sweep' = [sweep EXCEPT !.pc = "update", !.todo = sweep.todo \ {x}, !.r = x.r]
          /\ \/ swept' = Metered(swept, x.r, x.from, sweep.now) /\ UNCHANGED <<skipped, faults>>
             \/ /\ Fault("insert") /\ UNCHANGED swept
                /\ skipped' = [skipped EXCEPT ![x.r] = @ \cup x.from..(sweep.now - 1)]
    BY <1>13, Zenon DEF SweepInsert
  <2>2. x \in [r: Resources, from: Times] /\ sweep.now \in Times
    BY DEF TypeOK, SweepStates
  <2>3. SweepOK(sweep')
    BY <2>1, <2>2, Zenon DEF TypeOK, SweepOK, SweepStates
  <2>4. swept' \in Counts
    BY <2>1, MeteredCounts DEF TypeOK
  <2>5. x.from..(sweep.now - 1) \subseteq Times
    BY <2>2, MeteringAssumption DEF Times
  <2>6. skipped' \in [Resources -> SUBSET Times]
    BY <2>1, <2>2, <2>5 DEF TypeOK
  <2>7. faults' \in Nat
    BY <2>1, FaultGrows DEF TypeOK
  <2> QED BY <1>13, <2>3, <2>4, <2>6, <2>7 DEF SweepInsert, TypeOK, SweepOK
<1>14. CASE SweepUpdate
  <2>1. SweepOK(sweep')
    BY <1>14, OnwardType DEF SweepUpdate, TypeOK, SweepOK
  <2>2. inv' \in [Resources -> Rows \cup {None}]
    BY <1>14, LastType DEF SweepUpdate, TypeOK, SweepStates
  <2>3. faults' \in Nat
    BY <1>14, FaultGrows DEF SweepUpdate, TypeOK
  <2> QED BY <1>14, <2>1, <2>2, <2>3 DEF SweepUpdate, TypeOK, SweepOK
<1>15. ASSUME NEW i \in Reconcilers, NEW p \in PassStates, Pass(i, p)
       PROVE  recs' \in [Reconcilers -> PassStates]
  BY <1>15 DEF Pass, TypeOK
<1>16. ASSUME NEW i \in Reconcilers, StartReconcile(i) PROVE TypeOK'
  <2>1. [Between EXCEPT !.pc = "list", !.kind = 1] \in PassStates
    BY RestTypes, Zenon DEF PassStates
  <2>2. recs' \in [Reconcilers -> PassStates]
    BY <1>15, <1>16, <2>1 DEF StartReconcile
  <2> QED BY <1>16, <2>2 DEF StartReconcile, TypeOK
<1>17. ASSUME NEW i \in Reconcilers, ListOsac(i) PROVE TypeOK'
  <2> DEFINE seen == {[r |-> r, up |-> osac[r].up, created |-> osac[r].created] :
                        r \in {s \in Resources : kindOf[s] = KindsInUse[recs[i].kind]
                                                 /\ osac[s].there = "yes"}}
  <2>1. seen \subseteq [r: Resources, up: BOOLEAN, created: Times]
    BY DEF TypeOK, Objects
  <2> HIDE DEF seen
  <2>2. recs[i] \in PassStates /\ [recs[i] EXCEPT !.pc = "known", !.create = seen] \in PassStates
    BY <2>1, Zenon DEF TypeOK, PassStates
  <2>3. \/ Pass(i, [recs[i] EXCEPT !.pc = "known", !.create = seen]) /\ UNCHANGED faults
        \/ Pass(i, NextKind(recs[i])) /\ Fault("statement")
    BY <1>17 DEF ListOsac, seen
  <2>4. recs' \in [Reconcilers -> PassStates]
    BY <1>15, <2>2, <2>3, NextKindType
  <2>5. faults' \in Nat
    BY <2>3, FaultGrows DEF TypeOK
  <2> QED BY <1>17, <2>4, <2>5 DEF ListOsac, TypeOK
<1>18. ASSUME NEW i \in Reconcilers, NEW kind, ListKnown(i, AliveRows(kind)) PROVE TypeOK'
  <2> DEFINE seen == recs[i].create
             found == [recs[i] EXCEPT !.pc = "fix",
                         !.create = {x \in seen : x.r \notin AliveRows(kind)},
                         !.delete = OnlyKnown(AliveRows(kind), seen)]
  <2>1. OnlyKnown(AliveRows(kind), seen) \subseteq Resources
    BY DEF OnlyKnown, AliveRows
  <2>2. recs[i] \in PassStates /\ found \in PassStates
    BY <2>1, Zenon DEF TypeOK, PassStates
  <2>3. \/ Pass(i, Settled(found)) /\ UNCHANGED faults
        \/ Pass(i, NextKind(recs[i])) /\ Fault("statement")
    BY <1>18 DEF ListKnown
  <2> HIDE DEF found
  <2>4. recs' \in [Reconcilers -> PassStates]
    BY <1>15, <2>2, <2>3, NextKindType, SettledType
  <2>5. faults' \in Nat
    BY <2>3, FaultGrows DEF TypeOK
  <2> QED BY <1>18, <2>4, <2>5 DEF ListKnown, TypeOK
<1>19. ASSUME NEW i \in Reconcilers, FixCreate(i) PROVE TypeOK'
  <2>1. PICK x \in recs[i].create :
          /\ Pass(i, Settled([recs[i] EXCEPT !.create = recs[i].create \ {x}]))
          /\ \/ /\ Upsert(x.r, x.up, x.created, "reconcile") /\ UNCHANGED faults
                /\ raced' = raced \cup {r \in {x.r} : inv[r] # None /\ inv[r].deleted # None}
             \/ Fault("statement") /\ UNCHANGED <<inv, raced>>
    BY <1>19, Zenon DEF FixCreate
  <2>2. x \in [r: Resources, up: BOOLEAN, created: Times]
    BY DEF TypeOK, PassStates
  <2>3. [recs[i] EXCEPT !.create = recs[i].create \ {x}] \in PassStates
    BY Zenon DEF TypeOK, PassStates
  <2>4. recs' \in [Reconcilers -> PassStates]
    BY <1>15, <2>1, <2>3, SettledType
  <2>5. inv' \in [Resources -> Rows \cup {None}]
    BY <2>1, <2>2, UpsertType, Zenon DEF TypeOK
  <2>6. raced' \subseteq Resources
    BY <2>1, <2>2 DEF TypeOK
  <2>7. faults' \in Nat
    BY <2>1, FaultGrows DEF TypeOK
  <2> QED BY <1>19, <2>4, <2>5, <2>6, <2>7 DEF FixCreate, TypeOK
<1>20. ASSUME NEW i \in Reconcilers, FixDelete(i) PROVE TypeOK'
  <2>1. PICK r \in recs[i].delete :
          /\ Pass(i, Settled([recs[i] EXCEPT !.delete = recs[i].delete \ {r}]))
          /\ \/ MarkDeleted(r, clock, "reconcile") /\ UNCHANGED faults
             \/ Fault("statement") /\ UNCHANGED inv
    BY <1>20 DEF FixDelete
  <2>2. [recs[i] EXCEPT !.delete = recs[i].delete \ {r}] \in PassStates
    BY Zenon DEF TypeOK, PassStates
  <2>3. recs' \in [Reconcilers -> PassStates]
    BY <1>15, <2>1, <2>2, SettledType
  <2>4. inv' \in [Resources -> Rows \cup {None}]
    BY <2>1, MarkType DEF TypeOK
  <2>5. faults' \in Nat
    BY <2>1, FaultGrows DEF TypeOK
  <2> QED BY <1>20, <2>3, <2>4, <2>5 DEF FixDelete, TypeOK
<1>21. ASSUME NEW r \in Resources, NEW from \in Times, NEW to \in Times, Heartbeat(r, from, to)
       PROVE  TypeOK'
  <2>1. beaten' \in Counts
    BY <1>21, MeteredCounts DEF Heartbeat, TypeOK
  <2>2. \/ UpdateLastMetered(r, to)
        \/ inv' = [inv EXCEPT ![r] = [up |-> TRUE, created |-> from, deleted |-> None,
                                      last |-> to, event |-> "collector"]]
        \/ inv[r] # None /\ inv' = [inv EXCEPT ![r] = [inv[r] EXCEPT !.up = TRUE,
                                      !.deleted = None, !.last = to, !.event = "collector"]]
    BY <1>21 DEF Heartbeat
  <2>3. [up |-> TRUE, created |-> from, deleted |-> None, last |-> to, event |-> "collector"] \in Rows
    BY DEF Rows
  <2>4. inv[r] # None => [inv[r] EXCEPT !.up = TRUE, !.deleted = None, !.last = to,
                                        !.event = "collector"] \in Rows
    BY Zenon DEF TypeOK, Rows
  <2>5. inv' \in [Resources -> Rows \cup {None}]
    BY <2>2, <2>3, <2>4, LastType, Zenon DEF TypeOK
  <2> QED BY <1>21, <2>1, <2>5 DEF Heartbeat, TypeOK
<1>22. CASE Disconnect
  <2>1. stream' \in Seq(Events) /\ connected' \in BOOLEAN
    <3>1. stream' = <<>> /\ connected' = FALSE
      BY <1>22, Zenon DEF Disconnect
    <3>2. <<>> \in Seq(Events)
      OBVIOUS
    <3> QED BY <3>1, <3>2, Zenon
  <2>2. faults' \in Nat
    BY <1>22, FaultGrows DEF Disconnect, TypeOK
  <2> QED BY <1>22, <2>1, <2>2 DEF Disconnect, TypeOK
<1>23. CASE Connect
  BY <1>23 DEF Connect, TypeOK
<1>24. CASE Repeat
  <2>1. stream' \in Seq(Events)
    BY <1>24 DEF Repeat, TypeOK
  <2> QED BY <1>24, <2>1, FaultGrows DEF Repeat, TypeOK
<1>25. CASE Crash
  <2>1. recs' \in [Reconcilers -> PassStates]
    BY <1>25, RestTypes DEF Crash
  <2>2. stream' \in Seq(Events) /\ connected' \in BOOLEAN
    <3>1. stream' = <<>> /\ connected' = FALSE
      BY <1>25, Zenon DEF Crash
    <3>2. <<>> \in Seq(Events)
      OBVIOUS
    <3> QED BY <3>1, <3>2, Zenon
  <2>3. faults' \in Nat
    BY <1>25, FaultGrows DEF Crash, TypeOK
  <2> QED BY <1>25, <2>1, <2>2, <2>3, RestTypes DEF Crash, TypeOK
<1>26. CASE UNCHANGED vars
  BY <1>26 DEF vars, TypeOK
<1> QED BY <1>2, <1>3, <1>4, <1>5, <1>7, <1>8, <1>9, <1>10, <1>11, <1>12, <1>13, <1>14, <1>16,
           <1>17, <1>18, <1>19, <1>20, <1>21, <1>22, <1>23, <1>24, <1>25, <1>26,
           SweepSteps, ReconcileSteps DEF Next, Watch

(***************************************************************************)
(* Every reachable state of inventory and metering is well formed, and no  *)
(* empty period is ever handed to an insert (the duration checks of the    *)
(* sweep and of final metering).                                           *)
(***************************************************************************)
THEOREM MeteringTypes == Spec => []TypeOK
  BY TypeInit, TypeNext, PTL DEF Spec

-----------------------------------------------------------------------------
(***************************************************************************)
(* No gaps.  What the sweep has listed starts where last_metered_at is     *)
(* when the sweep gets to it: nobody else moves last_metered_at, and an    *)
(* upsert keeps it and created_at.                                         *)
(***************************************************************************)
Covered(r, from, to) == \A t \in from..(to - 1) : swept[r][t] > 0 \/ t \in skipped[r]

GapInv ==
  /\ \A r \in Resources : inv[r] # None => Covered(r, inv[r].created, PeriodStart(inv[r]))
  /\ \A x \in sweep.todo : inv[x.r] # None /\ x.from = PeriodStart(inv[x.r])
  /\ sweep.pc = "update" =>
       /\ sweep.r \in Resources /\ inv[sweep.r] # None
       /\ Covered(sweep.r, PeriodStart(inv[sweep.r]), sweep.now)
       /\ \A x \in sweep.todo : x.r # sweep.r

\* Rows stay, with their created_at and last_metered_at, and start unmetered.
RowsKept ==
  \A r \in Resources :
    /\ inv[r] # None => /\ inv'[r] # None
                        /\ inv'[r].created = inv[r].created /\ inv'[r].last = inv[r].last
    /\ inv[r] = None /\ inv'[r] # None => inv'[r].last = None

LEMMA UpsertKeeps ==
  ASSUME TypeOK, NEW r, NEW up \in BOOLEAN, NEW created \in Times,
         NEW event \in {"watch", "reconcile"}, Upsert(r, up, created, event)
  PROVE  RowsKept
<1> DEFINE first == [up |-> up, created |-> created, deleted |-> None, last |-> None, event |-> event]
           next == [inv[r] EXCEPT !.up = up, !.deleted = None, !.event = event]
<1>1. r \in Resources /\ inv[r] # None =>
        next \in Rows /\ next.created = inv[r].created /\ next.last = inv[r].last
  BY Zenon DEF TypeOK, Rows
<1>2. first.last = None
  OBVIOUS
<1>3. inv' = [inv EXCEPT ![r] = IF inv[r] = None THEN first ELSE next]
  BY DEF Upsert
<1> HIDE DEF first, next
<1> QED BY <1>1, <1>2, <1>3, MeteringAssumption DEF RowsKept, TypeOK

LEMMA MarkKeeps ==
  ASSUME TypeOK, NEW r, NEW at \in Times, NEW event \in {"watch", "reconcile"},
         MarkDeleted(r, at, event)
  PROVE  RowsKept
  BY MeteringAssumption, Zenon DEF MarkDeleted, Alive, RowsKept, TypeOK, Rows

LEMMA GapInit == Init => GapInv
<1> SUFFICES ASSUME Init PROVE GapInv
  OBVIOUS
<1> QED BY RestTypes DEF Init, GapInv

\* Steps that leave the sweep's counts and last_metered_at alone.
LEMMA GapKept ==
  ASSUME TypeOK, TypeOK', GapInv, RowsKept, UNCHANGED <<swept, skipped>>,
         \/ UNCHANGED sweep
         \/ sweep'.todo = {} /\ sweep'.pc # "update"
  PROVE  GapInv'
<1>1. ASSUME NEW r \in Resources, inv[r] # None
      PROVE  inv'[r] # None /\ PeriodStart(inv'[r]) = PeriodStart(inv[r])
  BY <1>1 DEF RowsKept, PeriodStart
<1>2. ASSUME NEW r \in Resources, inv'[r] # None
      PROVE  Covered(r, inv[r].created, PeriodStart(inv[r]))'
  <2>1. CASE inv[r] # None
    BY <1>1, <2>1 DEF GapInv, RowsKept, Covered
  <2>2. CASE inv[r] = None
    <3>1. PeriodStart(inv'[r]) = inv'[r].created
      BY <1>2, <2>2 DEF RowsKept, PeriodStart
    <3>2. inv'[r].created \in Nat
      BY <1>2, TimesAreNat, Zenon DEF TypeOK, Rows
    <3> QED BY <3>1, <3>2 DEF Covered
  <2> QED BY <2>1, <2>2
<1>3. CASE UNCHANGED sweep
  <2>1. \A x \in sweep.todo : x.r \in Resources
    BY DEF TypeOK, SweepStates
  <2>2. \A x \in sweep.todo : inv'[x.r] # None /\ x.from = PeriodStart(inv'[x.r])
    BY <1>1, <2>1 DEF GapInv
  <2>3. sweep.pc = "update" =>
          /\ sweep.r \in Resources /\ inv'[sweep.r] # None
          /\ Covered(sweep.r, PeriodStart(inv[sweep.r]), sweep.now)'
          /\ \A x \in sweep.todo : x.r # sweep.r
    BY <1>1, <1>3 DEF GapInv, Covered
  <2> QED BY <1>2, <1>3, <2>2, <2>3 DEF GapInv
<1>4. CASE sweep'.todo = {} /\ sweep'.pc # "update"
  BY <1>2, <1>4 DEF GapInv
<1> QED BY <1>3, <1>4

LEMMA OnwardKeeps ==
  ASSUME NEW s \in SweepStates
  PROVE  Onward(s).todo \subseteq s.todo /\ Onward(s).pc # "update"
  BY RestTypes DEF Onward, SweepStates

LEMMA GapNext ==
  ASSUME "collector" \notin Enabled, TypeOK, TypeOK', GapInv, [Next]_vars
  PROVE  GapInv'
<1> USE DEF world, feed, meters
<1>1. UNCHANGED inv => RowsKept
  BY DEF RowsKept
<1>2. ASSUME NEW r \in Resources, Provision(r) \/ Change(r) \/ Remove(r) PROVE GapInv'
  BY <1>1, <1>2, GapKept, Zenon DEF Provision, Change, Remove, Become
<1>3. CASE Tick \/ MeterFinal \/ Connect \/ Disconnect \/ Repeat
  BY <1>1, <1>3, GapKept DEF Tick, MeterFinal, Connect, Disconnect, Repeat
<1>4. CASE HandleCreateOrUpdate
  <2>1. WatchEvent => Head(stream) \in Events
    BY HeadIsEvent
  <2>2. RowsKept
    BY <1>1, <1>4, <2>1, UpsertKeeps DEF HandleCreateOrUpdate, UpsertOf, Events
  <2> QED BY <1>4, <2>2, GapKept DEF HandleCreateOrUpdate
<1>5. CASE HandleDelete
  BY <1>1, <1>5, GapKept DEF HandleDelete
<1>6. CASE WatchMark
  <2>1. RowsKept
    BY <1>1, <1>6, MarkKeeps DEF WatchMark, TypeOK, WatcherStates
  <2> QED BY <1>6, <2>1, GapKept DEF WatchMark
<1>7. CASE StartSweep
  <2>1. sweep'.todo = {} /\ sweep'.pc # "update"
    BY <1>7 DEF StartSweep, Resting
  <2> QED BY <1>1, <1>7, <2>1, GapKept DEF StartSweep
<1>8. ASSUME NEW kind, ListBillable(BillableRows(kind)) PROVE GapInv'
  <2> DEFINE due == Due(BillableRows(kind))
             listed == [sweep EXCEPT !.todo = due]
  <2>1. \A x \in due : inv[x.r] # None /\ x.from = PeriodStart(inv[x.r])
                       /\ x \in [r: Resources, from: Times]
    BY DueRows
  <2>2. sweep \in SweepStates /\ listed \in SweepStates /\ listed.todo = due
    BY <2>1, Zenon DEF TypeOK, SweepStates
  <2> HIDE DEF due
  <2>3. sweep' = Onward(listed) \/ sweep' = Onward(sweep)
    BY <1>8 DEF ListBillable, due
  <2> HIDE DEF listed
  <2>4. sweep'.todo \subseteq due \cup sweep.todo /\ sweep'.pc # "update"
    BY <2>2, <2>3, OnwardKeeps
  <2>5. \A x \in sweep'.todo : inv[x.r] # None /\ x.from = PeriodStart(inv[x.r])
    BY <2>1, <2>4 DEF GapInv
  <2> QED BY <1>8, <2>4, <2>5 DEF ListBillable, GapInv, Covered
<1>9. CASE SweepInsert
  <2>1. PICK x \in sweep.todo :
          /\ sweep' = [sweep EXCEPT !.pc = "update", !.todo = sweep.todo \ {x}, !.r = x.r]
          /\ \/ swept' = Metered(swept, x.r, x.from, sweep.now) /\ UNCHANGED <<skipped, faults>>
             \/ /\ Fault("insert") /\ UNCHANGED swept
                /\ skipped' = [skipped EXCEPT ![x.r] = @ \cup x.from..(sweep.now - 1)]
    BY <1>9, Zenon DEF SweepInsert
  <2>2. /\ x \in [r: Resources, from: Times] /\ sweep.now \in Times
        /\ sweep.todo \subseteq [r: Resources, from: Times]
    BY DEF TypeOK, SweepStates
  <2>3. /\ sweep'.todo = sweep.todo \ {x} /\ sweep'.r = x.r /\ sweep'.now = sweep.now
        /\ inv' = inv
    BY <1>9, <2>1, Zenon DEF SweepInsert, TypeOK, SweepStates
  <2>4. ASSUME NEW r \in Resources, NEW t \in Times, swept[r][t] > 0 \/ t \in skipped[r]
        PROVE  swept'[r][t] > 0 \/ t \in skipped'[r]
    <3>1. CASE swept' = Metered(swept, x.r, x.from, sweep.now) /\ UNCHANGED skipped
      <4>1. swept[r][t] \in Nat /\ (swept'[r][t] = swept[r][t] \/ swept'[r][t] = swept[r][t] + 1)
        <5>1. swept \in Counts /\ x.r \in Resources /\ x.from \in Times
          BY <2>2 DEF TypeOK
        <5>2. \A s \in Resources, u \in Times :
                /\ swept[s][u] \in Nat
                /\ Metered(swept, x.r, x.from, sweep.now)[s][u] = swept[s][u]
                   \/ Metered(swept, x.r, x.from, sweep.now)[s][u] = swept[s][u] + 1
          BY <2>2, <5>1, MeteredAdds
        <5> QED BY <3>1, <5>2
      <4> QED BY <2>4, <3>1, <4>1
    <3>2. CASE UNCHANGED swept
               /\ skipped' = [skipped EXCEPT ![x.r] = @ \cup x.from..(sweep.now - 1)]
      BY <2>4, <3>2 DEF TypeOK
    <3> QED BY <2>1, <3>1, <3>2
  <2>5. ASSUME NEW t \in x.from..(sweep.now - 1)
        PROVE  swept'[x.r][t] > 0 \/ t \in skipped'[x.r]
    <3>1. t \in Times /\ x.from <= t /\ t < sweep.now
      BY <2>2, MeteringAssumption DEF Times
    <3>3. CASE swept' = Metered(swept, x.r, x.from, sweep.now)
      <4>1. swept[x.r][t] \in Nat /\ swept'[x.r][t] = swept[x.r][t] + 1
        <5>1. swept \in Counts /\ x.r \in Resources /\ x.from \in Times
          BY <2>2 DEF TypeOK
        <5>2. ASSUME NEW r \in Resources, NEW from \in Times, NEW to \in Times,
                     from <= t, t < to
              PROVE  swept[r][t] \in Nat /\ Metered(swept, r, from, to)[r][t] = swept[r][t] + 1
          BY <3>1, <5>1, <5>2, MeteredAdds
        <5> QED BY <2>2, <3>1, <3>3, <5>1, <5>2
      <4> QED BY <4>1
    <3>4. CASE skipped' = [skipped EXCEPT ![x.r] = @ \cup x.from..(sweep.now - 1)]
      BY <2>2, <3>4 DEF TypeOK
    <3> QED BY <2>1, <3>3, <3>4
  <2>6. ASSUME NEW r \in Resources, inv[r] # None
        PROVE  Covered(r, inv[r].created, PeriodStart(inv[r]))'
    <3>1. inv[r].created \in Times /\ PeriodStart(inv[r]) \in Times
      BY <2>6, PeriodStartType DEF TypeOK, Rows
    <3>2. inv[r].created..(PeriodStart(inv[r]) - 1) \subseteq Times
      BY <3>1, MeteringAssumption DEF Times
    <3>3. Covered(r, inv[r].created, PeriodStart(inv[r]))
      BY <2>6 DEF GapInv
    <3> QED BY <2>3, <2>4, <3>2, <3>3 DEF Covered
  <2>7. \A y \in sweep.todo \ {x} : y.r # x.r
    BY <2>2 DEF GapInv
  <2>8. inv[x.r] # None /\ x.from = PeriodStart(inv[x.r])
    BY DEF GapInv
  <2>9. Covered(sweep.r, PeriodStart(inv[sweep.r]), sweep.now)'
    BY <2>3, <2>5, <2>8 DEF Covered
  <2> QED BY <2>2, <2>3, <2>6, <2>7, <2>8, <2>9 DEF GapInv
<1>10. CASE SweepUpdate
  <2>1. PICK r \in Resources : r = sweep.r
    BY <1>10 DEF SweepUpdate, GapInv
  <2>2. /\ inv[r] # None /\ inv[r] \in Rows /\ Covered(r, PeriodStart(inv[r]), sweep.now)
        /\ \A x \in sweep.todo : x.r # r
        /\ Covered(r, inv[r].created, PeriodStart(inv[r]))
    BY <1>10, <2>1 DEF SweepUpdate, GapInv, TypeOK
  <2>3. /\ sweep \in SweepStates /\ sweep.now \in Times /\ sweep' = Onward(sweep)
        /\ swept' = swept /\ skipped' = skipped
    BY <1>10 DEF SweepUpdate, TypeOK, SweepStates
  <2>4. sweep'.todo \subseteq sweep.todo /\ sweep'.pc # "update"
    BY <2>3, OnwardKeeps
  <2>5. CASE inv' = inv
    BY <2>3, <2>4, <2>5, Zenon DEF GapInv, Covered
  <2>6. CASE UpdateLastMetered(r, sweep.now)
    <3> DEFINE row == [inv[r] EXCEPT !.last = sweep.now]
    <3>1. inv' = [inv EXCEPT ![r] = row]
      BY <2>2, <2>6 DEF UpdateLastMetered
    <3>2. row.created = inv[r].created /\ row.last = sweep.now /\ sweep.now # None
      BY <2>2, <2>3, TimesAreNat, MeteringAssumption DEF Rows
    <3> HIDE DEF row
    <3>3. inv'[r].created = inv[r].created /\ PeriodStart(inv'[r]) = sweep.now
      BY <3>1, <3>2 DEF TypeOK, PeriodStart
    <3>4. \A s \in Resources : s # r => inv'[s] = inv[s]
      BY <3>1 DEF TypeOK
    <3>5. Covered(r, inv[r].created, PeriodStart(inv[r]))'
      <4>1. inv[r].created \in Nat /\ PeriodStart(inv[r]) \in Nat /\ sweep.now \in Nat
        BY <2>2, <2>3, PeriodStartType, TimesAreNat, Zenon DEF Rows
      <4>2. Covered(r, inv[r].created, sweep.now)
        BY <2>2, <4>1 DEF Covered
      <4> QED BY <2>3, <3>3, <4>2 DEF Covered
    <3>6. ASSUME NEW s \in Resources, inv'[s] # None
          PROVE  Covered(s, inv[s].created, PeriodStart(inv[s]))'
      <4>1. CASE s = r
        BY <3>5, <4>1
      <4>2. CASE s # r
        BY <2>3, <3>4, <3>6, <4>2 DEF GapInv, Covered
      <4> QED BY <4>1, <4>2
    <3>7. \A x \in sweep'.todo : inv'[x.r] # None /\ x.from = PeriodStart(inv'[x.r])
      BY <2>2, <2>3, <2>4, <3>4 DEF GapInv, SweepStates
    <3> QED BY <2>4, <3>6, <3>7 DEF GapInv
  <2> QED BY <1>10, <2>1, <2>5, <2>6 DEF SweepUpdate
<1>11. ASSUME NEW i \in Reconcilers,
              \/ StartReconcile(i) \/ ListOsac(i)
              \/ \E kind \in {"vm", "cluster", "bm"} : ListKnown(i, AliveRows(kind))
       PROVE  GapInv'
  BY <1>1, <1>11, GapKept DEF StartReconcile, ListOsac, ListKnown
<1>12. ASSUME NEW i \in Reconcilers, FixCreate(i) PROVE GapInv'
  <2>1. \A x \in recs[i].create : x.up \in BOOLEAN /\ x.created \in Times
    BY DEF TypeOK, PassStates
  <2>2. RowsKept
    BY <1>1, <1>12, <2>1, UpsertKeeps DEF FixCreate
  <2> QED BY <1>12, <2>2, GapKept DEF FixCreate
<1>13. ASSUME NEW i \in Reconcilers, FixDelete(i) PROVE GapInv'
  <2>1. RowsKept
    BY <1>1, <1>13, MarkKeeps DEF FixDelete, TypeOK
  <2> QED BY <1>13, <2>1, GapKept DEF FixDelete
<1>14. ASSUME NEW r \in Resources, NEW from \in Times, NEW to \in Times, Heartbeat(r, from, to)
       PROVE  GapInv'
  BY <1>14 DEF Heartbeat
<1>15. CASE Crash
  BY <1>1, <1>15, GapKept, RestTypes DEF Crash
<1>16. CASE UNCHANGED vars
  BY <1>1, <1>16, GapKept DEF vars
<1> QED BY <1>2, <1>3, <1>4, <1>5, <1>6, <1>7, <1>8, <1>9, <1>10, <1>11, <1>12, <1>13, <1>14,
           <1>15, <1>16, SweepSteps, ReconcileSteps DEF Next, Watch

(***************************************************************************)
(* For any fleet, kinds, reconcilers and failures, the sweep leaves no gap *)
(* between created_at and last_metered_at but for the periods whose insert *)
(* failed (meterComputeInstances and its siblings advance last_metered_at  *)
(* to the time the sweep started, not to the time of the update).          *)
(***************************************************************************)
THEOREM SweepLeavesNoGap == Spec => []NoGap
<1>1. Init => TypeOK /\ ("collector" \notin Enabled => GapInv)
  BY TypeInit, GapInit
<1>2. TypeOK /\ ("collector" \notin Enabled => GapInv) /\ [Next]_vars
      => TypeOK' /\ ("collector" \notin Enabled => GapInv)'
  BY TypeNext, GapNext
<1>3. TypeOK /\ ("collector" \notin Enabled => GapInv) => NoGap
  BY DEF GapInv, Covered, NoGap, PeriodStart
<1> QED BY <1>1, <1>2, <1>3, PTL DEF Spec

-----------------------------------------------------------------------------
(***************************************************************************)
(* Nothing twice.  d DELETE events of a resource are still to be handled,  *)
(* the one of a resource that is not deleted yet included: c[k] of them    *)
(* from place k of the stream on.                                          *)
(***************************************************************************)
IsDel(e, r) == e.type = "del" /\ e.r = r

Dels(r, d) ==
  \E c \in [1..(Len(stream) + 1) -> Nat] :
    /\ c[1] = d /\ c[Len(stream) + 1] = IF osac[r].there = "gone" THEN 0 ELSE 1
    /\ \A k \in 1..Len(stream) : c[k] = c[k + 1] + IF IsDel(stream[k], r) THEN 1 ELSE 0
    /\ \A j, k \in 1..(Len(stream) + 1) : j <= k => c[k] <= c[j]

(***************************************************************************)
(* How often a unit was metered, the final metering that is about to be    *)
(* inserted included; whether it is behind last_metered_at, or will be     *)
(* when the update of the sweep succeeds; and whether the sweep may come   *)
(* to it.                                                                  *)
(***************************************************************************)
Pending(r, t) ==
  IF watcher.pc = "final" /\ watcher.r = r /\ watcher.from <= t /\ t < watcher.to THEN 1 ELSE 0
Used(r, t) == swept[r][t] + final[r][t] + Pending(r, t)
Behind(r, t) ==
  \/ inv[r] # None /\ t < PeriodStart(inv[r])
  \/ sweep.pc = "update" /\ sweep.r = r /\ t < sweep.now
MaySweep(r) ==
  \/ inv[r] = None \/ \E x \in sweep.todo : x.r = r
  \/ Alive(inv[r]) /\ watcher.r # r

(***************************************************************************)
(* A unit that is not behind may still be metered by the sweep, or by each *)
(* DELETE event still to be handled; one DELETE and one sweep is one too   *)
(* many, which only a race brings about.  A unit that is behind keeps what *)
(* further deliveries of its DELETE have cost, since a failed update may   *)
(* bring it back.                                                          *)
(***************************************************************************)
Spare(r, t, d) ==
  IF Behind(r, t) THEN IF d = 0 THEN 0 ELSE d - 1
  ELSE IF d > 0 THEN d ELSE IF MaySweep(r) THEN 1 ELSE 0

Once(r, t, d) ==
  /\ Used(r, t) + d + (IF Behind(r, t) THEN 0 ELSE 1) <= 2 + faults
  /\ r \notin raced => Used(r, t) + Spare(r, t, d) <= 1 + faults

\* An event that brings a row back to life comes before a DELETE of the resource.
PutsFirst ==
  /\ stream # <<>> => connected /\ "watcher" \in Enabled
  /\ \A k \in 1..Len(stream) : stream[k].type = "put" =>
       \/ osac[stream[k].r].there = "yes"
       \/ \E j \in 1..Len(stream) : j > k /\ stream[j].type = "del" /\ stream[j].r = stream[k].r

\* The watcher at rest is at no resource, and the update of a sweep moves last_metered_at on.
AtRest == watcher.pc = "idle" => watcher.r = None
MovesOn == sweep.pc = "update" => PeriodStart(inv[sweep.r]) < sweep.now

OnceInv ==
  /\ \A r \in Resources : \E d \in Nat : Dels(r, d) /\ \A t \in Times : Once(r, t, d)
  /\ PutsFirst /\ AtRest /\ MovesOn

LEMMA OnceTypes ==
  ASSUME TypeOK, TypeOK', NEW r \in Resources, NEW t \in Times
  PROVE  /\ Used(r, t) \in Nat /\ faults \in Nat
         /\ Used(r, t)' \in Nat /\ faults' \in Nat
<1>1. swept[r][t] \in Nat /\ final[r][t] \in Nat /\ faults \in Nat
  BY DEF TypeOK, Counts
<1>2. swept'[r][t] \in Nat /\ final'[r][t] \in Nat /\ faults' \in Nat
  BY DEF TypeOK, Counts
<1>3. Pending(r, t) \in Nat /\ Pending(r, t)' \in Nat
  BY DEF Pending
<1>4. Used(r, t) \in Nat
  <2>1. \A a, b, c \in Nat : a + b + c \in Nat OBVIOUS
  <2>2. swept[r][t] + final[r][t] + Pending(r, t) \in Nat
    BY <1>1, <1>3, <2>1
  <2> QED BY <2>2 DEF Used
<1>5. Used(r, t)' \in Nat
  <2>1. \A a, b, c \in Nat : a + b + c \in Nat OBVIOUS
  <2>2. swept'[r][t] + final'[r][t] + Pending(r, t)' \in Nat
    BY <1>2, <1>3, <2>1
  <2> QED BY <2>2 DEF Used
<1> QED BY <1>1, <1>2, <1>4, <1>5

\* A step that meters nothing, brings no unit back and opens no way to meter one.
LEMMA OnceLight ==
  ASSUME NEW r \in Resources, NEW t \in Times, NEW d \in Nat, NEW m \in Nat,
         TypeOK, TypeOK', Once(r, t, d), faults <= faults',
         Used(r, t)' <= Used(r, t), m <= d, raced \subseteq raced',
         Behind(r, t) => Behind(r, t)',
         r \notin raced' /\ MaySweep(r)' => MaySweep(r) \/ d > 0
  PROVE  Once(r, t, m)'
<1>1. Used(r, t) \in Nat /\ faults \in Nat /\ Used(r, t)' \in Nat /\ faults' \in Nat
  BY OnceTypes
<1>2. (Used(r, t) + m + (IF Behind(r, t) THEN 0 ELSE 1) <= 2 + faults)'
  BY <1>1 DEF Once
<1>3. (r \notin raced => Used(r, t) + Spare(r, t, m) <= 1 + faults)'
  BY <1>1 DEF Once, Spare
<1> QED BY <1>2, <1>3 DEF Once

\* The same when no failure is counted.
LEMMA OnceSame ==
  ASSUME NEW r \in Resources, NEW t \in Times, NEW d \in Nat, TypeOK, TypeOK', Once(r, t, d),
         UNCHANGED faults, raced \subseteq raced', Used(r, t)' <= Used(r, t),
         Behind(r, t) => Behind(r, t)', r \notin raced' /\ MaySweep(r)' => MaySweep(r)
  PROVE  Once(r, t, d)'
<1>1. faults <= faults' /\ d <= d
  BY CountTypes
<1> QED BY <1>1, OnceLight, Zenon

\* A failure may bring one unit back or open one way.
LEMMA OnceFault ==
  ASSUME NEW r \in Resources, NEW t \in Times, NEW d \in Nat, NEW m \in Nat,
         TypeOK, TypeOK', Once(r, t, d), faults' = faults + 1,
         Used(r, t)' <= Used(r, t), m <= d, raced \subseteq raced'
  PROVE  Once(r, t, m)'
<1>1. Used(r, t) \in Nat /\ faults \in Nat /\ Used(r, t)' \in Nat /\ faults' \in Nat
  BY OnceTypes
<1>2. (Used(r, t) + m + (IF Behind(r, t) THEN 0 ELSE 1) <= 2 + faults)'
  BY <1>1 DEF Once
<1>3. (r \notin raced => Used(r, t) + Spare(r, t, m) <= 1 + faults)'
  BY <1>1 DEF Once, Spare
<1> QED BY <1>2, <1>3 DEF Once

\* A DELETE is delivered again.
LEMMA OnceAgain ==
  ASSUME NEW r \in Resources, NEW t \in Times, NEW d \in Nat, NEW m \in Nat,
         TypeOK, TypeOK', Once(r, t, d), faults' = faults + 1,
         Used(r, t)' = Used(r, t), m <= d + 1, raced' = raced,
         Behind(r, t)' <=> Behind(r, t), MaySweep(r)' <=> MaySweep(r)
  PROVE  Once(r, t, m)'
<1>1. Used(r, t) \in Nat /\ faults \in Nat /\ Used(r, t)' \in Nat /\ faults' \in Nat
  BY OnceTypes
<1>2. (Used(r, t) + m + (IF Behind(r, t) THEN 0 ELSE 1) <= 2 + faults)'
  BY <1>1 DEF Once
<1>3. (r \notin raced => Used(r, t) + Spare(r, t, m) <= 1 + faults)'
  BY <1>1 DEF Once, Spare
<1> QED BY <1>2, <1>3 DEF Once

\* Final metering takes the place of its DELETE; that the sweep cannot come too is
\* needed unless the deletion raced.
LEMMA OnceFinal ==
  ASSUME NEW r \in Resources, NEW t \in Times, NEW d \in Nat, NEW m \in Nat,
         TypeOK, TypeOK', Once(r, t, d), faults' = faults,
         Used(r, t)' <= Used(r, t) + 1, m = d - 1, raced \subseteq raced',
         Behind(r, t) => Behind(r, t)', r \notin raced' => ~Behind(r, t) /\ ~MaySweep(r)'
  PROVE  Once(r, t, m)'
<1>1. Used(r, t) \in Nat /\ faults \in Nat /\ Used(r, t)' \in Nat /\ faults' \in Nat
  BY OnceTypes
<1>2. (Used(r, t) + m + (IF Behind(r, t) THEN 0 ELSE 1) <= 2 + faults)'
  BY <1>1 DEF Once
<1>3. (r \notin raced => Used(r, t) + Spare(r, t, m) <= 1 + faults)'
  BY <1>1 DEF Once, Spare
<1> QED BY <1>2, <1>3 DEF Once

\* The sweep meters a unit that it leaves behind.
LEMMA OnceSwept ==
  ASSUME NEW r \in Resources, NEW t \in Times, NEW d \in Nat, NEW m \in Nat,
         TypeOK, TypeOK', Once(r, t, d), faults' = faults,
         Used(r, t)' <= Used(r, t) + 1, m = d, raced' = raced,
         ~Behind(r, t), Behind(r, t)', MaySweep(r)
  PROVE  Once(r, t, m)'
<1>1. Used(r, t) \in Nat /\ faults \in Nat /\ Used(r, t)' \in Nat /\ faults' \in Nat
  BY OnceTypes
<1>2. (Used(r, t) + m + (IF Behind(r, t) THEN 0 ELSE 1) <= 2 + faults)'
  BY <1>1 DEF Once
<1>3. (r \notin raced => Used(r, t) + Spare(r, t, m) <= 1 + faults)'
  BY <1>1 DEF Once, Spare
<1> QED BY <1>2, <1>3 DEF Once

\* Rows that keep created_at and last_metered_at keep what is behind them.
LEMMA BehindKept ==
  ASSUME RowsKept, NEW r \in Resources, NEW t, Behind(r, t),
         UNCHANGED sweep \/ sweep.pc # "update"
  PROVE  Behind(r, t)'
<1>1. inv[r] # None => inv'[r] # None /\ PeriodStart(inv'[r]) = PeriodStart(inv[r])
  BY DEF RowsKept, PeriodStart
<1> QED BY <1>1 DEF Behind

\* A final metering that is not under way counts for nothing.
LEMMA UsedKept ==
  ASSUME TypeOK, TypeOK', NEW r \in Resources, NEW t \in Times, UNCHANGED <<swept, final>>,
         UNCHANGED watcher \/ watcher'.pc # "final"
  PROVE  Used(r, t)' <= Used(r, t)
<1>1. swept[r][t] \in Nat /\ final[r][t] \in Nat
  BY DEF TypeOK, Counts
<1>2. Pending(r, t) \in Nat /\ Pending(r, t)' \in Nat /\ Pending(r, t)' <= Pending(r, t)
  BY DEF Pending
<1>3. \A a, b, c, d \in Nat : d <= c => a + b + d <= a + b + c
  OBVIOUS
<1> QED BY <1>1, <1>2, <1>3 DEF Used

\* The first event is handled.
LEMMA DelsTail ==
  ASSUME TypeOK, TypeOK', WatchEvent, UNCHANGED osac, NEW r \in Resources, NEW d \in Nat, Dels(r, d)
  PROVE  \E m \in Nat : Dels(r, m)' /\ m = d - IF IsDel(Head(stream), r) THEN 1 ELSE 0
<1>1. stream \in Seq(Events) /\ stream # <<>> /\ stream' = Tail(stream) /\ stream' \in Seq(Events)
  BY DEF WatchEvent, TypeOK
<1>2. PICK s, u \in Seq(Events) : s = stream /\ u = stream'
  BY <1>1
<1>3. /\ Len(s) \in Nat /\ Len(u) \in Nat /\ Len(s) = Len(u) + 1 /\ s[1] = Head(s)
      /\ \A k \in 1..Len(u) : u[k] = s[k + 1]
  BY <1>1, <1>2
<1>4. PICK c \in [1..(Len(s) + 1) -> Nat] :
        /\ c[1] = d /\ c[Len(s) + 1] = IF osac[r].there = "gone" THEN 0 ELSE 1
        /\ \A k \in 1..Len(s) : c[k] = c[k + 1] + IF IsDel(s[k], r) THEN 1 ELSE 0
        /\ \A j, k \in 1..(Len(s) + 1) : j <= k => c[k] <= c[j]
  BY <1>2 DEF Dels
<1> DEFINE b == [k \in 1..(Len(u) + 1) |-> c[k + 1]]
<1>5. b \in [1..(Len(u) + 1) -> Nat] /\ b[1] \in Nat /\ b[1] = d - IF IsDel(s[1], r) THEN 1 ELSE 0
  <2>1. \A k \in 1..(Len(u) + 1) : k + 1 \in 1..(Len(s) + 1) /\ c[k + 1] \in Nat
    BY <1>3
  <2>2. b \in [1..(Len(u) + 1) -> Nat] /\ b[1] = c[2] /\ b[1] \in Nat /\ 1 \in 1..Len(s)
    BY <1>3, <2>1
  <2>3. d = c[2] + IF IsDel(s[1], r) THEN 1 ELSE 0
    BY <1>4, <2>2
  <2> QED BY <2>2, <2>3
<1>6. b[Len(u) + 1] = c[Len(s) + 1]
  BY <1>3
<1>7. ASSUME NEW k \in 1..Len(u) PROVE b[k] = b[k + 1] + IF IsDel(u[k], r) THEN 1 ELSE 0
  <2>1. PICK i \in 1..Len(s) : i = k + 1
    BY <1>3
  <2>2. b[k] = c[i] /\ b[k + 1] = c[i + 1] /\ u[k] = s[i]
    BY <1>3, <2>1
  <2>3. c[i] = c[i + 1] + IF IsDel(s[i], r) THEN 1 ELSE 0
    BY <1>4
  <2> HIDE DEF b
  <2> QED BY <2>2, <2>3
<1>8. \A j, k \in 1..(Len(u) + 1) : j <= k => b[k] <= b[j]
  <2>1. \A k \in 1..(Len(u) + 1) : k + 1 \in 1..(Len(s) + 1) /\ b[k] = c[k + 1]
    BY <1>3
  <2> HIDE DEF b
  <2> QED BY <1>4, <2>1
<1> HIDE DEF b
<1>9. Dels(r, b[1])'
  BY <1>2, <1>4, <1>5, <1>6, <1>7, <1>8, Zenon DEF Dels
<1> QED BY <1>2, <1>3, <1>5, <1>9

\* The first event is delivered once more.
LEMMA DelsCons ==
  ASSUME TypeOK, TypeOK', Repeat, NEW r \in Resources, NEW d \in Nat, Dels(r, d)
  PROVE  \E m \in Nat : Dels(r, m)' /\ m <= d + 1
<1>1. /\ stream \in Seq(Events) /\ stream # <<>> /\ stream' = <<Head(stream)>> \o stream
      /\ stream' \in Seq(Events) /\ osac' = osac
  BY Zenon DEF Repeat, TypeOK, world
<1>2. PICK s, u \in Seq(Events) : s = stream /\ u = stream'
  BY <1>1, Zenon
<1>3. /\ Len(s) \in Nat /\ Len(u) = Len(s) + 1 /\ \A k \in 1..Len(s) : u[k + 1] = s[k]
  BY <1>1, <1>2
<1>4. PICK c \in [1..(Len(s) + 1) -> Nat] :
        /\ c[1] = d /\ c[Len(s) + 1] = IF osac[r].there = "gone" THEN 0 ELSE 1
        /\ \A k \in 1..Len(s) : c[k] = c[k + 1] + IF IsDel(s[k], r) THEN 1 ELSE 0
        /\ \A j, k \in 1..(Len(s) + 1) : j <= k => c[k] <= c[j]
  BY <1>2, Zenon DEF Dels
<1>5. PICK n \in {0, 1} : n = IF IsDel(u[1], r) THEN 1 ELSE 0
  OBVIOUS
<1> DEFINE b == [k \in 1..(Len(u) + 1) |-> IF k = 1 THEN d + n ELSE c[k - 1]]
<1>6. b \in [1..(Len(u) + 1) -> Nat] /\ b[1] \in Nat /\ b[1] = d + n
  BY <1>3, <1>4, <1>5
<1>7. b[Len(u) + 1] = c[Len(s) + 1]
  BY <1>3
<1>8. ASSUME NEW k \in 1..Len(u) PROVE b[k] = b[k + 1] + IF IsDel(u[k], r) THEN 1 ELSE 0
  <2>1. CASE k = 1
    BY <1>3, <1>4, <1>5, <2>1
  <2>2. CASE k # 1
    <3>1. k - 1 \in 1..Len(s) /\ (k - 1) + 1 = k
      BY <1>3, <2>2
    <3>2. b[k] = c[k - 1] /\ b[k + 1] = c[k] /\ u[k] = s[k - 1]
      BY <1>3, <2>2, <3>1
    <3>3. c[k - 1] = c[(k - 1) + 1] + IF IsDel(s[k - 1], r) THEN 1 ELSE 0
      BY <1>4, <3>1
    <3> QED BY <3>1, <3>2, <3>3
  <2> QED BY <2>1, <2>2
<1>9. ASSUME NEW j \in 1..(Len(u) + 1), NEW k \in 1..(Len(u) + 1), j <= k PROVE b[k] <= b[j]
  <2>1. \A i \in 1..(Len(u) + 1) : i # 1 => i - 1 \in 1..(Len(s) + 1) /\ b[i] = c[i - 1]
    BY <1>3
  <2>2. CASE j = 1 /\ k = 1
    BY <1>6, <2>2
  <2>3. CASE j = 1 /\ k # 1
    <3>1. c[k - 1] <= c[1] /\ c[k - 1] \in Nat
      <4>1. PICK i \in 1..(Len(s) + 1) : i = k - 1
        BY <2>1, <2>3
      <4>2. c[i] <= c[1] /\ c[i] \in Nat
        BY <1>3, <1>4
      <4> QED BY <4>1, <4>2
    <3> QED BY <1>4, <1>5, <1>6, <2>1, <2>3, <3>1
  <2>4. CASE j # 1
    BY <1>4, <1>9, <2>1, <2>4
  <2> QED BY <2>2, <2>3, <2>4
<1> HIDE DEF b
<1>10. Dels(r, b[1])'
  BY <1>1, <1>2, <1>4, <1>6, <1>7, <1>8, <1>9, Zenon DEF Dels
<1> QED BY <1>5, <1>6, <1>10

\* No events are left.
LEMMA DelsEmpty ==
  ASSUME TypeOK, stream' = <<>>, UNCHANGED osac, NEW r \in Resources, NEW d \in Nat, Dels(r, d)
  PROVE  \E m \in Nat : Dels(r, m)' /\ m <= d
<1>1. PICK c \in [1..(Len(stream) + 1) -> Nat] :
        /\ c[1] = d /\ c[Len(stream) + 1] = IF osac[r].there = "gone" THEN 0 ELSE 1
        /\ \A j, k \in 1..(Len(stream) + 1) : j <= k => c[k] <= c[j]
  BY Zenon DEF Dels
<1>2. Len(stream) \in Nat /\ Len(stream') = 0
  BY DEF TypeOK
<1>3. PICK m \in {0, 1} : m = IF osac[r].there = "gone" THEN 0 ELSE 1
  OBVIOUS
<1> DEFINE b == [k \in 1..1 |-> m]
<1>4. b \in [1..(Len(stream') + 1) -> Nat] /\ b[1] = m /\ \A j, k \in 1..1 : b[k] <= b[j]
  BY <1>2
<1> HIDE DEF b
<1>5. Dels(r, m)'
  BY <1>2, <1>3, <1>4 DEF Dels
<1> QED BY <1>1, <1>2, <1>3, <1>5

\* A created or updated event that is handled comes before a DELETE.
LEMMA DelsAhead ==
  ASSUME TypeOK, PutsFirst, WatchEvent, Head(stream).type = "put",
         NEW d \in Nat, Dels(Head(stream).r, d)
  PROVE  d > 0
<1> DEFINE r == Head(stream).r
<1>1. /\ stream \in Seq(Events) /\ stream # <<>> /\ Head(stream) = stream[1]
      /\ Len(stream) \in Nat /\ 1 \in 1..Len(stream)
  BY DEF WatchEvent, TypeOK
<1>2. PICK c \in [1..(Len(stream) + 1) -> Nat] :
        /\ c[1] = d /\ c[Len(stream) + 1] = IF osac[r].there = "gone" THEN 0 ELSE 1
        /\ \A k \in 1..Len(stream) : c[k] = c[k + 1] + IF IsDel(stream[k], r) THEN 1 ELSE 0
        /\ \A j, k \in 1..(Len(stream) + 1) : j <= k => c[k] <= c[j]
  BY DEF Dels
<1>3. CASE osac[r].there = "yes"
  BY <1>1, <1>2, <1>3
<1>4. CASE \E j \in 1..Len(stream) : j > 1 /\ stream[j].type = "del" /\ stream[j].r = r
  <2>1. PICK j \in 1..Len(stream) : IsDel(stream[j], r)
    BY <1>4 DEF IsDel
  <2>2. c[j] > 0 /\ c[j] <= c[1]
    BY <1>1, <1>2, <2>1
  <2> QED BY <1>1, <1>2, <2>2
<1> QED BY <1>1, <1>3, <1>4 DEF PutsFirst

\* Nobody's count, row or listing changes.
LEMMA OnceIdle ==
  ASSUME TypeOK, TypeOK', NEW r \in Resources, NEW t \in Times, NEW d \in Nat, NEW m \in Nat,
         UNCHANGED <<inv, swept, final, raced, watcher>>,
         sweep'.todo \subseteq sweep.todo, UNCHANGED sweep \/ sweep.pc # "update",
         faults <= faults', Once(r, t, d), m <= d
  PROVE  Once(r, t, m)'
<1>1. Used(r, t)' <= Used(r, t)
  BY UsedKept
<1>2. Behind(r, t) => Behind(r, t)'
  BY DEF Behind
<1>3. MaySweep(r)' => MaySweep(r)
  BY DEF MaySweep
<1> QED BY <1>1, <1>2, <1>3, OnceLight

\* The same when the rows, the meters and the passes are as they were.
LEMMA OnceStutter ==
  ASSUME TypeOK, TypeOK', NEW r \in Resources, NEW t \in Times, NEW d \in Nat, NEW m \in Nat,
         UNCHANGED <<inv, swept, final, raced, watcher, sweep>>, faults <= faults',
         Once(r, t, d), m <= d
  PROVE  Once(r, t, m)'
<1>1. sweep'.todo \subseteq sweep.todo
  OBVIOUS
<1> QED BY <1>1, OnceIdle, Zenon

=============================================================================
