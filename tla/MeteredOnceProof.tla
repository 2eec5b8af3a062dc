-------------------------- MODULE MeteredOnceProof --------------------------
(***************************************************************************)
(* Nothing metered twice beyond the failures: the actions, one lemma for   *)
(* each of the watcher, the sweep, the reconciliations and the failures,   *)
(* and the theorem.  The invariant is OnceInv of MeteringProof.            *)
(***************************************************************************)
EXTENDS MeteringProof

\* What a step of OSAC announces.
LEMMA OsacSteps ==
  ASSUME TypeOK, NEW s \in Resources, Provision(s) \/ Change(s) \/ Remove(s)
  PROVE  \E type, o :
           /\ Become(s, type, o)
           /\ \/ type = "put" /\ osac[s].there # "gone" /\ o.there = "yes"
              \/ type = "del" /\ osac[s].there = "yes" /\ o.there = "gone"
<1>1. osac[s] \in Objects
  BY FeedTypes
<1>2. CASE Provision(s)
  <2>1. PICK up, o :
          /\ o = [osac[s] EXCEPT !.there = "yes", !.up = up, !.steady = up, !.created = clock]
          /\ Become(s, "put", o)
    BY <1>2, Zenon DEF Provision
  <2>2. osac[s].there # "gone" /\ o.there = "yes"
    BY <1>1, <1>2, <2>1, Zenon DEF Provision, Objects
  <2> QED BY <2>1, <2>2, Zenon
<1>3. CASE Change(s)
  <2>1. PICK o : o = [osac[s] EXCEPT !.up = ~osac[s].up, !.steady = FALSE] /\ Become(s, "put", o)
    BY <1>3 DEF Change
  <2>2. osac[s].there # "gone" /\ o.there = "yes"
    BY <1>1, <1>3, <2>1 DEF Change, Objects
  <2> QED BY <2>1, <2>2, Zenon
<1>4. CASE Remove(s)
  <2>1. PICK o : o = [osac[s] EXCEPT !.there = "gone", !.deleted = clock] /\ Become(s, "del", o)
    BY <1>4 DEF Remove
  <2>2. osac[s].there = "yes" /\ o.there = "gone"
    BY <1>1, <1>4, <2>1 DEF Remove, Objects
  <2> QED BY <2>1, <2>2, Zenon
<1> QED BY <1>2, <1>3, <1>4

\* OSAC announces a step of a resource: a DELETE takes its place on the stream.
LEMMA DelsOsac ==
  ASSUME TypeOK, TypeOK', PutsFirst, NEW s \in Resources, Provision(s) \/ Change(s) \/ Remove(s),
         NEW r \in Resources, NEW d \in Nat, Dels(r, d)
  PROVE  \E m \in Nat : Dels(r, m)' /\ m <= d
<1>1. PICK type, o :
        /\ Become(s, type, o)
        /\ \/ type = "put" /\ osac[s].there # "gone" /\ o.there = "yes"
           \/ type = "del" /\ osac[s].there = "yes" /\ o.there = "gone"
  BY OsacSteps
<1>2. osac' = [osac EXCEPT ![s] = o]
  BY <1>1 DEF Become
<1>3. osac'[s] = o /\ \A q \in Resources : q # s => osac'[q] = osac[q]
  BY <1>2, FeedTypes
<1>4. stream \in Seq(Events) /\ stream' \in Seq(Events) /\ Len(stream) \in Nat
  <2>1. stream \in Seq(Events) /\ stream' \in Seq(Events)
    BY Zenon DEF TypeOK
  <2> QED BY <2>1
<1>5. PICK c \in [1..(Len(stream) + 1) -> Nat] :
        /\ c[1] = d /\ c[Len(stream) + 1] = IF osac[r].there = "gone" THEN 0 ELSE 1
        /\ \A k \in 1..Len(stream) : c[k] = c[k + 1] + IF IsDel(stream[k], r) THEN 1 ELSE 0
        /\ \A j, k \in 1..(Len(stream) + 1) : j <= k => c[k] <= c[j]
  BY Zenon DEF Dels
<1>6. PICK n \in {0, 1} : n = IF osac'[r].there = "gone" THEN 0 ELSE 1
  OBVIOUS
<1>7. c[Len(stream) + 1] = n + IF type = "del" /\ r = s THEN 1 ELSE 0
  <2>1. PICK x : x = c[Len(stream) + 1]
    OBVIOUS
  <2>2. x = IF osac[r].there = "gone" THEN 0 ELSE 1
    BY <1>5, <2>1, Zenon
  <2> QED BY <1>1, <1>3, <1>6, <2>1, <2>2
<1>8. CASE stream' = stream /\ ~(connected /\ "watcher" \in Enabled)
  <2>1. stream' = <<>> /\ Len(stream') = 0 /\ Len(stream) = 0
    BY <1>8 DEF PutsFirst
  <2> DEFINE b == [k \in 1..1 |-> n]
  <2>2. b \in [1..(Len(stream') + 1) -> Nat] /\ b[1] = n /\ \A j, k \in 1..1 : b[k] <= b[j]
    BY <2>1
  <2> HIDE DEF b
  <2>3. Dels(r, n)'
    BY <1>6, <2>1, <2>2 DEF Dels
  <2>4. n <= d
    BY <1>5, <1>7, <2>1
  <2> QED BY <2>3, <2>4
<1>9. PICK e : e = [type |-> type, r |-> s, up |-> o.up, created |-> o.created, at |-> o.deleted]
  BY Zenon
<1>10. CASE stream' = Append(stream, e)
  <2>1. e = stream'[Len(stream')] /\ Len(stream') \in 1..Len(stream')
    BY <1>4, <1>10
  <2>2. e \in Events /\ (IsDel(e, r) <=> type = "del" /\ r = s)
    BY <1>4, <1>9, <2>1 DEF IsDel
  <2>3. PICK u \in Seq(Events) : u = stream'
    BY <1>4
  <2>4. /\ Len(u) = Len(stream) + 1 /\ u[Len(stream) + 1] = e
        /\ \A k \in 1..Len(stream) : u[k] = stream[k]
    BY <1>4, <1>10, <2>2, <2>3
  <2> DEFINE b == [k \in 1..(Len(u) + 1) |-> IF k <= Len(stream) + 1 THEN c[k] ELSE n]
  <2>5. b \in [1..(Len(u) + 1) -> Nat] /\ b[1] = d
    BY <1>4, <1>5, <2>4
  <2>6. b[Len(u) + 1] = n
    BY <1>4, <2>4
  <2>7. \A k \in 1..(Len(stream) + 1) : b[k] = c[k]
    BY <1>4, <2>4
  <2> HIDE DEF b
  <2>8. ASSUME NEW k \in 1..Len(u) PROVE b[k] = b[k + 1] + IF IsDel(u[k], r) THEN 1 ELSE 0
    <3>1. CASE k = Len(stream) + 1
      BY <1>4, <1>7, <2>2, <2>4, <2>6, <2>7, <3>1
    <3>2. CASE k \in 1..Len(stream)
      <4>1. k \in 1..(Len(stream) + 1) /\ k + 1 \in 1..(Len(stream) + 1)
        BY <1>4, <3>2
      <4>2. b[k] = c[k] /\ b[k + 1] = c[k + 1] /\ u[k] = stream[k]
        BY <2>4, <2>7, <3>2, <4>1, Zenon
      <4>3. c[k] = c[k + 1] + IF IsDel(stream[k], r) THEN 1 ELSE 0
        BY <1>5, <3>2, Zenon
      <4> QED BY <4>2, <4>3, Zenon
    <3> QED BY <1>4, <2>4, <3>1, <3>2
  <2>9. ASSUME NEW j \in 1..(Len(u) + 1), NEW k \in 1..(Len(u) + 1), j <= k PROVE b[k] <= b[j]
    <3>1. CASE k \in 1..(Len(stream) + 1)
      <4>1. j \in 1..(Len(stream) + 1)
        BY <1>4, <2>9, <3>1
      <4> QED BY <1>5, <2>7, <2>9, <3>1, <4>1
    <3>2. CASE k = Len(u) + 1 /\ j \in 1..(Len(stream) + 1)
      <4>1. c[Len(stream) + 1] <= c[j] /\ c[j] \in Nat /\ n <= c[Len(stream) + 1]
        BY <1>4, <1>5, <1>7, <3>2
      <4> QED BY <2>6, <2>7, <3>2, <4>1
    <3>3. CASE k = Len(u) + 1 /\ j = Len(u) + 1
      BY <2>6, <3>3
    <3> QED BY <1>4, <2>4, <2>9, <3>1, <3>2, <3>3
  <2>10. Dels(r, d)'
    BY <1>6, <2>3, <2>5, <2>6, <2>8, <2>9, Zenon DEF Dels
  <2> QED BY <2>10
<1> QED BY <1>1, <1>8, <1>9, <1>10 DEF Become, Announce

LEMMA MeteredElsewhere ==
  ASSUME NEW f \in Counts, NEW q, NEW from, NEW to, NEW r \in Resources, NEW t \in Times,
         ~(q = r /\ from <= t /\ t < to)
  PROVE  Metered(f, q, from, to)[r][t] = f[r][t]
<1>1. f[r][t] \in Nat
  BY DEF Counts
<1>2. CASE q = r
  <2>1. Metered(f, q, from, to)[r]
        = [u \in Times |-> f[r][u] + (IF from <= u /\ u < to THEN 1 ELSE 0)]
    BY <1>2 DEF Metered, Counts
  <2> QED BY <1>1, <1>2, <2>1
<1>3. CASE q # r
  BY <1>3 DEF Metered, Counts
<1> QED BY <1>2, <1>3

\* The steps of the watcher.
LEMMA OnceWatch ==
  ASSUME TypeOK, TypeOK', PutsFirst, AtRest, Watch, NEW r \in Resources, NEW t \in Times,
         NEW d \in Nat, NEW m \in Nat, Dels(r, d), Once(r, t, d),
         m = d - IF WatchEvent /\ IsDel(Head(stream), r) THEN 1 ELSE 0
  PROVE  Once(r, t, m)'
<1> USE DEF world, feed, meters
<1>1. faults \in Nat /\ m <= d
  BY CountTypes
<1>2. ASSUME NEW kind, Fault(kind) PROVE faults' = faults + 1
  BY <1>2 DEF Fault
<1>3. CASE HandleCreateOrUpdate
  <2>1. WatchEvent /\ Head(stream).type = "put" /\ osac' = osac
        /\ UNCHANGED <<swept, final, raced, watcher, sweep>>
    BY <1>3 DEF HandleCreateOrUpdate
  <2>3. Used(r, t)' <= Used(r, t)
    BY <2>1, UsedKept
  <2>4. CASE Fault("statement")
    BY <1>1, <1>2, <2>1, <2>3, <2>4, OnceFault
  <2>5. CASE UpsertOf(Head(stream)) /\ UNCHANGED faults
    <3>1. Head(stream) \in Events
      BY <2>1, HeadIsEvent, Zenon
    <3>2. RowsKept
      BY <2>5, <3>1, UpsertKeeps DEF UpsertOf, Events
    <3>3. Behind(r, t) => Behind(r, t)'
      BY <2>1, <3>2, BehindKept
    <3>4. MaySweep(r)' => MaySweep(r) \/ d > 0
      <4>1. CASE r = Head(stream).r
        BY <2>1, <4>1, DelsAhead
      <4>2. CASE r # Head(stream).r
        <5>1. inv'[r] = inv[r]
          BY <2>5, <4>2, RowTypes DEF UpsertOf, Upsert
        <5> QED BY <2>1, <5>1 DEF MaySweep
      <4> QED BY <4>1, <4>2
    <3> QED BY <1>1, <2>1, <2>3, <2>5, <3>3, <3>4, OnceLight
  <2> QED BY <1>3, <2>4, <2>5 DEF HandleCreateOrUpdate
<1>4. CASE HandleDelete
  <2>0. Head(stream) \in Events
    BY <1>4, HeadIsEvent, Zenon DEF HandleDelete
  <2>1. PICK q \in Resources, at \in Times : q = Head(stream).r /\ at = Head(stream).at
    BY <2>0 DEF Events
  <2>2. /\ WatchEvent /\ Head(stream).type = "del" /\ osac' = osac
        /\ UNCHANGED <<inv, swept, final, sweep>> /\ raced \subseteq raced'
    BY <1>4 DEF HandleDelete
  <2>3. r = q => m = d - 1
    BY <2>1, <2>2 DEF IsDel
  <2>4. Behind(r, t) => Behind(r, t)'
    BY <2>2 DEF Behind
  <2>5. watcher'.r = q /\ watcher.r = None
    BY <1>4, <2>1 DEF HandleDelete, WatchEvent, AtRest
  <2>6. MaySweep(r)' => MaySweep(r)
    BY <2>2, <2>5, MeteringAssumption DEF MaySweep
  <2>7. ASSUME watcher'.pc # "final", UNCHANGED faults \/ Fault("statement") PROVE Once(r, t, m)'
    <3>1. Used(r, t)' <= Used(r, t) /\ faults <= faults'
      BY <1>1, <1>2, <2>2, <2>7, UsedKept
    <3> QED BY <1>1, <2>2, <2>3, <2>4, <2>6, <3>1, OnceLight
  <2>8. CASE /\ FinalDue(inv[q], at)
             /\ watcher' = [pc |-> "final", r |-> q, from |-> PeriodStart(inv[q]), to |-> at]
             /\ raced' = raced \cup {s \in {q} : InSweep(s)} /\ UNCHANGED faults
    <3>1. /\ inv[q] # None /\ PeriodStart(inv[q]) \in Nat /\ at \in Nat /\ t \in Nat
          /\ watcher'.pc = "final" /\ watcher'.from = PeriodStart(inv[q]) /\ watcher'.to = at
      BY <2>8, PeriodStartType, TimesAreNat, RowTypes, Zenon DEF FinalDue
    <3>2. /\ swept[r][t] \in Nat /\ final[r][t] \in Nat /\ Pending(r, t) = 0
          /\ Used(r, t)' = swept[r][t] + final[r][t] + Pending(r, t)'
      BY <1>4, <2>2, CountTypes DEF Counts, Pending, Used, HandleDelete, WatchEvent
    <3>3. Used(r, t) = swept[r][t] + final[r][t]
      BY <3>2 DEF Used
    <3>4. CASE r = q /\ PeriodStart(inv[q]) <= t
      <4>1. Pending(r, t)' \in {0, 1}
        BY DEF Pending
      <4>2. Used(r, t)' <= Used(r, t) + 1
        BY <3>2, <3>3, <4>1
      <4>3. r \notin raced' => ~Behind(r, t) /\ ~MaySweep(r)'
        BY <2>2, <2>5, <2>8, <3>1, <3>4 DEF Behind, MaySweep, InSweep
      <4> QED BY <1>1, <2>2, <2>3, <2>4, <2>8, <3>4, <4>2, <4>3, OnceFinal
    <3>5. CASE ~(r = q /\ PeriodStart(inv[q]) <= t)
      <4>1. Pending(r, t)' = 0
        BY <2>5, <3>1, <3>5 DEF Pending
      <4>2. Used(r, t)' <= Used(r, t)
        BY <3>2, <3>3, <4>1
      <4> QED BY <1>1, <2>2, <2>3, <2>4, <2>6, <2>8, <4>2, OnceLight
    <3> QED BY <3>4, <3>5
  <2> QED BY <1>4, <2>1, <2>7, <2>8 DEF HandleDelete
<1>5. CASE MeterFinal
  <2>1. UNCHANGED <<inv, swept, raced, sweep, stream, osac>> /\ watcher'.r = watcher.r
        /\ watcher'.pc = "mark" /\ watcher.pc = "final" /\ faults <= faults'
    BY <1>1, <1>2, <1>5, PassTypes DEF MeterFinal, WatcherStates
  <2>3. (Behind(r, t) => Behind(r, t)') /\ (MaySweep(r)' => MaySweep(r))
    BY <2>1 DEF Behind, MaySweep
  <2>4. swept[r][t] \in Nat /\ final[r][t] \in Nat /\ Pending(r, t) \in {0, 1} /\ Pending(r, t)' = 0
    BY <2>1, CountTypes DEF Counts, Pending
  <2>5. final'[r][t] <= final[r][t] + Pending(r, t)
    <3>1. CASE final' = final
      BY <2>4, <3>1
    <3>2. CASE final' = Metered(final, watcher.r, watcher.from, watcher.to)
      <4>1. CASE Pending(r, t) = 1
        <5>1. watcher.r \in Resources /\ watcher.from \in Times /\ watcher.to \in Times
          BY <4>1, PassTypes DEF Pending, WatcherStates
        <5>2. final \in Counts
          BY CountTypes
        <5>3. \A s \in Resources, u \in Times :
                Metered(final, watcher.r, watcher.from, watcher.to)[s][u] = final[s][u]
                \/ Metered(final, watcher.r, watcher.from, watcher.to)[s][u] = final[s][u] + 1
          BY <5>1, <5>2, MeteredAdds
        <5> QED BY <2>4, <3>2, <4>1, <5>3
      <4>2. CASE Pending(r, t) = 0
        <5>1. ~(watcher.r = r /\ watcher.from <= t /\ t < watcher.to)
          BY <2>1, <4>2 DEF Pending
        <5>2. final'[r][t] = final[r][t]
          BY <2>4, <3>2, <5>1, MeteredElsewhere, CountTypes
        <5> QED BY <2>4, <4>2, <5>2
      <4> QED BY <2>4, <4>1, <4>2
    <3> QED BY <1>5, <3>1, <3>2 DEF MeterFinal
  <2>6. Used(r, t)' <= Used(r, t)
    <3>1. final'[r][t] \in Nat
      BY DEF TypeOK, Counts
    <3>2. Used(r, t)' = swept[r][t] + final'[r][t] + 0
      BY <2>1, <2>4 DEF Used
    <3> QED BY <2>4, <2>5, <3>1, <3>2 DEF Used
  <2> QED BY <1>1, <2>1, <2>3, <2>6, OnceLight
<1>6. CASE WatchMark
  <2>1. /\ UNCHANGED <<swept, final, raced, sweep, stream, osac>>
        /\ watcher' = Waiting /\ watcher'.pc = "idle" /\ watcher'.r = None
    BY <1>6 DEF WatchMark, Waiting
  <2>3. Used(r, t)' <= Used(r, t)
    BY <2>1, UsedKept
  <2>4. CASE Fault("statement")
    BY <1>1, <1>2, <2>1, <2>3, <2>4, OnceFault
  <2>5. CASE MarkDeleted(watcher.r, watcher.to, "watch") /\ UNCHANGED faults
    <3>1. watcher.to \in Times /\ watcher.to # None
      BY TimesAreNat, MeteringAssumption, PassTypes, Zenon DEF WatcherStates
    <3>2. RowsKept
      BY <2>5, <3>1, MarkKeeps
    <3>3. Behind(r, t) => Behind(r, t)'
      BY <2>1, <3>2, BehindKept
    <3>4. inv'[r] = None => inv[r] = None
      BY <3>2 DEF RowsKept
    <3>5. Alive(inv'[r]) => Alive(inv[r]) /\ watcher.r # r
      <4>1. CASE watcher.r = r
        <5>1. inv[r] \in Rows \cup {None}
          BY RowTypes
        <5>2. Alive(inv[r]) => inv'[r] = [inv[r] EXCEPT !.deleted = watcher.to, !.event = "watch"]
          BY <2>5, <4>1, RowTypes DEF MarkDeleted
        <5>3. Alive(inv[r]) => inv'[r].deleted = watcher.to
          BY <5>1, <5>2, Zenon DEF Alive, Rows
        <5>4. ~Alive(inv[r]) => inv'[r] = inv[r]
          BY <2>5, <4>1 DEF MarkDeleted
        <5> QED BY <3>1, <5>3, <5>4 DEF Alive
      <4>2. CASE watcher.r # r
        BY <2>5, <4>2, RowTypes DEF MarkDeleted
      <4> QED BY <4>1, <4>2
    <3>6. MaySweep(r)' => MaySweep(r)
      BY <2>1, <3>4, <3>5 DEF MaySweep
    <3> QED BY <1>1, <2>1, <2>3, <2>5, <3>3, <3>6, OnceLight
  <2> QED BY <1>6, <2>4, <2>5 DEF WatchMark
<1> QED BY <1>3, <1>4, <1>5, <1>6 DEF Watch

\* The steps of the sweep.
LEMMA OnceSweep ==
  ASSUME TypeOK, TypeOK', GapInv, MovesOn, Sweep, NEW r \in Resources, NEW t \in Times,
         NEW d \in Nat, Once(r, t, d)
  PROVE  Once(r, t, d)'
<1> USE DEF world, feed, meters
<1>1. /\ faults \in Nat /\ d <= d /\ sweep \in SweepStates /\ sweep.now \in Times
      /\ sweep.todo \subseteq [r: Resources, from: Times]
  BY CountTypes, PassTypes DEF SweepStates
<1>2. ASSUME NEW kind, Fault(kind) PROVE faults' = faults + 1
  BY <1>2 DEF Fault
<1>4. CASE StartSweep
  <2>1. /\ UNCHANGED <<inv, swept, final, raced, watcher, stream, osac, faults>>
        /\ sweep'.todo = {} /\ sweep.pc # "update"
    BY <1>4 DEF StartSweep, Resting
  <2> QED BY <1>1, <2>1, OnceIdle
<1>5. ASSUME NEW kind, ListBillable(BillableRows(kind)) PROVE Once(r, t, d)'
  <2> DEFINE due == Due(BillableRows(kind))
             listed == [sweep EXCEPT !.todo = due]
  <2>1. /\ UNCHANGED <<inv, swept, final, watcher>>
        /\ sweep.pc = "list" /\ raced \subseteq raced'
    BY <1>5 DEF ListBillable
  <2>3. Used(r, t)' <= Used(r, t)
    BY <2>1, UsedKept
  <2>4. CASE Fault("statement")
    BY <1>1, <1>2, <2>1, <2>3, <2>4, OnceFault
  <2>5. CASE /\ sweep' = Onward(listed) /\ UNCHANGED faults
             /\ raced' = raced \cup {q \in BillableRows(kind) : watcher.r = q}
    <3>1. \A x \in due : /\ x \in [r: Resources, from: Times] /\ x.r \in BillableRows(kind)
                         /\ Alive(inv[x.r])
      BY DueRows
    <3>2. listed \in SweepStates /\ listed.todo = due
      BY <1>1, <3>1 DEF SweepStates
    <3> HIDE DEF due, listed
    <3>3. sweep'.todo \subseteq due
      BY <2>5, <3>2, OnwardKeeps
    <3>4. Behind(r, t) => Behind(r, t)'
      BY <2>1 DEF Behind
    <3>5. r \notin raced' /\ MaySweep(r)' => MaySweep(r)
      BY <2>1, <2>5, <3>1, <3>3 DEF MaySweep
    <3> QED BY <2>1, <2>3, <2>5, <3>4, <3>5, OnceSame, Zenon
  <2> QED BY <1>5, <2>4, <2>5 DEF ListBillable
<1>6. CASE SweepInsert
  <2>1. PICK x \in sweep.todo :
          /\ sweep' = [sweep EXCEPT !.pc = "update", !.todo = sweep.todo \ {x}, !.r = x.r]
          /\ \/ swept' = Metered(swept, x.r, x.from, sweep.now) /\ UNCHANGED <<skipped, faults>>
             \/ Fault("insert") /\ UNCHANGED swept
    BY <1>6, Zenon DEF SweepInsert
  <2>2. /\ UNCHANGED <<inv, final, raced, watcher>> /\ sweep.pc = "insert"
        /\ x.r \in Resources /\ x.from \in Times /\ x.from < sweep.now
    BY <1>1, <1>6 DEF SweepInsert, TypeOK
  <2>3. /\ sweep'.pc = "update" /\ sweep'.r = x.r /\ sweep'.now = sweep.now
        /\ sweep'.todo \subseteq sweep.todo
    BY <1>1, <2>1 DEF SweepStates
  <2>5. (Behind(r, t) => Behind(r, t)') /\ (MaySweep(r)' => MaySweep(r))
    BY <2>2, <2>3 DEF Behind, MaySweep
  <2>6. /\ swept[r][t] \in Nat /\ final[r][t] \in Nat /\ Pending(r, t) \in Nat
        /\ Pending(r, t)' = Pending(r, t)
    BY <2>2, CountTypes DEF Counts, Pending
  <2>7. CASE Fault("insert") /\ UNCHANGED swept
    BY <1>1, <1>2, <2>2, <2>7, UsedKept, OnceFault
  <2>8. CASE swept' = Metered(swept, x.r, x.from, sweep.now) /\ UNCHANGED faults
    <3>1. swept \in Counts
      BY CountTypes
    <3>2. CASE x.r = r /\ x.from <= t /\ t < sweep.now
      <4>1. swept'[r][t] = swept[r][t] \/ swept'[r][t] = swept[r][t] + 1
        <5>1. PICK from, to \in Times : from = x.from /\ to = sweep.now
          BY <1>1, <2>2
        <5>2. Metered(swept, r, from, to)[r][t] = swept[r][t]
              \/ Metered(swept, r, from, to)[r][t] = swept[r][t] + 1
          BY <3>1, MeteredAdds
        <5> QED BY <2>8, <3>2, <5>1, <5>2
      <4>2. Used(r, t)' <= Used(r, t) + 1
        <5>1. Used(r, t)' = swept'[r][t] + final[r][t] + Pending(r, t)
          BY <2>2, <2>6 DEF Used
        <5>2. Used(r, t) = swept[r][t] + final[r][t] + Pending(r, t)
          BY DEF Used
        <5> QED BY <2>6, <4>1, <5>1, <5>2
      <4>3. x.from = PeriodStart(inv[r]) /\ inv[r] # None
        BY <3>2 DEF GapInv
      <4>4. ~Behind(r, t)
        <5>1. x.from \in Nat /\ t \in Nat
          BY <2>2, TimesAreNat, Zenon
        <5> QED BY <2>2, <3>2, <4>3, <5>1 DEF Behind
      <4>5. Behind(r, t)' /\ MaySweep(r)
        BY <2>3, <3>2 DEF Behind, MaySweep
      <4> QED BY <1>1, <2>2, <2>8, <4>2, <4>4, <4>5, OnceSwept
    <3>3. CASE ~(x.r = r /\ x.from <= t /\ t < sweep.now)
      <4>1. swept'[r][t] = swept[r][t]
        BY <2>8, <3>1, <3>3, MeteredElsewhere
      <4>2. Used(r, t)' = Used(r, t)
        BY <2>2, <2>6, <4>1 DEF Used
      <4>3. Used(r, t)' <= Used(r, t)
        BY <4>2, OnceTypes
      <4> QED BY <2>2, <2>5, <2>8, <4>3, OnceSame, Zenon
    <3> QED BY <3>2, <3>3
  <2> QED BY <2>1, <2>7, <2>8
<1>7. CASE SweepUpdate
  <2>1. PICK q \in Resources : q = sweep.r
    BY <1>7 DEF SweepUpdate, GapInv
  <2>2. /\ UNCHANGED <<swept, final, raced, watcher>> /\ sweep.pc = "update"
        /\ inv[q] # None /\ inv[q] \in Rows /\ PeriodStart(inv[q]) < sweep.now
        /\ sweep' = Onward(sweep)
    BY <1>7, <2>1, RowTypes DEF SweepUpdate, GapInv, MovesOn
  <2>3. Used(r, t)' <= Used(r, t)
    BY <2>2, UsedKept
  <2>4. CASE Fault("statement")
    BY <1>1, <1>2, <2>2, <2>3, <2>4, OnceFault, Zenon
  <2>5. CASE UpdateLastMetered(q, sweep.now) /\ UNCHANGED faults
    <3> DEFINE row == [inv[q] EXCEPT !.last = sweep.now]
    <3>1. inv' = [inv EXCEPT ![q] = row]
      BY <2>2, <2>5 DEF UpdateLastMetered
    <3>2. /\ row \in Rows /\ row.deleted = inv[q].deleted /\ row.last = sweep.now
          /\ sweep.now # None /\ row # None
      BY <1>1, <2>2, TimesAreNat, MeteringAssumption DEF Rows
    <3> HIDE DEF row
    <3>3. inv'[q] # None /\ PeriodStart(inv'[q]) = sweep.now /\ inv'[q].deleted = inv[q].deleted
      BY <3>1, <3>2, RowTypes DEF PeriodStart
    <3>4. r # q => inv'[r] = inv[r]
      BY <3>1, RowTypes
    <3>5. sweep'.todo \subseteq sweep.todo
      BY <1>1, <2>2, OnwardKeeps
    <3>6. Behind(r, t) => Behind(r, t)'
      <4>1. CASE r = q
        <5>1. PeriodStart(inv[q]) \in Nat /\ sweep.now \in Nat /\ t \in Nat
          BY <1>1, <2>2, PeriodStartType, TimesAreNat
        <5> QED BY <2>2, <3>3, <4>1, <5>1 DEF Behind
      <4>2. CASE r # q
        BY <2>1, <3>4, <4>2 DEF Behind
      <4> QED BY <4>1, <4>2
    <3>7. MaySweep(r)' => MaySweep(r)
      BY <2>2, <3>3, <3>4, <3>5 DEF MaySweep, Alive
    <3> QED BY <2>2, <2>3, <2>5, <3>6, <3>7, OnceSame, Zenon
  <2> QED BY <1>7, <2>1, <2>4, <2>5 DEF SweepUpdate
<1> QED BY <1>4, <1>5, <1>6, <1>7, SweepSteps

\* The steps of a reconciliation.
LEMMA OnceReconcile ==
  ASSUME TypeOK, TypeOK', NEW i \in Reconcilers, ReconcileAll(i),
         NEW r \in Resources, NEW t \in Times, NEW d \in Nat, Once(r, t, d)
  PROVE  Once(r, t, d)'
<1> USE DEF world, feed, meters
<1>1. faults \in Nat /\ d <= d
  BY CountTypes
<1>2. ASSUME NEW kind, Fault(kind) PROVE faults' = faults + 1
  BY <1>2 DEF Fault
<1>4. ASSUME \/ StartReconcile(i) \/ ListOsac(i)
             \/ \E kind \in {"vm", "cluster", "bm"} : ListKnown(i, AliveRows(kind))
      PROVE  Once(r, t, d)'
  <2>1. UNCHANGED <<inv, swept, final, raced, watcher, sweep>> /\ faults <= faults'
    BY <1>1, <1>2, <1>4 DEF StartReconcile, ListOsac, ListKnown
  <2> QED BY <1>1, <2>1, OnceStutter, Zenon
<1>5. CASE FixCreate(i)
  <2>1. PICK x \in recs[i].create :
          \/ /\ Upsert(x.r, x.up, x.created, "reconcile") /\ UNCHANGED faults
             /\ raced' = raced \cup {q \in {x.r} : inv[q] # None /\ inv[q].deleted # None}
          \/ Fault("statement") /\ UNCHANGED <<inv, raced>>
    BY <1>5 DEF FixCreate
  <2>2. /\ UNCHANGED <<swept, final, watcher, sweep>> /\ raced \subseteq raced'
        /\ x.r \in Resources /\ x.up \in BOOLEAN /\ x.created \in Times
    BY <1>5, <2>1, PassTypes DEF FixCreate, PassStates
  <2>3. Used(r, t)' <= Used(r, t)
    BY <2>2, UsedKept
  <2>4. CASE Fault("statement")
    BY <1>1, <1>2, <2>2, <2>3, <2>4, OnceFault
  <2>5. CASE /\ Upsert(x.r, x.up, x.created, "reconcile") /\ UNCHANGED faults
             /\ raced' = raced \cup {q \in {x.r} : inv[q] # None /\ inv[q].deleted # None}
    <3>1. RowsKept
      BY <2>2, <2>5, UpsertKeeps
    <3>2. Behind(r, t) => Behind(r, t)'
      BY <2>2, <3>1, BehindKept
    <3>3. r \notin raced' /\ MaySweep(r)' => MaySweep(r)
      <4>1. CASE r = x.r
        BY <2>2, <2>5, <3>1, <4>1 DEF MaySweep, Alive, RowsKept
      <4>2. CASE r # x.r
        <5>1. inv'[r] = inv[r]
          BY <2>5, <4>2, RowTypes DEF Upsert
        <5> QED BY <2>2, <5>1 DEF MaySweep
      <4> QED BY <4>1, <4>2
    <3> QED BY <2>2, <2>3, <2>5, <3>2, <3>3, OnceSame, Zenon
  <2> QED BY <2>1, <2>4, <2>5
<1>6. CASE FixDelete(i)
  <2>1. PICK q \in recs[i].delete :
          \/ MarkDeleted(q, clock, "reconcile") /\ UNCHANGED faults
          \/ Fault("statement") /\ UNCHANGED inv
    BY <1>6 DEF FixDelete
  <2>2. UNCHANGED <<swept, final, raced, watcher, sweep>>
    BY <1>6 DEF FixDelete
  <2>3. Used(r, t)' <= Used(r, t)
    BY <2>2, UsedKept
  <2>4. CASE Fault("statement")
    BY <1>1, <1>2, <2>2, <2>3, <2>4, OnceFault
  <2>5. CASE MarkDeleted(q, clock, "reconcile") /\ UNCHANGED faults
    <3>1. clock \in Times /\ clock # None /\ inv[r] \in Rows \cup {None}
      BY TimesAreNat, MeteringAssumption, FeedTypes, RowTypes, Zenon
    <3>2. RowsKept
      BY <2>5, <3>1, MarkKeeps
    <3>3. Behind(r, t) => Behind(r, t)'
      BY <2>2, <3>2, BehindKept
    <3>4. Alive(inv'[r]) => Alive(inv[r])
      BY <2>5, RowTypes DEF MarkDeleted
    <3>5. MaySweep(r)' => MaySweep(r)
      BY <2>2, <3>2, <3>4, Zenon DEF MaySweep, RowsKept
    <3> QED BY <2>2, <2>3, <2>5, <3>3, <3>5, OnceSame, Zenon
  <2> QED BY <2>1, <2>4, <2>5
<1> QED BY <1>4, <1>5, <1>6, ReconcileSteps

\* A failure that loses the stream, or that delivers an event again.
LEMMA OnceFailure ==
  ASSUME TypeOK, TypeOK', Disconnect \/ Repeat \/ Crash, NEW r \in Resources, NEW t \in Times,
         NEW d \in Nat, NEW m \in Nat, Once(r, t, d), m <= d \/ (Repeat /\ m <= d + 1)
  PROVE  Once(r, t, m)'
<1> USE DEF world, feed, meters
<1>1. faults \in Nat /\ faults' = faults + 1
  BY CountTypes, Zenon DEF Disconnect, Repeat, Crash, Fault
<1>2. CASE m <= d
  <2>1. UNCHANGED <<swept, final, raced>> /\ (UNCHANGED watcher \/ watcher'.pc # "final")
    BY RestTypes, Zenon DEF Disconnect, Repeat, Crash
  <2> QED BY <1>1, <1>2, <2>1, UsedKept, OnceFault
<1>3. CASE Repeat /\ m <= d + 1
  <2>1. UNCHANGED <<inv, swept, final, raced, watcher, sweep>>
    BY <1>3 DEF Repeat
  <2>2. Used(r, t)' = Used(r, t) /\ (Behind(r, t)' <=> Behind(r, t)) /\ (MaySweep(r)' <=> MaySweep(r))
    BY <2>1 DEF Used, Pending, Behind, MaySweep
  <2> QED BY <1>1, <1>3, <2>1, <2>2, OnceAgain
<1> QED BY <1>2, <1>3

LEMMA OnceStep ==
  ASSUME "collector" \notin Enabled, TypeOK, TypeOK', GapInv, PutsFirst, AtRest, MovesOn,
         [Next]_vars, NEW r \in Resources, NEW d \in Nat, Dels(r, d), \A t \in Times : Once(r, t, d)
  PROVE  \E m \in Nat : Dels(r, m)' /\ \A t \in Times : Once(r, t, m)'
<1> USE DEF world, feed, meters
<1>1. ASSUME UNCHANGED <<stream, osac>> PROVE Dels(r, d)'
  BY <1>1 DEF Dels
<1>2. CASE Tick \/ Connect \/ UNCHANGED vars
  <2>1. UNCHANGED <<inv, swept, final, raced, osac, watcher, sweep, stream, faults>>
    BY <1>2 DEF Tick, Connect, vars
  <2>2. \A t \in Times : Once(r, t, d)'
    <3>1. d <= d /\ faults <= faults'
      BY <2>1, CountTypes
    <3> QED BY <2>1, <3>1, OnceStutter, Zenon
  <2> QED BY <1>1, <2>1, <2>2
<1>3. ASSUME NEW s \in Resources, Provision(s) \/ Change(s) \/ Remove(s)
      PROVE  \E m \in Nat : Dels(r, m)' /\ \A t \in Times : Once(r, t, m)'
  <2>1. PICK m \in Nat : Dels(r, m)' /\ m <= d
    BY <1>3, DelsOsac
  <2>2. UNCHANGED <<inv, swept, final, raced, watcher, sweep, faults>> /\ faults \in Nat
    BY <1>3, CountTypes, Zenon DEF Provision, Change, Remove, Become
  <2>3. faults <= faults'
    BY <2>2
  <2>4. \A t \in Times : Once(r, t, m)'
    BY <2>1, <2>2, <2>3, OnceStutter, Zenon
  <2> QED BY <2>1, <2>4
<1>4. CASE Watch
  <2>1. PICK m \in Nat : Dels(r, m)' /\ m = d - IF WatchEvent /\ IsDel(Head(stream), r) THEN 1 ELSE 0
    <3>1. CASE HandleCreateOrUpdate \/ HandleDelete
      <4>1. WatchEvent /\ osac' = osac
        BY <3>1 DEF HandleCreateOrUpdate, HandleDelete
      <4> QED BY <4>1, DelsTail
    <3>2. CASE MeterFinal \/ WatchMark
      <4>1. ~WatchEvent /\ UNCHANGED <<stream, osac>>
        BY <3>2 DEF MeterFinal, WatchMark, WatchEvent
      <4> QED BY <1>1, <4>1
    <3> QED BY <1>4, <3>1, <3>2 DEF Watch
  <2>2. \A t \in Times : Once(r, t, m)'
    BY <1>4, <2>1, OnceWatch
  <2> QED BY <2>1, <2>2
<1>5. CASE Sweep
  <2>1. UNCHANGED <<stream, osac>>
    BY <1>5, SweepSteps, Zenon DEF StartSweep, SweepInsert, SweepUpdate, ListBillable
  <2> QED BY <1>1, <1>5, <2>1, OnceSweep
<1>6. ASSUME NEW i \in Reconcilers, ReconcileAll(i)
      PROVE  \E m \in Nat : Dels(r, m)' /\ \A t \in Times : Once(r, t, m)'
  <2>1. UNCHANGED <<stream, osac>>
    BY <1>6, ReconcileSteps, Zenon DEF StartReconcile, ListOsac, FixCreate, FixDelete, ListKnown
  <2> QED BY <1>1, <1>6, <2>1, OnceReconcile
<1>7. CASE Disconnect \/ Crash
  <2>1. stream' = <<>>
    BY <1>7, Zenon DEF Disconnect, Crash
  <2>2. osac' = osac
    BY <1>7 DEF Disconnect, Crash
  <2>3. PICK m \in Nat : Dels(r, m)' /\ m <= d
    BY <2>1, <2>2, DelsEmpty
  <2>4. \A t \in Times : Once(r, t, m)'
    BY <1>7, <2>3, OnceFailure
  <2> QED BY <2>3, <2>4
<1>8. CASE Repeat
  <2>1. PICK m \in Nat : Dels(r, m)' /\ m <= d + 1
    BY <1>8, DelsCons
  <2>2. \A t \in Times : Once(r, t, m)'
    BY <1>8, <2>1, OnceFailure
  <2> QED BY <2>1, <2>2
<1>9. ~ \E q \in Resources, from, to \in Times : Heartbeat(q, from, to)
  BY Zenon DEF Heartbeat
<1> QED BY <1>2, <1>3, <1>4, <1>5, <1>6, <1>7, <1>8, <1>9 DEF Next

\* The order of the events on the stream.
LEMMA PutsNext ==
  ASSUME TypeOK, TypeOK', PutsFirst, [Next]_vars
  PROVE  PutsFirst'
<1> USE DEF world, feed, meters
<1>1. stream \in Seq(Events) /\ stream' \in Seq(Events)
  BY Zenon DEF TypeOK
<1>2. CASE UNCHANGED <<stream, osac>> /\ (UNCHANGED connected \/ connected')
  BY <1>2 DEF PutsFirst
<1>3. ASSUME NEW s \in Resources, Provision(s) \/ Change(s) \/ Remove(s) PROVE PutsFirst'
  <2>1. PICK type, o :
          /\ Become(s, type, o)
          /\ \/ type = "put" /\ osac[s].there # "gone" /\ o.there = "yes"
             \/ type = "del" /\ osac[s].there = "yes" /\ o.there = "gone"
    BY <1>3, OsacSteps
  <2>2. osac' = [osac EXCEPT ![s] = o] /\ connected' = connected
    BY <2>1 DEF Become
  <2>3. osac'[s] = o /\ \A q \in Resources : q # s => osac'[q] = osac[q]
    BY <2>2, FeedTypes
  <2>4. CASE stream' = stream /\ ~(connected /\ "watcher" \in Enabled)
    <3>1. stream = <<>>
      BY <2>4 DEF PutsFirst
    <3> QED BY <2>4, <3>1 DEF PutsFirst
  <2>5. PICK e : e = [type |-> type, r |-> s, up |-> o.up, created |-> o.created, at |-> o.deleted]
    BY Zenon
  <2>6. CASE stream' = Append(stream, e) /\ connected /\ "watcher" \in Enabled
    <3>1. /\ Len(stream) \in Nat /\ Len(stream') = Len(stream) + 1 /\ stream'[Len(stream) + 1] = e
          /\ \A k \in 1..Len(stream) : stream'[k] = stream[k] /\ stream[k].r \in Resources
      <4>1. e = stream'[Len(stream')] /\ Len(stream') \in 1..Len(stream')
        BY <1>1, <2>6
      <4>2. e \in Events
        BY <1>1, <4>1
      <4>3. \A k \in 1..Len(stream) : stream[k] \in Events
        BY <1>1
      <4>4. \A k \in 1..Len(stream) : stream[k].r \in Resources
        BY <4>3 DEF Events
      <4> QED BY <1>1, <2>6, <4>2, <4>4
    <3>2. ASSUME NEW k \in 1..Len(stream'), stream'[k].type = "put"
          PROVE  \/ osac'[stream'[k].r].there = "yes"
                 \/ \E j \in 1..Len(stream') :
                      j > k /\ stream'[j].type = "del" /\ stream'[j].r = stream'[k].r
      <4>1. CASE k = Len(stream) + 1
        BY <2>1, <2>3, <2>5, <3>1, <3>2, <4>1
      <4>2. CASE k \in 1..Len(stream) /\ stream[k].r = s
        <5>1. CASE type = "put"
          BY <2>1, <2>3, <3>1, <4>2, <5>1
        <5>2. CASE type = "del"
          <6>1. Len(stream) + 1 \in 1..Len(stream') /\ Len(stream) + 1 > k
            BY <3>1, <4>2
          <6> QED BY <2>5, <3>1, <4>2, <5>2, <6>1
        <5> QED BY <2>1, <5>1, <5>2
      <4>3. CASE k \in 1..Len(stream) /\ stream[k].r # s
        <5>1. CASE osac[stream[k].r].there = "yes"
          BY <2>3, <3>1, <4>3, <5>1
        <5>2. CASE \E j \in 1..Len(stream) : j > k /\ stream[j].type = "del" /\ stream[j].r = stream[k].r
          BY <3>1, <4>3, <5>2
        <5> QED BY <3>1, <3>2, <4>3, <5>1, <5>2 DEF PutsFirst
      <4> QED BY <3>1, <4>1, <4>2, <4>3
    <3> QED BY <2>2, <2>6, <3>2, Zenon DEF PutsFirst
  <2> QED BY <2>1, <2>4, <2>5, <2>6 DEF Become, Announce
<1>4. CASE WatchEvent /\ UNCHANGED <<osac, connected>>
  <2>1. stream # <<>> /\ stream' = Tail(stream)
    BY <1>4 DEF WatchEvent
  <2>2. /\ Len(stream) \in Nat /\ Len(stream) = Len(stream') + 1 /\ Len(stream') \in Nat
        /\ \A k \in 1..Len(stream') : stream'[k] = stream[k + 1]
    BY <1>1, <2>1
  <2>3. ASSUME NEW k \in 1..Len(stream'), stream'[k].type = "put"
        PROVE  \/ osac[stream'[k].r].there = "yes"
               \/ \E j \in 1..Len(stream') :
                    j > k /\ stream'[j].type = "del" /\ stream'[j].r = stream'[k].r
    <3>1. k + 1 \in 1..Len(stream) /\ stream[k + 1] = stream'[k]
      BY <2>2
    <3>2. CASE \E j \in 1..Len(stream) :
                 j > k + 1 /\ stream[j].type = "del" /\ stream[j].r = stream'[k].r
      <4>1. PICK j \in 1..Len(stream) :
              j > k + 1 /\ stream[j].type = "del" /\ stream[j].r = stream'[k].r
        BY <3>2
      <4>2. j - 1 \in 1..Len(stream') /\ j - 1 > k /\ (j - 1) + 1 = j
        BY <2>2, <4>1
      <4>3. stream'[j - 1] = stream[j]
        BY <2>2, <4>2
      <4> QED BY <4>1, <4>2, <4>3
    <3> QED BY <2>3, <3>1, <3>2 DEF PutsFirst
  <2> QED BY <1>4, <2>1, <2>3 DEF PutsFirst
<1>5. CASE Repeat
  <2>1. /\ UNCHANGED <<osac, connected>>
        /\ stream # <<>> /\ stream' = <<Head(stream)>> \o stream
    BY <1>5 DEF Repeat
  <2>2. /\ Len(stream) \in Nat /\ Len(stream) > 0 /\ Len(stream') = Len(stream) + 1
        /\ stream'[1] = stream[1]
        /\ \A k \in 1..Len(stream) : stream'[k + 1] = stream[k]
    BY <1>1, <2>1
  <2>3. ASSUME NEW k \in 1..Len(stream'), stream'[k].type = "put"
        PROVE  \/ osac[stream'[k].r].there = "yes"
               \/ \E j \in 1..Len(stream') :
                    j > k /\ stream'[j].type = "del" /\ stream'[j].r = stream'[k].r
    <3>1. PICK m \in 1..Len(stream) : stream[m] = stream'[k] /\ m + 1 >= k
      <4>1. CASE k = 1
        BY <2>2, <4>1
      <4>2. CASE k > 1
        <5>1. k - 1 \in 1..Len(stream) /\ (k - 1) + 1 = k
          BY <2>2, <4>2
        <5> QED BY <2>2, <5>1
      <4> QED BY <4>1, <4>2
    <3>2. CASE \E j \in 1..Len(stream) : j > m /\ stream[j].type = "del" /\ stream[j].r = stream[m].r
      <4>1. PICK j \in 1..Len(stream) : j > m /\ stream[j].type = "del" /\ stream[j].r = stream[m].r
        BY <3>2
      <4>2. j + 1 \in 1..Len(stream') /\ j + 1 > k /\ stream'[j + 1] = stream[j]
        BY <2>2, <3>1, <4>1
      <4> QED BY <3>1, <4>1, <4>2
    <3> QED BY <2>3, <3>1, <3>2 DEF PutsFirst
  <2> QED BY <2>1, <2>3 DEF PutsFirst
<1>6. CASE Disconnect \/ Crash
  <2>1. stream' = <<>>
    BY <1>6, Zenon DEF Disconnect, Crash
  <2> QED BY <2>1 DEF PutsFirst
<1>7. CASE Tick \/ Connect \/ UNCHANGED vars \/ MeterFinal \/ WatchMark
  BY <1>2, <1>7 DEF Tick, Connect, vars, MeterFinal, WatchMark
<1>8. CASE HandleCreateOrUpdate \/ HandleDelete
  BY <1>4, <1>8 DEF HandleCreateOrUpdate, HandleDelete
<1>9. CASE Sweep
  BY <1>2, <1>9, SweepSteps, Zenon DEF StartSweep, SweepInsert, SweepUpdate, ListBillable
<1>10. ASSUME NEW i \in Reconcilers, ReconcileAll(i) PROVE PutsFirst'
  BY <1>2, <1>10, ReconcileSteps, Zenon DEF StartReconcile, ListOsac, FixCreate, FixDelete, ListKnown
<1>11. ASSUME NEW r \in Resources, NEW from \in Times, NEW to \in Times, Heartbeat(r, from, to)
       PROVE  PutsFirst'
  BY <1>2, <1>11 DEF Heartbeat
<1> QED BY <1>3, <1>5, <1>6, <1>7, <1>8, <1>9, <1>10, <1>11 DEF Next, Watch

LEMMA RestNext ==
  ASSUME "collector" \notin Enabled, TypeOK, TypeOK', GapInv, AtRest, MovesOn, [Next]_vars
  PROVE  AtRest' /\ MovesOn'
<1> USE DEF world, feed, meters, AtRest, MovesOn
<1>4. ASSUME UNCHANGED sweep, RowsKept PROVE MovesOn'
  <2>1. sweep.pc = "update" => sweep.r \in Resources /\ inv[sweep.r] # None
    BY DEF GapInv
  <2>2. sweep.pc = "update" => PeriodStart(inv'[sweep.r]) = PeriodStart(inv[sweep.r])
    BY <1>4, <2>1 DEF RowsKept, PeriodStart
  <2> QED BY <1>4, <2>2
<1>5. UNCHANGED inv => RowsKept
  BY DEF RowsKept
<1>6. ASSUME UNCHANGED <<inv, watcher, sweep>> PROVE AtRest' /\ MovesOn'
  BY <1>6
<1>7. ASSUME NEW r \in Resources, Provision(r) \/ Change(r) \/ Remove(r) PROVE AtRest' /\ MovesOn'
  BY <1>6, <1>7, Zenon DEF Provision, Change, Remove, Become
<1>8. CASE Tick \/ Connect \/ Disconnect \/ Repeat \/ UNCHANGED vars
  BY <1>6, <1>8 DEF Tick, Connect, Disconnect, Repeat, vars
<1>9. CASE HandleCreateOrUpdate
  <2>1. Head(stream) \in Events
    BY <1>9, HeadIsEvent, Zenon DEF HandleCreateOrUpdate
  <2>2. RowsKept
    BY <1>5, <1>9, <2>1, UpsertKeeps, Zenon DEF HandleCreateOrUpdate, UpsertOf, Events
  <2> QED BY <1>4, <1>9, <2>2, Zenon DEF HandleCreateOrUpdate
<1>10. CASE HandleDelete
  <2>0. PICK r, from, to :
          \/ watcher' = [pc |-> "final", r |-> r, from |-> from, to |-> to]
          \/ watcher' = [pc |-> "mark", r |-> r, from |-> from, to |-> to]
    BY <1>10, Zenon DEF HandleDelete
  <2>1. watcher'.pc # "idle"
    BY <2>0
  <2>2. UNCHANGED <<inv, sweep>>
    BY <1>10, Zenon DEF HandleDelete
  <2> QED BY <1>4, <1>5, <2>1, <2>2
<1>11. CASE MeterFinal
  <2>1. watcher'.pc # "idle" /\ UNCHANGED <<inv, sweep>>
    BY <1>11, PassTypes DEF MeterFinal, WatcherStates
  <2> QED BY <1>4, <1>5, <2>1
<1>12. CASE WatchMark
  <2>1. RowsKept
    BY <1>5, <1>12, MarkKeeps, PassTypes, Zenon DEF WatchMark, WatcherStates
  <2> QED BY <1>4, <1>12, <2>1, Zenon DEF WatchMark, Waiting
<1>13. CASE Sweep
  <2>1. watcher' = watcher
    BY <1>13, SweepSteps, Zenon DEF StartSweep, SweepInsert, SweepUpdate, ListBillable
  <2>2. CASE StartSweep
    <3>1. sweep'.pc # "update"
      BY <2>2 DEF StartSweep, Resting
    <3> QED BY <2>1, <3>1
  <2>3. ASSUME NEW kind, ListBillable(BillableRows(kind)) PROVE MovesOn'
    <3>1. Due(BillableRows(kind)) \subseteq [r: Resources, from: Times]
      BY DueRows
    <3>2. sweep \in SweepStates /\ [sweep EXCEPT !.todo = Due(BillableRows(kind))] \in SweepStates
      BY <3>1, PassTypes, Zenon DEF SweepStates
    <3>3. sweep'.pc # "update"
      BY <2>3, <3>2, OnwardKeeps DEF ListBillable
    <3> QED BY <3>3
  <2>4. CASE SweepInsert
    <3>1. PICK x \in sweep.todo :
            sweep' = [sweep EXCEPT !.pc = "update", !.todo = sweep.todo \ {x}, !.r = x.r]
      BY <2>4, Zenon DEF SweepInsert
    <3>2. sweep'.r = x.r /\ sweep'.now = sweep.now /\ inv' = inv
      BY <2>4, <3>1, PassTypes, Zenon DEF SweepInsert, SweepStates
    <3>3. x.from = PeriodStart(inv[x.r]) /\ x.from < sweep.now
      BY Zenon DEF GapInv, TypeOK
    <3> QED BY <2>1, <3>2, <3>3
  <2>5. CASE SweepUpdate
    <3>1. sweep'.pc # "update"
      BY <2>5, OnwardKeeps, PassTypes, Zenon DEF SweepUpdate
    <3> QED BY <2>1, <3>1
  <2> QED BY <1>13, <2>1, <2>2, <2>3, <2>4, <2>5, SweepSteps, Zenon
<1>14. ASSUME NEW i \in Reconcilers, ReconcileAll(i) PROVE AtRest' /\ MovesOn'
  <2>1. UNCHANGED <<watcher, sweep>>
    BY <1>14, ReconcileSteps, Zenon DEF StartReconcile, ListOsac, FixCreate, FixDelete, ListKnown
  <2>2. CASE FixCreate(i)
    <3>1. recs[i] \in PassStates
      BY PassTypes
    <3>2. \A x \in recs[i].create : x.up \in BOOLEAN /\ x.created \in Times
      BY <3>1 DEF PassStates
    <3> QED BY <1>5, <2>2, <3>2, UpsertKeeps, <1>4, <2>1 DEF FixCreate
  <2>3. CASE FixDelete(i)
    BY <1>4, <1>5, <2>1, <2>3, MarkKeeps, FeedTypes DEF FixDelete
  <2>4. ASSUME \/ StartReconcile(i) \/ ListOsac(i)
               \/ \E kind \in {"vm", "cluster", "bm"} : ListKnown(i, AliveRows(kind))
        PROVE  UNCHANGED inv
    BY <2>4 DEF StartReconcile, ListOsac, ListKnown
  <2> QED BY <1>6, <1>14, <2>1, <2>2, <2>3, <2>4, ReconcileSteps, Zenon
<1>15. CASE Crash
  <2>1. watcher' = Waiting /\ sweep' = Resting
    BY <1>15 DEF Crash
  <2> QED BY <2>1, RestTypes DEF Waiting
<1>16. ~ \E q \in Resources, from, to \in Times : Heartbeat(q, from, to)
  BY Zenon DEF Heartbeat
<1> HIDE DEF AtRest, MovesOn
<1> QED BY <1>7, <1>8, <1>9, <1>10, <1>11, <1>12, <1>13, <1>14, <1>15, <1>16 DEF Next, Watch

LEMMA OnceInit == Init => OnceInv
<1> SUFFICES ASSUME Init PROVE OnceInv
  OBVIOUS
<1>1. ASSUME NEW r \in Resources PROVE Dels(r, 1) /\ \A t \in Times : Once(r, t, 1)
  <2> DEFINE c == [k \in 1..1 |-> 1]
  <2>1. stream = <<>> /\ Len(stream) = 0 /\ osac[r].there # "gone"
    BY DEF Init
  <2>2. c \in [1..(Len(stream) + 1) -> Nat] /\ c[1] = 1
    BY <2>1
  <2> HIDE DEF c
  <2>3. Dels(r, 1)
    BY <2>1, <2>2 DEF Dels
  <2>4. ASSUME NEW t \in Times PROVE Once(r, t, 1)
    <3>1. Pending(r, t) = 0
      BY RestTypes DEF Init, Pending
    <3>2. Used(r, t) = 0
      BY <3>1 DEF Init, Used
    <3>3. Spare(r, t, 1) \in {0, 1}
      BY DEF Spare
    <3> QED BY <3>2, <3>3 DEF Init, Once
  <2> QED BY <2>3, <2>4
<1>2. PutsFirst
  BY DEF Init, PutsFirst
<1>3. \A r \in Resources : \E d \in Nat : Dels(r, d) /\ \A t \in Times : Once(r, t, d)
  <2>1. 1 \in Nat
    OBVIOUS
  <2> QED BY <1>1, <2>1, Zenon
<1> QED BY <1>2, <1>3, RestTypes, Zenon DEF Init, OnceInv, AtRest, MovesOn, Waiting

LEMMA OnceNext ==
  ASSUME "collector" \notin Enabled, TypeOK, TypeOK', GapInv, OnceInv, [Next]_vars
  PROVE  OnceInv'
<1>1. PutsFirst' /\ AtRest' /\ MovesOn'
  BY PutsNext, RestNext DEF OnceInv
<1>2. ASSUME NEW r \in Resources PROVE \E d \in Nat : Dels(r, d)' /\ \A t \in Times : Once(r, t, d)'
  <2>1. PICK d \in Nat : Dels(r, d) /\ \A t \in Times : Once(r, t, d)
    BY DEF OnceInv
  <2> QED BY <2>1, OnceStep DEF OnceInv
<1> QED BY <1>1, <1>2 DEF OnceInv

(***************************************************************************)
(* For any fleet, reconcilers and failures, sweep and final metering meter *)
(* a unit of a resource at most once, and once more for each failure and   *)
(* for a deletion that raced.  (finalMeterOnDelete and                     *)
(* meterComputeInstances agree on last_metered_at, which each reads before *)
(* the other writes it.)                                                   *)
(***************************************************************************)
THEOREM MeteredAtMostOnce == Spec => []MeteredOnce
<1> DEFINE Inv == TypeOK /\ ("collector" \notin Enabled => GapInv /\ OnceInv)
<1>1. Init => Inv
  BY TypeInit, GapInit, OnceInit
<1>2. Inv /\ [Next]_vars => Inv'
  BY TypeNext, GapNext, OnceNext
<1>3. Inv => MeteredOnce
  <2> SUFFICES ASSUME TypeOK, OnceInv, NEW r \in Resources, NEW t \in Times
               PROVE  swept[r][t] + final[r][t] <= 1 + faults + (IF r \in raced THEN 1 ELSE 0)
    BY DEF MeteredOnce
  <2>1. PICK d \in Nat : Once(r, t, d)
    BY DEF OnceInv
  <2>2. swept[r][t] \in Nat /\ final[r][t] \in Nat /\ faults \in Nat /\ Pending(r, t) \in {0, 1}
    BY CountTypes DEF Counts, Pending
  <2>3. Used(r, t) \in Nat /\ swept[r][t] + final[r][t] <= Used(r, t)
    BY <2>2 DEF Used
  <2>4. Spare(r, t, d) \in Nat
    BY DEF Spare
  <2>5. r \notin raced => Used(r, t) <= 1 + faults
    BY <2>1, <2>2, <2>3, <2>4 DEF Once
  <2>6. Used(r, t) <= 2 + faults
    BY <2>1, <2>2, <2>3 DEF Once
  <2> QED BY <2>2, <2>3, <2>5, <2>6
<1> QED BY <1>1, <1>2, <1>3, PTL DEF Spec

=============================================================================
