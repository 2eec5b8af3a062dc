----------------------------- MODULE ProjectCache -----------------------------
(***************************************************************************)
(* The tenant's default project: the metering goroutine and the event      *)
(* handlers read it through a cache without expiry, and UpsertProject of   *)
(* the watcher and of the reconciler writes the table and then drops the   *)
(* cache entry.                                                            *)
(***************************************************************************)
EXTENDS Integers, Sequences, FiniteSets

CONSTANTS
  Projects, Tenants,
  Readers,      \* goroutines that meter
  Faults, MaxFaults,
  MaxMoves,     \* bound on the projects that move to another tenant
  Default,      \* the project "default"
  None

\* "query", "upsert": a statement fails; "crash": the process, and with it the cache.
FaultKinds == {"query", "upsert", "crash"}

Writers == {"watcher", "reconciler"}

VARIABLES
  osac,     \* the tenant of each project that exists in OSAC, None for the others
  projects,    \* inventory_project: the same
  cache,    \* projectCache: None for no entry
  reader,   \* the tenant of a lookup that missed, what its query returned
  writer,   \* the tenant of an upsert under way, the projects left of a pass with the
            \* tenants they were listed with
  left,     \* history: the tenant of each project that moved away
  faults

vars == <<osac, projects, cache, reader, writer, left, faults>>

IdleReader == [tenant |-> None, found |-> None]
IdleWriter == [tenant |-> None, left |-> {}]
EmptyCache == [t \in Tenants |-> None]

Init ==
  /\ osac = [p \in Projects |-> None] /\ projects = osac /\ cache = EmptyCache
  /\ reader = [r \in Readers |-> IdleReader] /\ writer = [w \in Writers |-> IdleWriter]
  /\ left = <<>> /\ faults = 0

Fault(kind) == kind \in Faults /\ faults < MaxFaults /\ faults' = faults + 1

\* A project is created in OSAC.
Create(p) ==
  /\ osac[p] = None /\ \E t \in Tenants : osac' = [osac EXCEPT ![p] = t]
  /\ UNCHANGED <<projects, cache, reader, writer, left, faults>>

\* A project comes to belong to another tenant, which UpsertProject allows for.
Move(p) ==
  /\ osac[p] # None /\ Len(left) < MaxMoves
  /\ \E t \in Tenants \ {osac[p]} : osac' = [osac EXCEPT ![p] = t]
  /\ left' = Append(left, osac[p])
  /\ UNCHANGED <<projects, cache, reader, writer, faults>>

-----------------------------------------------------------------------------
(***************************************************************************)
(* DefaultProjectForTenant: load, query on a miss, store.                  *)
(***************************************************************************)
\* LIMIT 1 without an order: any project of the tenant.
QueryProject(t) ==
  LET found == {p \in Projects : projects[p] = t} IN IF found = {} THEN {Default} ELSE found

LookUp(r, t) ==
  /\ reader[r].tenant = None /\ cache[t] = None
  /\ \/ /\ \E p \in QueryProject(t) : reader' = [reader EXCEPT ![r] = [tenant |-> t, found |-> p]]
        /\ UNCHANGED faults
     \/ Fault("query") /\ reader' = [reader EXCEPT ![r] = [tenant |-> t, found |-> Default]]
  /\ UNCHANGED <<osac, projects, cache, writer, left>>

StoreProject(r) ==
  /\ reader[r].tenant # None /\ reader' = [reader EXCEPT ![r] = IdleReader]
  /\ cache' = [cache EXCEPT ![reader[r].tenant] = reader[r].found]
  /\ UNCHANGED <<osac, projects, writer, left, faults>>

-----------------------------------------------------------------------------
(***************************************************************************)
(* reconcileProjects upserts every project that OSAC lists, the watcher    *)
(* the one of its event, each with the tenant it had then.                 *)
(***************************************************************************)
ListProjects ==
  /\ writer["reconciler"] = IdleWriter
  /\ writer' = [writer EXCEPT !["reconciler"].left =
                  {<<p, osac[p]>> : p \in {q \in Projects : osac[q] # None}}]
  /\ UNCHANGED <<osac, projects, cache, reader, left, faults>>

HandleProject(p) ==
  /\ writer["watcher"] = IdleWriter /\ osac[p] # None
  /\ writer' = [writer EXCEPT !["watcher"].left = {<<p, osac[p]>>}]
  /\ UNCHANGED <<osac, projects, cache, reader, left, faults>>

UpsertProject(w) ==
  /\ writer[w].tenant = None
  /\ \E rec \in writer[w].left :
       \/ /\ projects' = [projects EXCEPT ![rec[1]] = rec[2]]
          /\ writer' = [writer EXCEPT ![w] = [tenant |-> rec[2], left |-> @.left \ {rec}]]
          /\ UNCHANGED faults
       \/ /\ Fault("upsert") /\ writer' = [writer EXCEPT ![w].left = @ \ {rec}]
          /\ UNCHANGED projects
  /\ UNCHANGED <<osac, cache, reader, left>>

\* Bug: the cache keeps its entry.
KeepCached(w) ==
  /\ writer[w].tenant # None /\ writer' = [writer EXCEPT ![w].tenant = None]
  /\ UNCHANGED <<osac, projects, cache, reader, left, faults>>

\* Only the entry of the tenant that has the project now.
DropCached(w) ==
  /\ writer[w].tenant # None /\ writer' = [writer EXCEPT ![w].tenant = None]
  /\ cache' = [cache EXCEPT ![writer[w].tenant] = None]
  /\ UNCHANGED <<osac, projects, reader, left, faults>>

Crash ==
  /\ Fault("crash") /\ cache' = EmptyCache
  /\ reader' = [r \in Readers |-> IdleReader] /\ writer' = [w \in Writers |-> IdleWriter]
  /\ UNCHANGED <<osac, projects, left>>

-----------------------------------------------------------------------------
Next ==
  \/ \E p \in Projects : Create(p) \/ Move(p) \/ HandleProject(p)
  \/ \E r \in Readers : StoreProject(r) \/ \E t \in Tenants : LookUp(r, t)
  \/ \E w \in Writers : UpsertProject(w) \/ DropCached(w)
  \/ ListProjects \/ Crash

Spec == Init /\ [][Next]_vars

\* Lookups and upserts end, and the reconciler goes on.
Fairness ==
  /\ WF_vars(ListProjects) /\ \A r \in Readers : WF_vars(StoreProject(r))
  /\ \A w \in Writers : WF_vars(UpsertProject(w) \/ DropCached(w))

-----------------------------------------------------------------------------
TypeOK ==
  /\ osac \in [Projects -> Tenants \cup {None}] /\ projects \in [Projects -> Tenants \cup {None}]
  /\ cache \in [Tenants -> Projects \cup {Default, None}]
  /\ reader \in [Readers -> [tenant: Tenants \cup {None}, found: Projects \cup {Default, None}]]
  /\ writer \in [Writers -> [tenant: Tenants \cup {None}, left: SUBSET (Projects \X Tenants)]]
  /\ Len(left) \in 0..MaxMoves /\ faults \in 0..MaxFaults

Coherent(t) ==
  \/ cache[t] = None
  \/ cache[t] \in Projects /\ projects[cache[t]] = t
  \/ cache[t] = Default /\ \A p \in Projects : projects[p] # t

\* The last project of the tenant has moved to another: no upsert names the
\* tenant any more, and nothing drops its entry until the process ends.
Abandoned(t) == (\E i \in DOMAIN left : left[i] = t) /\ \A p \in Projects : osac[p] # t

(***************************************************************************)
(* Usage goes to a project of its tenant: from some time on the cached     *)
(* project is one of the tenant's, and "default" is cached only for a      *)
(* tenant without projects, although a lookup that queried before an       *)
(* upsert may fill the cache after the upsert emptied it, and although a   *)
(* project may move while an older listing of it is still to be written.   *)
(* A tenant whose last project has moved away is not covered: its entry    *)
(* may name that project for good.                                         *)
(***************************************************************************)
EventuallyCoherent == \A t \in Tenants : <>[](Coherent(t) \/ Abandoned(t))
==============================================================================
