------------------------------ MODULE RuleEngine ------------------------------
(***************************************************************************)
(* The pricing rules: instances started with RULES_DIR write their rule    *)
(* files to the table pricing_rules, file by file, and price from the      *)
(* files; instances without price from a cache of the table, which every   *)
(* rating sweep reloads when the sum of the row versions has changed.      *)
(* The instances get here through Startup, which composes the steps.       *)
(***************************************************************************)
EXTENDS Integers, FiniteSets, FiniteSetsExt

CONSTANTS
  Files,        \* the rule files
  Contents,     \* what a file may hold
  Dirs,         \* the rules directories an instance may be deployed with
  Seeders,      \* starts of an instance with RULES_DIR
  Engines,      \* instances without
  Faults, MaxFaults,
  None

\* "upsert", "query": a statement fails; "crash".
FaultKinds == {"upsert", "query", "crash"}

ASSUME RuleEngineAssumption ==
  /\ IsFiniteSet(Files) /\ IsFiniteSet(Seeders) /\ None \notin Contents
  /\ Dirs \subseteq [Files -> Contents]
  /\ Faults \subseteq FaultKinds /\ MaxFaults \in Nat

VARIABLES
  table,    \* pricing_rules: name to content and version, version 0 when there is no row
  dir,      \* the content of the rules directory of an instance, None before it starts
  todo,     \* the files that an instance has not seeded yet
  engine,   \* pc, the version read, the cache and its version
  faults

rules == <<table, dir, todo, engine>>

\* main.go stores a rule under the name of its file without the extension.
Name(f) == [base |-> f]
Names == {Name(f) : f \in Files}

\* NewFromStore.
NewFromStore == [pc |-> "idle", version |-> 0, cache |-> [n \in Names |-> None], cachedVersion |-> 0]

RulesInit ==
  /\ table = [n \in Names |-> [json |-> None, version |-> 0]]
  /\ dir = [i \in Seeders |-> None] /\ todo = [i \in Seeders |-> {}]
  /\ engine = [e \in Engines |-> NewFromStore] /\ faults = 0

Fault(kind) == kind \in Faults /\ faults < MaxFaults /\ faults' = faults + 1

-----------------------------------------------------------------------------
\* An instance with RULES_DIR starts; the directory may differ from the last one's.
Start(i) ==
  /\ dir[i] = None /\ \E d \in Dirs : dir' = [dir EXCEPT ![i] = d]
  /\ todo' = [todo EXCEPT ![i] = Files]
  /\ UNCHANGED <<table, engine, faults>>

\* Bug: an update leaves the version alone.
UpsertPricingRuleUnversioned(n, json) ==
  table' = [table EXCEPT ![n] = [json |-> json, version |-> 1]]

UpsertPricingRule(n, json) ==
  table' = [table EXCEPT ![n] = [json |-> json, version |-> @.version + 1]]

\* One file of the loop; a failure is logged and the loop goes on.
Seed(i, f) ==
  /\ f \in todo[i] /\ todo' = [todo EXCEPT ![i] = @ \ {f}]
  /\ \/ UpsertPricingRule(Name(f), dir[i][f]) /\ UNCHANGED faults
     \/ Fault("upsert") /\ UNCHANGED table
  /\ UNCHANGED <<dir, engine>>

PricingRulesVersion == MapThenSumSet(LAMBDA n : table[n].version, Names)

AllPricingRules == [n \in Names |-> table[n].json]

-----------------------------------------------------------------------------
(***************************************************************************)
(* ReloadIfChanged, at the start of a rating sweep: two queries.           *)
(***************************************************************************)
\* Bug: rules are loaded only into an empty cache.
CheckVersionOnce(e) ==
  /\ engine[e].pc = "idle" /\ engine[e].cachedVersion = 0 /\ PricingRulesVersion # 0
  /\ \/ /\ engine' = [engine EXCEPT ![e].pc = "load", ![e].version = PricingRulesVersion]
        /\ UNCHANGED faults
     \/ Fault("query") /\ UNCHANGED engine
  /\ UNCHANGED <<table, dir, todo>>

CheckVersion(e) ==
  /\ engine[e].pc = "idle" /\ PricingRulesVersion # engine[e].cachedVersion
  /\ \/ /\ engine' = [engine EXCEPT ![e].pc = "load", ![e].version = PricingRulesVersion]
        /\ UNCHANGED faults
     \/ Fault("query") /\ UNCHANGED engine
  /\ UNCHANGED <<table, dir, todo>>

LoadRules(e) ==
  /\ engine[e].pc = "load"
  /\ \/ /\ engine' = [engine EXCEPT ![e].pc = "idle", ![e].cache = AllPricingRules,
                                    ![e].cachedVersion = engine[e].version]
        /\ UNCHANGED faults
     \/ Fault("query") /\ engine' = [engine EXCEPT ![e].pc = "idle"]
  /\ UNCHANGED <<table, dir, todo>>

\* The process of an engine, or of an instance that is seeding, ends.
CrashEngine(e) ==
  /\ Fault("crash") /\ engine' = [engine EXCEPT ![e] = NewFromStore]
  /\ UNCHANGED <<table, dir, todo>>

CrashSeeder(i) ==
  /\ todo[i] # {} /\ Fault("crash") /\ todo' = [todo EXCEPT ![i] = {}]
  /\ UNCHANGED <<table, dir, engine>>

-----------------------------------------------------------------------------
RulesTypeOK ==
  /\ table \in [Names -> [json: Contents \cup {None}, version: Nat]]
  /\ dir \in [Seeders -> Dirs \cup {None}] /\ todo \in [Seeders -> SUBSET Files]
  /\ engine \in [Engines -> [pc: {"idle", "load"}, version: Nat,
                             cache: [Names -> Contents \cup {None}], cachedVersion: Nat]]
  /\ faults \in 0..MaxFaults

TableVersion == MapThenSumSet(LAMBDA n : table[n].version, Names)

(***************************************************************************)
(* ReloadIfChanged reloads nothing while the version of the cache is the   *)
(* version of the table: then the cache is the table. The version and the  *)
(* rules are read by two statements, with upserts of other instances in    *)
(* between.                                                                *)
(***************************************************************************)
UnchangedMeansFresh ==
  \A e \in Engines :
    engine[e].cachedVersion = TableVersion => \A n \in Names : engine[e].cache[n] = table[n].json

(***************************************************************************)
(* Once no more rules are written every engine has the table as it is in   *)
(* its cache, whatever failed before.  (What a rating finds in the cache   *)
(* is another matter: it looks rules up under the names of their files.)   *)
(***************************************************************************)
EventuallyReloaded ==
  <>[](\A e \in Engines, n \in Names : engine[e].cache[n] = table[n].json)
==============================================================================
