------------------------------- MODULE Startup -------------------------------
(***************************************************************************)
(* The start of an instance: main seeds the default rates and the default  *)
(* quotas, each into a table that it finds empty, row by row; an instance  *)
(* with RULES_DIR then seeds its rule files, one without goes on to price  *)
(* from the table (RuleEngine).  Instances start side by side and again    *)
(* after a failure.                                                        *)
(***************************************************************************)
EXTENDS RuleEngine, Sequences

CONSTANTS
  DefaultRates, DefaultQuotas   \* in the order of the code

ASSUME StartupAssumption == DefaultRates # <<>> /\ DefaultQuotas # <<>>

VARIABLES
  rates,     \* the rows of the table rates for each default
  quotas,    \* the rows of the table quotas for each default
  boot,      \* how far main has got: pc, and the next default to insert
  skipped,   \* history: the rates that a failed insert has left out
  cut,       \* history: whether an instance ended while it seeded
  together   \* history: whether two instances started side by side

seeds == <<rates, quotas, boot, skipped, cut, together>>
vars == <<rules, faults, seeds>>

Instances == Seeders \cup Engines

At(pc) == [pc |-> pc, next |-> 1]

Init ==
  /\ RulesInit
  /\ rates = [d \in DOMAIN DefaultRates |-> 0] /\ quotas = [d \in DOMAIN DefaultQuotas |-> 0]
  /\ boot = [i \in Instances |-> At("off")]
  /\ skipped = {} /\ cut = FALSE /\ together = FALSE

RateCount == MapThenSumSet(LAMBDA d : rates[d], DOMAIN rates)
QuotaCount == MapThenSumSet(LAMBDA d : quotas[d], DOMAIN quotas)

Seeding == {"rates", "quotas?", "quotas"}

-----------------------------------------------------------------------------
(***************************************************************************)
(* SeedDefaultRates.                                                       *)
(***************************************************************************)
\* Bug: the defaults are seeded on every start.
BootAlways(i) ==
  /\ boot[i].pc = "off" /\ boot' = [boot EXCEPT ![i] = At("rates")]
  /\ together' = (together \/ \E j \in Instances : boot[j].pc \in Seeding)
  /\ UNCHANGED <<rules, faults, rates, quotas, skipped, cut>>

\* A process starts and counts the rates; an error ends it.
Boot(i) ==
  /\ boot[i].pc = "off"
  /\ \/ /\ boot' = [boot EXCEPT ![i] = At(IF RateCount = 0 THEN "rates" ELSE "quotas?")]
        /\ UNCHANGED faults
     \/ Fault("query") /\ UNCHANGED boot
  /\ together' = (together \/ \E j \in Instances : boot[j].pc \in Seeding)
  /\ UNCHANGED <<rules, rates, quotas, skipped, cut>>

\* What follows the insert of a default: the next one, or the next part of main.
Onward(i, defaults, after) ==
  boot' = [boot EXCEPT ![i] = IF @.next = Len(defaults) THEN At(after) ELSE [@ EXCEPT !.next = @ + 1]]

\* No row conflicts with another, and an error is taken for a conflict.
UpsertRate(d) ==
  \/ rates' = [rates EXCEPT ![d] = @ + 1] /\ UNCHANGED <<skipped, faults>>
  \/ Fault("upsert") /\ skipped' = skipped \cup {d} /\ UNCHANGED rates

SeedRate(i) ==
  /\ boot[i].pc = "rates" /\ UpsertRate(boot[i].next) /\ Onward(i, DefaultRates, "quotas?")
  /\ UNCHANGED <<rules, quotas, cut, together>>

-----------------------------------------------------------------------------
(***************************************************************************)
(* SeedDefaultQuotas.  An error ends the process, which is started again.  *)
(***************************************************************************)
Exit(i) == boot' = [boot EXCEPT ![i] = At("off")]

CountQuotas(i) ==
  /\ boot[i].pc = "quotas?"
  /\ \/ /\ boot' = [boot EXCEPT ![i] = At(IF QuotaCount = 0 THEN "quotas" ELSE "ready")]
        /\ UNCHANGED faults
     \/ Fault("query") /\ Exit(i)
  /\ UNCHANGED <<rules, rates, quotas, skipped, cut, together>>

\* Bug: a quota that cannot be stored is passed over like a rate.
SeedQuotaOnward(i) ==
  /\ boot[i].pc = "quotas" /\ Onward(i, DefaultQuotas, "ready")
  /\ \/ quotas' = [quotas EXCEPT ![boot[i].next] = @ + 1] /\ UNCHANGED faults
     \/ Fault("upsert") /\ UNCHANGED quotas
  /\ UNCHANGED <<rules, rates, skipped, cut, together>>

SeedQuota(i) ==
  /\ boot[i].pc = "quotas"
  /\ \/ /\ quotas' = [quotas EXCEPT ![boot[i].next] = @ + 1] /\ Onward(i, DefaultQuotas, "ready")
        /\ UNCHANGED <<faults, cut>>
     \/ Fault("upsert") /\ Exit(i) /\ cut' = TRUE /\ UNCHANGED quotas
  /\ UNCHANGED <<rules, rates, skipped, together>>

CrashBooting(i) ==
  /\ boot[i].pc \in Seeding /\ Fault("crash") /\ Exit(i)
  /\ cut' = (cut \/ boot[i].pc \in {"rates", "quotas"})
  /\ UNCHANGED <<rules, rates, quotas, skipped, together>>

-----------------------------------------------------------------------------
\* An instance that is ready seeds its rules, or rates.
StartSeeder(i) == boot[i].pc = "ready" /\ Start(i) /\ UNCHANGED seeds
SeedRule(i) == (\E f \in Files : Seed(i, f)) /\ UNCHANGED seeds
EndSeeder(i) == CrashSeeder(i) /\ UNCHANGED seeds
CheckRules(e) == boot[e].pc = "ready" /\ CheckVersion(e) /\ UNCHANGED seeds
ReloadRules(e) == LoadRules(e) /\ UNCHANGED seeds
EndEngine(e) ==
  /\ boot[e].pc = "ready" /\ CrashEngine(e) /\ Exit(e)
  /\ UNCHANGED <<rates, quotas, skipped, cut, together>>

Booting(i) == Boot(i) \/ SeedRate(i) \/ CountQuotas(i) \/ SeedQuota(i)

Next ==
  \/ \E i \in Instances : Boot(i) \/ SeedRate(i) \/ CountQuotas(i) \/ SeedQuota(i) \/ CrashBooting(i)
  \/ \E i \in Seeders : StartSeeder(i) \/ SeedRule(i) \/ EndSeeder(i)
  \/ \E e \in Engines : CheckRules(e) \/ ReloadRules(e) \/ EndEngine(e)

Spec == Init /\ [][Next]_vars

\* An instance without RULES_DIR is started until it is ready, and its rating
\* sweeps go on.
FairSpec ==
  /\ Spec
  /\ \A e \in Engines : WF_vars(Booting(e)) /\ WF_vars(CheckRules(e) \/ ReloadRules(e))

-----------------------------------------------------------------------------
TypeOK ==
  /\ RulesTypeOK
  /\ rates \in [DOMAIN DefaultRates -> Nat] /\ quotas \in [DOMAIN DefaultQuotas -> Nat]
  /\ boot \in [Instances -> [pc: {"off", "ready"} \cup Seeding, next: Nat]]
  /\ \A i \in Instances : boot[i].pc = "rates" => boot[i].next \in DOMAIN DefaultRates
  /\ \A i \in Instances : boot[i].pc = "quotas" => boot[i].next \in DOMAIN DefaultQuotas
  /\ skipped \subseteq DOMAIN DefaultRates /\ cut \in BOOLEAN /\ together \in BOOLEAN

(***************************************************************************)
(* While instances start one after the other, restarts after failures and  *)
(* crashes included, no default rate and no default quota is seeded twice: *)
(* no constraint of the tables prevents it, only the counts do.  Instances *)
(* that start side by side may all find a table empty; then a default is   *)
(* there at most once for each of them, however often they start again.    *)
(***************************************************************************)
SeededOnce ==
  LET most == IF together THEN Cardinality(Instances) ELSE 1
  IN /\ \A d \in DOMAIN rates : rates[d] <= most
     /\ \A d \in DOMAIN quotas : quotas[d] <= most

(***************************************************************************)
(* An instance that is ready finds every default, unless an insert failed, *)
(* a start was cut short (no later start completes it), or another         *)
(* instance is still at it.  What a start that was cut short leaves has no *)
(* gaps: no default is there without the ones before it, but for the rates *)
(* whose insert failed.                                                    *)
(***************************************************************************)
SeededWhole ==
  /\ TypeOK
  /\ (\E i \in Instances : boot[i].pc = "ready") /\ ~cut =>
       /\ \/ \E i \in Instances : boot[i].pc = "rates"
          \/ \A d \in DOMAIN rates : rates[d] > 0 \/ d \in skipped
       /\ \/ \E i \in Instances : boot[i].pc = "quotas"
          \/ \A d \in DOMAIN quotas : quotas[d] > 0
  /\ \A d \in DOMAIN rates : rates[d] > 0 => \A c \in 1..d : rates[c] > 0 \/ c \in skipped
  /\ \A d \in DOMAIN quotas : quotas[d] > 0 => \A c \in 1..d : quotas[c] > 0
==============================================================================
