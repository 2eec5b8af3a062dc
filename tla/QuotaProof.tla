----------------------------- MODULE QuotaProof -----------------------------
(***************************************************************************)
(* Alerts, refusals and the overcommit check of Quota, for any plan.       *)
(***************************************************************************)
EXTENDS Quota, FiniteSetTheorems, TLAPS

-----------------------------------------------------------------------------
(***************************************************************************)
(* Sums over a finite set.  MapThenSumSet adds up one picked element after *)
(* the other.  What the sum is does not depend on the picks; each fact is  *)
(* shown for a least set that would contradict it.                         *)
(***************************************************************************)
Pick(s) == CHOOSE x \in s : TRUE
Adds(g, f, S) == g = [s \in SUBSET S |-> IF s = {} THEN 0 ELSE f[Pick(s)] + g[s \ {Pick(s)}]]

LEMMA TotalDef == ASSUME NEW f, NEW S PROVE Total(f, S) = (CHOOSE g : Adds(g, f, S))[S]
  BY Zenon DEF Total, MapThenSumSet, MapThenFoldSet, Adds, Pick

LEMMA Least ==
  ASSUME NEW S, IsFiniteSet(S), NEW T, T \subseteq SUBSET S, T # {}
  PROVE  \E x \in T : \A y \in T : ~(y \subseteq x /\ y # x)
<1>1. IsWellFoundedOn(StrictSubsetOrdering(S), SUBSET S)
  BY FS_StrictSubsetOrderingWellFounded, FS_FiniteSubsetsOfFinite
<1>2. PICK x \in T : \A y \in T : ~(<<y, x>> \in StrictSubsetOrdering(S))
  BY <1>1, WFMin, Zenon
<1>3. ASSUME NEW y \in T, y \subseteq x, y # x PROVE <<y, x>> \in StrictSubsetOrdering(S)
  BY <1>3 DEF StrictSubsetOrdering
<1>4. \A y \in T : ~(y \subseteq x /\ y # x)
  BY <1>2, <1>3, Zenon
<1> QED BY <1>4, Zenon

LEMMA AddsAgree ==
  ASSUME NEW f, NEW S, IsFiniteSet(S), NEW A \in SUBSET S, NEW B \in SUBSET S,
         NEW g, NEW h, Adds(g, f, A), Adds(h, f, B)
  PROVE  \A s \in SUBSET (A \cap B) : g[s] = h[s]
<1> DEFINE T == {s \in SUBSET (A \cap B) : g[s] # h[s]}
<1> SUFFICES ASSUME T # {} PROVE FALSE
  OBVIOUS
<1>1. PICK x \in T : \A y \in T : ~(y \subseteq x /\ y # x)
  <2>1. T \subseteq SUBSET S
    OBVIOUS
  <2> HIDE DEF T
  <2> QED BY <2>1, Least
<1>2. /\ g[x] = IF x = {} THEN 0 ELSE f[Pick(x)] + g[x \ {Pick(x)}]
      /\ h[x] = IF x = {} THEN 0 ELSE f[Pick(x)] + h[x \ {Pick(x)}]
  <2>1. x \in SUBSET A /\ x \in SUBSET B
    OBVIOUS
  <2> HIDE DEF T
  <2> QED BY <2>1, Zenon DEF Adds
<1>3. x # {} /\ g[x \ {Pick(x)}] # h[x \ {Pick(x)}]
  BY <1>2
<1>4. Pick(x) \in x
  BY <1>3 DEF Pick
<1> QED BY <1>1, <1>3, <1>4

\* The sums over the subsets of A, each from the one over a subset with an element less.
LEMMA AddsExist ==
  ASSUME NEW f, NEW S, IsFiniteSet(S), NEW A \in SUBSET S
  PROVE  \E g : Adds(g, f, A)
<1> DEFINE T == {s \in SUBSET S : ~ \E g : Adds(g, f, s)}
<1> SUFFICES ASSUME T # {} PROVE FALSE
  BY Zenon
<1>1. PICK x \in T : \A y \in T : ~(y \subseteq x /\ y # x)
  <2>1. T \subseteq SUBSET S
    OBVIOUS
  <2> HIDE DEF T
  <2> QED BY <2>1, Least
<1> DEFINE Upto(v) == (CHOOSE g : Adds(g, f, v))[v]
           h == [s \in SUBSET x |-> IF s = {} THEN 0 ELSE f[Pick(s)] + Upto(s \ {Pick(s)})]
<1>2. ASSUME NEW v \in SUBSET x, v # x PROVE Adds(CHOOSE g : Adds(g, f, v), f, v)
  <2>1. v \notin T /\ v \in SUBSET S
    BY <1>1, <1>2
  <2> QED BY <2>1, Zenon
<1>3. ASSUME NEW s \in SUBSET x, s # {} PROVE Upto(s \ {Pick(s)}) = h[s \ {Pick(s)}]
  <2> DEFINE v == s \ {Pick(s)}
             g == CHOOSE g : Adds(g, f, v)
  <2>1. Pick(s) \in s /\ v \in SUBSET x /\ v # x /\ x \in SUBSET S /\ v \in SUBSET S
    BY <1>3 DEF Pick
  <2>2. Adds(g, f, v)
    BY <1>2, <2>1
  <2>3. g[v] = IF v = {} THEN 0 ELSE f[Pick(v)] + g[v \ {Pick(v)}]
    <3> HIDE DEF v, g
    <3> QED BY <2>2, Zenon DEF Adds
  <2>4. h[v] = IF v = {} THEN 0 ELSE f[Pick(v)] + Upto(v \ {Pick(v)})
    <3> HIDE DEF v, Upto
    <3> QED BY <2>1
  <2>5. v # {} => g[v \ {Pick(v)}] = Upto(v \ {Pick(v)})
    <3>1. SUFFICES ASSUME v # {} PROVE g[v \ {Pick(v)}] = Upto(v \ {Pick(v)})
      OBVIOUS
    <3> DEFINE u == v \ {Pick(v)}
    <3>2. u \in SUBSET x /\ u # x /\ u \in SUBSET S /\ u \in SUBSET (v \cap u)
      BY <2>1
    <3>3. Adds(CHOOSE k : Adds(k, f, u), f, u)
      BY <1>2, <3>2, Zenon
    <3> HIDE DEF u, v, g
    <3>4. PICK k : k = CHOOSE kk : Adds(kk, f, u)
      OBVIOUS
    <3>5. Adds(k, f, u)
      BY <3>3, <3>4
    <3>6. \A r \in SUBSET (v \cap u) : g[r] = k[r]
      BY <2>1, <2>2, <3>2, <3>5, AddsAgree
    <3> QED BY <3>2, <3>4, <3>6, Zenon DEF u
  <2> HIDE DEF h
  <2> QED BY <2>3, <2>4, <2>5
<1>4. Adds(h, f, x)
  <2>1. ASSUME NEW s \in SUBSET x
        PROVE  h[s] = IF s = {} THEN 0 ELSE f[Pick(s)] + h[s \ {Pick(s)}]
    <3>1. CASE s = {}
      BY <3>1
    <3>2. CASE s # {}
      <4>1. h[s] = f[Pick(s)] + Upto(s \ {Pick(s)})
        <5> HIDE DEF Upto
        <5> QED BY <3>2
      <4> HIDE DEF h, Upto
      <4> QED BY <1>3, <3>2, <4>1
    <3> QED BY <3>1, <3>2
  <2>2. h = [s \in SUBSET x |-> h[s]]
    <3> HIDE DEF Upto
    <3> QED OBVIOUS
  <2> HIDE DEF h
  <2>3. h = [s \in SUBSET x |-> IF s = {} THEN 0 ELSE f[Pick(s)] + h[s \ {Pick(s)}]]
    BY <2>1, <2>2, Zenon
  <2> QED BY <2>3, Zenon DEF Adds
<1> HIDE DEF h
<1>5. \E g : Adds(g, f, x)
  BY <1>4
<1> QED BY <1>5

\* The sum over a finite set, from the one without the element that is picked.
LEMMA TotalPick ==
  ASSUME NEW f, NEW S, IsFiniteSet(S), NEW s \in SUBSET S
  PROVE  /\ s = {} => Total(f, s) = 0
         /\ s # {} => Pick(s) \in s /\ Total(f, s) = f[Pick(s)] + Total(f, s \ {Pick(s)})
<1>1. ASSUME NEW A \in SUBSET S
      PROVE  \E g : Adds(g, f, A) /\ Total(f, A) = g[A]
  <2>1. Adds(CHOOSE g : Adds(g, f, A), f, A)
    BY AddsExist, Zenon
  <2> QED BY <2>1, TotalDef, Zenon
<1>2. PICK g : Adds(g, f, s) /\ Total(f, s) = g[s]
  BY <1>1
<1>3. g[s] = IF s = {} THEN 0 ELSE f[Pick(s)] + g[s \ {Pick(s)}]
  BY <1>2, Zenon DEF Adds
<1>4. s # {} => Pick(s) \in s
  BY DEF Pick
<1>5. PICK v \in SUBSET S : v = s \ {Pick(s)}
  BY Zenon
<1>6. PICK h : Adds(h, f, v) /\ Total(f, v) = h[v]
  BY <1>1
<1>7. g[v] = h[v]
  <2>1. \A u \in SUBSET (s \cap v) : g[u] = h[u]
    BY <1>2, <1>6, AddsAgree
  <2>2. v \in SUBSET (s \cap v)
    BY <1>5
  <2> QED BY <2>1, <2>2
<1> QED BY <1>2, <1>3, <1>4, <1>5, <1>6, <1>7

LEMMA TotalInt ==
  ASSUME NEW S, IsFiniteSet(S), NEW f, \A x \in S : f[x] \in Int
  PROVE  \A s \in SUBSET S : Total(f, s) \in Int
<1> DEFINE T == {s \in SUBSET S : Total(f, s) \notin Int}
<1> SUFFICES ASSUME T # {} PROVE FALSE
  OBVIOUS
<1>1. PICK s \in T : \A y \in T : ~(y \subseteq s /\ y # s)
  <2>1. T \subseteq SUBSET S
    OBVIOUS
  <2> HIDE DEF T
  <2> QED BY <2>1, Least
<1>2. s # {} => Pick(s) \in s /\ Total(f, s) = f[Pick(s)] + Total(f, s \ {Pick(s)})
  BY TotalPick
<1>3. s # {}
  BY TotalPick
<1>4. Total(f, s \ {Pick(s)}) \in Int
  BY <1>1, <1>2, <1>3
<1>5. f[Pick(s)] \in Int
  BY <1>2, <1>3
<1> QED BY <1>2, <1>3, <1>4, <1>5

\* Whichever element is taken out.
LEMMA TotalWithout ==
  ASSUME NEW S, IsFiniteSet(S), NEW f, \A x \in S : f[x] \in Int
  PROVE  \A s \in SUBSET S, x \in S : x \in s => Total(f, s) = f[x] + Total(f, s \ {x})
<1> DEFINE T == {s \in SUBSET S : \E x \in s : Total(f, s) # f[x] + Total(f, s \ {x})}
<1> SUFFICES ASSUME T # {} PROVE FALSE
  BY Zenon
<1>1. PICK s \in T : \A y \in T : ~(y \subseteq s /\ y # s)
  <2>1. T \subseteq SUBSET S
    OBVIOUS
  <2> HIDE DEF T
  <2> QED BY <2>1, Least
<1>2. PICK x \in s : Total(f, s) # f[x] + Total(f, s \ {x})
  OBVIOUS
<1>3. PICK p \in s : p = Pick(s) /\ Total(f, s) = f[p] + Total(f, s \ {p})
  <2>1. s # {} /\ s \in SUBSET S
    BY <1>2
  <2> HIDE DEF T
  <2>2. Pick(s) \in s /\ Total(f, s) = f[Pick(s)] + Total(f, s \ {Pick(s)})
    BY <2>1, TotalPick, Zenon
  <2> QED BY <2>2, Zenon
<1>4. \A y \in SUBSET s, z \in s : y # s /\ z \in y => Total(f, y) = f[z] + Total(f, y \ {z})
  BY <1>1, Zenon
<1>5. PICK a, b, c \in SUBSET s : a = s \ {p} /\ b = s \ {x} /\ c = s \ {p, x}
  BY Zenon
<1>6. p # x /\ a # s /\ b # s /\ x \in a /\ p \in b /\ a \ {x} = c /\ b \ {p} = c
  BY <1>2, <1>3, <1>5, Zenon
<1>7. Total(f, a) = f[x] + Total(f, c) /\ Total(f, b) = f[p] + Total(f, c)
  BY <1>4, <1>6
<1>8. f[x] \in Int /\ f[p] \in Int /\ Total(f, c) \in Int
  BY TotalInt
<1>9. Total(f, s) = f[p] + (f[x] + Total(f, c))
  BY <1>3, <1>5, <1>7
<1>10. Total(f, s) # f[x] + (f[p] + Total(f, c))
  BY <1>2, <1>5, <1>7
<1> HIDE DEF T
<1> QED BY <1>8, <1>9, <1>10

LEMMA TotalGrows ==
  ASSUME NEW S, IsFiniteSet(S), NEW f, NEW h,
         \A x \in S : f[x] \in Int /\ h[x] \in Int /\ f[x] <= h[x]
  PROVE  Total(f, S) <= Total(h, S)
<1> DEFINE T == {s \in SUBSET S : ~(Total(f, s) <= Total(h, s))}
<1> SUFFICES ASSUME T # {} PROVE FALSE
  OBVIOUS
<1>1. PICK s \in T : \A y \in T : ~(y \subseteq s /\ y # s)
  <2>1. T \subseteq SUBSET S
    OBVIOUS
  <2> HIDE DEF T
  <2> QED BY <2>1, Least
<1>2. s # {} => /\ Pick(s) \in s /\ Total(f, s) = f[Pick(s)] + Total(f, s \ {Pick(s)})
                /\ Total(h, s) = h[Pick(s)] + Total(h, s \ {Pick(s)})
  BY TotalPick
<1>3. s # {}
  BY TotalPick
<1>4. Total(f, s \ {Pick(s)}) <= Total(h, s \ {Pick(s)})
  BY <1>1, <1>2, <1>3
<1>5. /\ f[Pick(s)] \in Int /\ h[Pick(s)] \in Int /\ f[Pick(s)] <= h[Pick(s)]
      /\ Total(f, s \ {Pick(s)}) \in Int /\ Total(h, s \ {Pick(s)}) \in Int
  BY <1>2, <1>3, TotalInt
<1>6. ~(Total(f, s) <= Total(h, s))
  OBVIOUS
<1> HIDE DEF T
<1> QED BY <1>2, <1>3, <1>4, <1>5, <1>6

LEMMA TotalSame ==
  ASSUME NEW S, IsFiniteSet(S), NEW f, NEW h, \A x \in S : f[x] \in Int /\ f[x] = h[x]
  PROVE  Total(f, S) = Total(h, S)
<1>1. Total(f, S) <= Total(h, S) /\ Total(h, S) <= Total(f, S)
  BY TotalGrows
<1>2. Total(f, S) \in Int /\ Total(h, S) \in Int
  BY TotalInt
<1> QED BY <1>1, <1>2

\* One more row, the others the same.
LEMMA TotalAdds ==
  ASSUME NEW S, IsFiniteSet(S), NEW n, n \notin S, NEW f, NEW h, h[n] \in Int,
         \A x \in S : f[x] \in Int /\ f[x] = h[x]
  PROVE  Total(h, S \cup {n}) = h[n] + Total(f, S)
<1>1. IsFiniteSet(S \cup {n}) /\ \A x \in S \cup {n} : h[x] \in Int
  BY FS_AddElement
<1>2. PICK A : A = S \cup {n}
  BY Zenon
<1>3. Total(h, A) = h[n] + Total(h, A \ {n})
  <2>1. A \in SUBSET A /\ n \in A
    BY <1>2
  <2> QED BY <1>1, <1>2, <2>1, TotalWithout
<1>4. A \ {n} = S
  BY <1>2
<1>5. Total(f, S) = Total(h, S)
  BY TotalSame
<1> QED BY <1>2, <1>3, <1>4, <1>5

LEMMA TotalNat ==
  ASSUME NEW S, IsFiniteSet(S), NEW f, \A x \in S : f[x] \in Nat
  PROVE  Total(f, S) \in Nat
<1> DEFINE T == {s \in SUBSET S : Total(f, s) \notin Nat}
<1> SUFFICES ASSUME T # {} PROVE FALSE
  OBVIOUS
<1>1. PICK s \in T : \A y \in T : ~(y \subseteq s /\ y # s)
  <2>1. T \subseteq SUBSET S
    OBVIOUS
  <2> HIDE DEF T
  <2> QED BY <2>1, Least
<1>2. s # {} => Pick(s) \in s /\ Total(f, s) = f[Pick(s)] + Total(f, s \ {Pick(s)})
  BY TotalPick
<1>3. s # {}
  BY TotalPick
<1>4. Total(f, s \ {Pick(s)}) \in Nat /\ f[Pick(s)] \in Nat
  BY <1>1, <1>2, <1>3
<1> QED BY <1>2, <1>3, <1>4

-----------------------------------------------------------------------------
(***************************************************************************)
(* Types.                                                                  *)
(***************************************************************************)
LEMMA PlanTypes ==
  ASSUME TypeOK
  PROVE  /\ plan \in Plans /\ plan.create \subseteq QuotaRows /\ plan.update \subseteq QuotaRows
         /\ plan.hours \in Seq(Nat) /\ plan.hours # <<>> /\ IsFiniteSet(plan.entries)
         /\ plan.faults \in Nat /\ faults \in Nat /\ Now \in Nat
         /\ \A q \in plan.create : q.limit > 0
<1>1. plan \in Plans /\ clock \in DOMAIN plan.hours /\ faults \in 0..plan.faults
  BY Zenon DEF TypeOK
<1>2. /\ plan.create \cup plan.update \subseteq QuotaRows /\ \A q \in plan.create : q.limit > 0
      /\ plan.hours \in Seq(Nat) /\ plan.hours # <<>> /\ IsFiniteSet(plan.entries)
      /\ plan.faults \in Nat
  BY <1>1, QuotaAssumption
<1>3. plan.hours[clock] \in Nat
  BY <1>1, <1>2
<1> QED BY <1>1, <1>2, <1>3 DEF Now

LEMMA FaultType ==
  ASSUME TypeOK, NEW kind, Fault(kind) PROVE faults' \in 0..plan.faults /\ faults' > 0
  BY PlanTypes DEF Fault, TypeOK

\* A change of the table leaves every request but the one that made it as it was.
LEMMA OvertakeKeeps ==
  ASSUME req \in [plan.requests -> Requests], NEW r, NEW x \in plan.requests,
         Overtake(r)[x] # NoRequest
  PROVE  /\ x # r /\ req[x] # NoRequest /\ Overtake(r)[x] \in Requests
         /\ Overtake(r)[x].pc = req[x].pc /\ Overtake(r)[x].id = req[x].id
         /\ Overtake(r)[x].q = req[x].q /\ Overtake(r)[x].limit = req[x].limit
         /\ Overtake(r)[x].overtaken = TRUE
<1>1. /\ x # r /\ req[x].pc # "idle" /\ Overtake(r)[x] = [req[x] EXCEPT !.overtaken = TRUE]
  BY DEF Overtake
<1>2. req[x] \in [pc: {"sum", "write"}, q: QuotaRows, id: Nat, limit: Int, overtaken: BOOLEAN]
  BY <1>1 DEF Requests, NoRequest
<1>3. req[x] # NoRequest
  BY <1>1 DEF NoRequest
<1> QED BY <1>1, <1>2, <1>3, Zenon DEF Requests

LEMMA OvertakeType ==
  ASSUME req \in [plan.requests -> Requests], NEW r
  PROVE  /\ Overtake(r) \in [plan.requests -> Requests]
         /\ \A x \in plan.requests : Overtake(r)[x] # NoRequest =>
              req[x] # NoRequest /\ Overtake(r)[x].id = req[x].id
<1>1. \A x \in plan.requests : Overtake(r)[x] # NoRequest =>
        /\ req[x] # NoRequest /\ Overtake(r)[x].id = req[x].id /\ Overtake(r)[x] \in Requests
  BY OvertakeKeeps, Zenon
<1>2. NoRequest \in Requests
  BY DEF Requests
<1>3. Overtake(r) = [x \in plan.requests |-> Overtake(r)[x]]
  BY DEF Overtake
<1> QED BY <1>1, <1>2, <1>3

LEMMA WriteType ==
  ASSUME TypeOK, NEW r \in plan.requests, NEW q \in QuotaRows, NEW id \in {0} \cup DOMAIN quotas,
         Write(r, q, id)
  PROVE  /\ quotas' \in Seq(QuotaRows) /\ active' \subseteq DOMAIN quotas'
         /\ req' \in [plan.requests -> Requests]
         /\ \A x \in plan.requests : req'[x] # NoRequest => req'[x].id \in {0} \cup DOMAIN quotas'
<1>1. /\ quotas \in Seq(QuotaRows) /\ active \subseteq DOMAIN quotas
      /\ req \in [plan.requests -> Requests]
      /\ \A x \in plan.requests : req[x] # NoRequest => req[x].id \in {0} \cup DOMAIN quotas
  BY Zenon DEF TypeOK
<1>2. Len(quotas) \in Nat /\ DOMAIN quotas = 1..Len(quotas)
  BY <1>1
<1>3. /\ req' \in [plan.requests -> Requests]
      /\ \A x \in plan.requests : req'[x] # NoRequest => req'[x].id \in {0} \cup DOMAIN quotas
  <2>1. req' = Overtake(r)
    BY Zenon DEF Write
  <2>2. /\ Overtake(r) \in [plan.requests -> Requests]
        /\ \A x \in plan.requests : Overtake(r)[x] # NoRequest =>
             req[x] # NoRequest /\ Overtake(r)[x].id = req[x].id
    BY <1>1, OvertakeType
  <2> QED BY <1>1, <2>1, <2>2
<1>4. CASE id = 0
  <2>1. quotas' = Append(quotas, q) /\ active' = active \cup {Len(quotas) + 1}
    BY <1>4, Zenon DEF Write, UpsertQuota
  <2>2. quotas' \in Seq(QuotaRows) /\ DOMAIN quotas' = 1..(Len(quotas) + 1)
    BY <1>1, <2>1
  <2>3. DOMAIN quotas \subseteq DOMAIN quotas' /\ active' \subseteq DOMAIN quotas'
    BY <1>1, <1>2, <2>1, <2>2
  <2> QED BY <1>3, <2>2, <2>3, Zenon
<1>5. CASE id \in DOMAIN quotas
  <2>1. id # 0
    BY <1>2, <1>5
  <2>2. quotas' = [quotas EXCEPT ![id] = [q EXCEPT !.from = quotas[id].from]] /\ active' = active
    BY <2>1, Zenon DEF Write, ReplaceQuota
  <2>3. [q EXCEPT !.from = quotas[id].from] \in QuotaRows
    <3>1. quotas[id] \in QuotaRows
      BY <1>1, <1>5
    <3>2. quotas[id].from \in Nat
      BY <3>1 DEF QuotaRows
    <3> QED BY <3>2 DEF QuotaRows
  <2>4. quotas' \in Seq(QuotaRows) /\ DOMAIN quotas' = DOMAIN quotas
    BY <1>1, <1>5, <2>2, <2>3
  <2> QED BY <1>1, <1>3, <2>2, <2>4, Zenon
<1> QED BY <1>4, <1>5

LEMMA TypeInit == Init => TypeOK
<1> SUFFICES ASSUME Init PROVE TypeOK
  OBVIOUS
<1>1. plan \in Plans
  BY DEF Init
<1>2. plan.hours \in Seq(Nat) /\ plan.hours # <<>> /\ plan.faults \in Nat
  BY <1>1, QuotaAssumption
<1>3. 1 \in DOMAIN plan.hours /\ 0 \in 0..plan.faults
  BY <1>2
<1>4. quotas \in Seq(QuotaRows) /\ active \subseteq DOMAIN quotas
  BY DEF Init
<1>5. used \in [plan.entries -> Nat]
  BY DEF Init
<1>6. req \in [plan.requests -> Requests] /\ \A r \in plan.requests : req[r] = NoRequest
  BY DEF Init, Requests
<1> QED BY <1>1, <1>3, <1>4, <1>5, <1>6, Zenon DEF Init, TypeOK

\* What a request that reads the limit of the tenant becomes.
LEMMA ReadType ==
  ASSUME TypeOK, NEW r \in plan.requests, NEW q \in QuotaRows, NEW id \in {0} \cup DOMAIN quotas,
         ReadTenantLimit(r, q, id)
  PROVE  /\ \E pc \in {"sum", "write"}, l \in Int :
              /\ req' = [req EXCEPT ![r] = Request(q, id, pc, l)] /\ (pc = "write" => l = 0)
         /\ faults' \in 0..plan.faults /\ UNCHANGED <<quotas, active>>
<1>1. UNCHANGED <<quotas, active>>
  BY Zenon DEF ReadTenantLimit
<1>2. CASE Fault("read") /\ req' = [req EXCEPT ![r] = Request(q, id, "write", 0)]
  <2>1. "write" \in {"sum", "write"} /\ 0 \in Int /\ faults' \in 0..plan.faults
    BY <1>2, FaultType
  <2> QED BY <1>1, <1>2, <2>1, Zenon
<1>3. CASE /\ \E l \in IF TenantQuotaLimits(q.meter) = {} THEN {0} ELSE TenantQuotaLimits(q.meter) :
                req' = [req EXCEPT ![r] = Request(q, id, IF l = 0 THEN "write" ELSE "sum", l)]
           /\ UNCHANGED faults
  <2>1. PICK l \in IF TenantQuotaLimits(q.meter) = {} THEN {0} ELSE TenantQuotaLimits(q.meter) :
                req' = [req EXCEPT ![r] = Request(q, id, IF l = 0 THEN "write" ELSE "sum", l)]
    BY <1>3, Zenon
  <2>2. \A i \in active : quotas[i].limit \in Int
    <3>1. \A i \in active : quotas[i] \in QuotaRows
      BY DEF TypeOK
    <3> QED BY <3>1 DEF QuotaRows
  <2>3. l \in Int
    BY <2>1, <2>2 DEF TenantQuotaLimits, OfMeter
  <2>4. faults' \in 0..plan.faults
    BY <1>3, Zenon DEF TypeOK
  <2> QED BY <1>1, <2>1, <2>3, <2>4, Zenon
<1> QED BY <1>2, <1>3, Zenon DEF ReadTenantLimit

\* The types of what the administration changes.
AdminOK ==
  /\ quotas \in Seq(QuotaRows) /\ active \subseteq DOMAIN quotas
  /\ req \in [plan.requests -> Requests]
  /\ \A r \in plan.requests : req[r] # NoRequest => req[r].id \in {0} \cup DOMAIN quotas
  /\ faults \in 0..plan.faults

LEMMA RequestType ==
  ASSUME TypeOK, NEW r \in plan.requests, NEW q \in QuotaRows, NEW id \in {0} \cup DOMAIN quotas,
         plan' = plan, (Write(r, q, id) /\ UNCHANGED faults) \/ ReadTenantLimit(r, q, id)
  PROVE  AdminOK'
<1>1. CASE Write(r, q, id) /\ UNCHANGED faults
  <2>1. faults' \in 0..plan.faults
    BY <1>1, Zenon DEF TypeOK
  <2> QED BY <1>1, <2>1, WriteType, Zenon DEF AdminOK
<1>2. CASE ReadTenantLimit(r, q, id)
  <2>1. PICK pc \in {"sum", "write"}, l \in Int : req' = [req EXCEPT ![r] = Request(q, id, pc, l)]
    BY <1>2, ReadType
  <2>2. /\ quotas \in Seq(QuotaRows) /\ active \subseteq DOMAIN quotas
        /\ req \in [plan.requests -> Requests]
        /\ \A x \in plan.requests : req[x] # NoRequest => req[x].id \in {0} \cup DOMAIN quotas
    BY Zenon DEF TypeOK
  <2>3. id \in Nat
    BY <2>2
  <2>4. Request(q, id, pc, l) \in Requests /\ Request(q, id, pc, l).id = id
    BY <2>3 DEF Request, Requests
  <2>5. /\ req' \in [plan.requests -> Requests]
        /\ \A x \in plan.requests : req'[x] # NoRequest => req'[x].id \in {0} \cup DOMAIN quotas
    BY <2>1, <2>2, <2>4
  <2>6. faults' \in 0..plan.faults /\ UNCHANGED <<quotas, active>>
    BY <1>2, ReadType
  <2> QED BY <2>2, <2>5, <2>6, Zenon DEF AdminOK
<1> QED BY <1>1, <1>2

LEMMA AdminType ==
  ASSUME TypeOK, NEW r \in plan.requests, Administration(r)
  PROVE  AdminOK' /\ UNCHANGED <<plan, used, clock, alerts, rater, gateway>>
<1>1. UNCHANGED <<plan, used, clock, alerts, rater, gateway>>
  BY Zenon DEF Administration, CreateQuota, UpdateQuota, ReadProjectSum, WriteQuota, DeleteQuota
<1>2. /\ quotas \in Seq(QuotaRows) /\ active \subseteq DOMAIN quotas
      /\ req \in [plan.requests -> Requests] /\ faults \in 0..plan.faults
      /\ \A x \in plan.requests : req[x] # NoRequest => req[x].id \in {0} \cup DOMAIN quotas
  BY Zenon DEF TypeOK
<1>3. CASE CreateQuota(r)
  <2>1. PICK q \in plan.create : (Write(r, q, 0) /\ UNCHANGED faults) \/ ReadTenantLimit(r, q, 0)
    BY <1>3, Zenon DEF CreateQuota
  <2>2. q \in QuotaRows
    BY PlanTypes
  <2> QED BY <1>1, <2>1, <2>2, RequestType
<1>4. CASE UpdateQuota(r)
  <2>1. PICK q \in plan.update, id \in DOMAIN quotas :
          (Write(r, q, id) /\ UNCHANGED faults) \/ ReadTenantLimit(r, q, id)
    BY <1>4, Zenon DEF UpdateQuota
  <2>2. q \in QuotaRows
    BY PlanTypes
  <2> QED BY <1>1, <2>1, <2>2, RequestType, Zenon
<1>5. CASE ReadProjectSum(r)
  <2>1. req[r] \in [pc: {"sum", "write"}, q: QuotaRows, id: Nat, limit: Int, overtaken: BOOLEAN]
    BY <1>2, <1>5 DEF ReadProjectSum, Requests, NoRequest
  <2>2. /\ [req[r] EXCEPT !.pc = "write"] \in Requests /\ NoRequest \in Requests
        /\ [req[r] EXCEPT !.pc = "write"].id = req[r].id /\ req[r] # NoRequest
    BY <1>5, <2>1 DEF Requests, NoRequest, ReadProjectSum
  <2>3. PICK x \in {NoRequest, [req[r] EXCEPT !.pc = "write"]} : req' = [req EXCEPT ![r] = x]
    BY <1>5, Zenon DEF ReadProjectSum
  <2>4. faults' \in 0..plan.faults /\ UNCHANGED <<quotas, active>>
    BY <1>2, <1>5, FaultType, Zenon DEF ReadProjectSum
  <2>5. /\ req' \in [plan.requests -> Requests]
        /\ \A y \in plan.requests : req'[y] # NoRequest => req'[y].id \in {0} \cup DOMAIN quotas
    BY <1>2, <2>2, <2>3, Zenon
  <2> QED BY <1>1, <1>2, <2>4, <2>5, Zenon DEF AdminOK
<1>6. CASE WriteQuota(r)
  <2>1. /\ Write(r, req[r].q, req[r].id) /\ UNCHANGED faults /\ req[r] # NoRequest
        /\ req[r].q \in QuotaRows
    BY <1>2, <1>6 DEF WriteQuota, Requests, NoRequest
  <2>2. PICK q \in QuotaRows, id \in {0} \cup DOMAIN quotas : q = req[r].q /\ id = req[r].id
    BY <1>2, <2>1
  <2> QED BY <1>1, <2>1, <2>2, RequestType
<1>7. CASE DeleteQuota(r)
  <2>1. req' = Overtake(r) /\ active' \subseteq active /\ UNCHANGED <<quotas, faults>>
    BY <1>7 DEF DeleteQuota
  <2>2. /\ Overtake(r) \in [plan.requests -> Requests]
        /\ \A x \in plan.requests : Overtake(r)[x] # NoRequest =>
             req[x] # NoRequest /\ Overtake(r)[x].id = req[x].id
    BY <1>2, OvertakeType
  <2>3. /\ req' \in [plan.requests -> Requests]
        /\ \A x \in plan.requests : req'[x] # NoRequest => req'[x].id \in {0} \cup DOMAIN quotas
    BY <1>2, <2>1, <2>2
  <2> QED BY <1>1, <1>2, <2>1, <2>3 DEF AdminOK
<1> QED BY <1>1, <1>3, <1>4, <1>5, <1>6, <1>7, Zenon DEF Administration

\* What was metered and charged is a number, and never gets less.
LEMMA SumNat ==
  ASSUME TypeOK, NEW table, NEW projects, NEW meters, NEW w PROVE Sum(table, projects, meters, w) \in Nat
<1>1. used \in [plan.entries -> Nat] /\ IsFiniteSet(plan.entries)
  BY PlanTypes, Zenon DEF TypeOK
<1>2. ASSUME NEW S \in SUBSET plan.entries PROVE Total(used, S) \in Nat
  <2>1. IsFiniteSet(S) /\ \A x \in S : used[x] \in Nat
    BY <1>1, FS_Subset
  <2> QED BY <2>1, TotalNat
<1> DEFINE S == {e \in DOMAIN used : /\ e.table = table /\ e.project \in projects
                                     /\ e.meter \in meters /\ w.from <= e.from /\ e.to <= w.to}
<1>3. S \in SUBSET DOMAIN used /\ DOMAIN used = plan.entries
  BY <1>1, Zenon
<1>4. Sum(table, projects, meters, w) = Total(used, S)
  BY Zenon DEF Sum
<1> HIDE DEF S
<1> QED BY <1>2, <1>3, <1>4

LEMMA SumGrows ==
  ASSUME TypeOK, TypeOK', plan' = plan, \A e \in plan.entries : used[e] <= used'[e],
         NEW table, NEW projects, NEW meters, NEW w
  PROVE  /\ Sum(table, projects, meters, w) \in Nat /\ Sum(table, projects, meters, w)' \in Nat
         /\ Sum(table, projects, meters, w) <= Sum(table, projects, meters, w)'
<1>1. /\ used \in [plan.entries -> Nat] /\ IsFiniteSet(plan.entries)
      /\ used' \in [plan.entries -> Nat]
  BY PlanTypes, Zenon DEF TypeOK
<1> DEFINE S == {e \in plan.entries : /\ e.table = table /\ e.project \in projects
                                      /\ e.meter \in meters /\ w.from <= e.from /\ e.to <= w.to}
<1>2. IsFiniteSet(S) /\ \A e \in S : used[e] \in Nat /\ used'[e] \in Nat /\ used[e] <= used'[e]
  <2>1. S \in SUBSET plan.entries
    BY Zenon
  <2> HIDE DEF S
  <2> QED BY <1>1, <2>1, FS_Subset
<1>3. DOMAIN used = plan.entries /\ DOMAIN used' = plan.entries
  BY <1>1
<1>4. /\ Sum(table, projects, meters, w) = Total(used, S)
      /\ Sum(table, projects, meters, w)' = Total(used', S)
  BY <1>3, Zenon DEF Sum
<1> HIDE DEF S
<1>5. Total(used, S) <= Total(used', S)
  BY <1>2, TotalGrows
<1>6. Total(used, S) \in Nat /\ Total(used', S) \in Nat
  BY <1>2, TotalNat
<1> QED BY <1>4, <1>5, <1>6

LEMMA ConsumedNat == ASSUME TypeOK, NEW q, NEW t PROVE Consumed(q, t) \in Nat /\ Metered(q, t) \in Nat
<1>1. \A table, projects, meters, w : Sum(table, projects, meters, w) \in Nat
  BY SumNat
<1> QED BY <1>1, Zenon DEF Consumed, Metered, CostSum, MeteringSum

\* What an evaluation that goes on, or ends, is.
RaterOK == rater = Waiting \/ (rater \in Evaluations /\ (rater.pc = "alert" => rater.q \in QuotaRows))

LEMMA EvaluatingType ==
  ASSUME NEW now \in Nat, NEW todo \in SUBSET QuotaRows, NEW q, NEW consumed \in Nat,
         NEW levels \in SUBSET Nat, levels = {} \/ q \in QuotaRows,
         rater' = Evaluating(now, todo, q, consumed, levels)
  PROVE  /\ RaterOK'
         /\ rater'.pc = "alert" => /\ rater'.q = q /\ rater'.now = now
                                   /\ rater'.consumed = consumed /\ rater'.levels = levels
                                   /\ levels # {}
  BY DEF Evaluating, Evaluations, Waiting, RaterOK

AlertsOK ==
  \A a \in alerts :
    /\ a.quota \in QuotaRows /\ a.meter = a.quota.meter /\ a.level \in Nat /\ a.consumed \in Nat
    /\ \A b \in alerts \ {a} : ~Same(a, b)

\* What a step of the evaluation does.
LEMMA RaterSteps ==
  ASSUME TypeOK, evaluateThresholds
  PROVE  \/ /\ ListQuotas /\ alerts' = alerts
            /\ rater' = Evaluating(Now, {x.q : x \in QuotasForTenant(Now)}, None, 0, {})
         \/ /\ Evaluate /\ alerts' = alerts
            /\ \E q \in rater.todo, levels \in SUBSET Nat, consumed \in Nat :
                 /\ rater' = Evaluating(rater.now, rater.todo \ {q}, q, consumed, levels)
                 /\ levels # {} => /\ consumed = Consumed(q, rater.now) /\ consumed # 0
                                   /\ \A t \in levels : consumed * 100 >= t * q.limit
         \/ /\ FireAlert
            /\ \E t \in rater.levels :
                 /\ rater' = Evaluating(rater.now, rater.todo, rater.q, rater.consumed,
                                        rater.levels \ {t})
                 /\ \/ alerts' = alerts
                    \/ InsertAlert([meter |-> rater.q.meter, level |-> t,
                                    consumed |-> rater.consumed,
                                    label |-> Label[rater.q.period, rater.now],
                                    quota |-> rater.q, now |-> rater.now])
<1>1. CASE ListQuotas
  BY <1>1, Zenon DEF ListQuotas
<1>2. CASE Evaluate
  <2>1. rater \in Evaluations
    BY <1>2 DEF Evaluate, TypeOK, Waiting
  <2>2. ASSUME NEW q \in rater.todo, NEW c \in Nat PROVE Reached(q, c) \in SUBSET Nat
    <3>1. q.thresholds \in SUBSET Nat
      BY <2>1, <2>2 DEF Evaluations, QuotaRows
    <3> QED BY <3>1 DEF Reached, ThresholdLevels
  <2>3. PICK q \in rater.todo :
          \/ rater' = Evaluating(rater.now, rater.todo \ {q}, q, 0, {})
          \/ rater' = Evaluating(rater.now, rater.todo \ {q}, q, Consumed(q, rater.now),
                                 IF Consumed(q, rater.now) = 0 \/ q.limit <= 0 THEN {}
                                 ELSE Reached(q, Consumed(q, rater.now)))
    BY <1>2, Zenon DEF Evaluate
  <2>4. alerts' = alerts
    BY <1>2, Zenon DEF Evaluate
  <2>5. CASE rater' = Evaluating(rater.now, rater.todo \ {q}, q, 0, {})
    <3>1. {} \in SUBSET Nat /\ 0 \in Nat
      OBVIOUS
    <3> QED BY <1>2, <2>4, <2>5, <3>1, Zenon
  <2>6. CASE rater' = Evaluating(rater.now, rater.todo \ {q}, q, Consumed(q, rater.now),
                                 IF Consumed(q, rater.now) = 0 \/ q.limit <= 0 THEN {}
                                 ELSE Reached(q, Consumed(q, rater.now)))
    <3>1. PICK now : now = rater.now
      BY Zenon
    <3>2. PICK c \in Nat : c = Consumed(q, now)
      BY ConsumedNat
    <3>3. PICK levels : levels = IF c = 0 \/ q.limit <= 0 THEN {} ELSE Reached(q, c)
      BY Zenon
    <3>4. levels \in SUBSET Nat
      BY <2>2, <3>3
    <3>5. levels # {} => c # 0 /\ \A t \in levels : c * 100 >= t * q.limit
      BY <3>3 DEF Reached
    <3> QED BY <1>2, <2>4, <2>6, <3>1, <3>2, <3>3, <3>4, <3>5, Zenon
  <2> QED BY <2>3, <2>5, <2>6, Zenon
<1>3. CASE FireAlert
  BY <1>3, Zenon DEF FireAlert
<1> QED BY <1>1, <1>2, <1>3, Zenon DEF evaluateThresholds

LEMMA ListedTypes == ASSUME TypeOK, NEW t PROVE QuotasForTenant(t) \in SUBSET [id: Nat, q: QuotaRows]
<1>1. \A i \in active : i \in Nat /\ quotas[i] \in QuotaRows
  BY DEF TypeOK
<1> QED BY <1>1 DEF QuotasForTenant

\* The alert that an evaluation fires at level t.
Alert(t) ==
  [meter |-> rater.q.meter, level |-> t, consumed |-> rater.consumed,
   label |-> Label[rater.q.period, rater.now], quota |-> rater.q, now |-> rater.now]

LEMMA RaterType ==
  ASSUME TypeOK, evaluateThresholds
  PROVE  /\ RaterOK' /\ AlertsOK'
         /\ \/ alerts' = alerts
            \/ /\ rater.pc = "alert"
               /\ \E t \in rater.levels : alerts' = alerts \cup {Alert(t)}
         /\ rater'.pc = "alert" =>
              \/ /\ rater.pc = "alert" /\ rater'.q = rater.q /\ rater'.now = rater.now
                 /\ rater'.consumed = rater.consumed /\ rater'.levels \subseteq rater.levels
              \/ /\ rater'.consumed = Consumed(rater'.q, rater'.now) /\ rater'.consumed > 0
                 /\ \A t \in rater'.levels : rater'.consumed * 100 >= t * rater'.q.limit
<1>1. RaterOK /\ AlertsOK
  BY Zenon DEF TypeOK, RaterOK, AlertsOK
<1>2. CASE ListQuotas /\ alerts' = alerts
           /\ rater' = Evaluating(Now, {x.q : x \in QuotasForTenant(Now)}, None, 0, {})
  <2>1. {x.q : x \in QuotasForTenant(Now)} \in SUBSET QuotaRows /\ Now \in Nat
    BY ListedTypes, PlanTypes
  <2>2. RaterOK' /\ rater'.pc # "alert"
    BY <1>2, <2>1, EvaluatingType
  <2>3. AlertsOK'
    BY <1>1, <1>2, Zenon DEF AlertsOK, Same
  <2> QED BY <1>2, <2>2, <2>3, Zenon
<1>3. CASE /\ Evaluate /\ alerts' = alerts
           /\ \E q \in rater.todo, levels \in SUBSET Nat, consumed \in Nat :
                /\ rater' = Evaluating(rater.now, rater.todo \ {q}, q, consumed, levels)
                /\ levels # {} => /\ consumed = Consumed(q, rater.now) /\ consumed # 0
                                  /\ \A t \in levels : consumed * 100 >= t * q.limit
  <2>1. rater.todo \in SUBSET QuotaRows /\ rater.now \in Nat
    BY <1>1, <1>3 DEF RaterOK, Evaluations, Evaluate, Waiting
  <2>2. PICK q \in rater.todo, levels \in SUBSET Nat, consumed \in Nat :
          /\ rater' = Evaluating(rater.now, rater.todo \ {q}, q, consumed, levels)
          /\ levels # {} => /\ consumed = Consumed(q, rater.now) /\ consumed # 0
                            /\ \A t \in levels : consumed * 100 >= t * q.limit
    BY <1>3, Zenon
  <2>3. PICK now \in Nat, todo \in SUBSET QuotaRows : now = rater.now /\ todo = rater.todo \ {q}
    BY <2>1, Zenon
  <2>4. RaterOK' /\ (rater'.pc = "alert" => /\ rater'.q = q /\ rater'.now = now
                                            /\ rater'.consumed = consumed
                                            /\ rater'.levels = levels /\ levels # {})
    <3>1. rater' = Evaluating(now, todo, q, consumed, levels) /\ q \in QuotaRows
      BY <2>1, <2>2, <2>3, Zenon
    <3> QED BY <3>1, EvaluatingType, Zenon
  <2>5. AlertsOK'
    BY <1>1, <1>3, Zenon DEF AlertsOK, Same
  <2>6. consumed # 0 => consumed > 0
    OBVIOUS
  <2>7. rater'.pc = "alert" =>
          /\ rater'.consumed = Consumed(rater'.q, rater'.now) /\ rater'.consumed > 0
          /\ \A t \in rater'.levels : rater'.consumed * 100 >= t * rater'.q.limit
    BY <2>2, <2>3, <2>4, <2>6, Zenon
  <2> QED BY <1>3, <2>4, <2>5, <2>7, Zenon
<1>4. CASE /\ FireAlert
           /\ \E t \in rater.levels :
                /\ rater' = Evaluating(rater.now, rater.todo, rater.q, rater.consumed,
                                       rater.levels \ {t})
                /\ alerts' = alerts \/ InsertAlert(Alert(t))
  <2>1. /\ rater.todo \in SUBSET QuotaRows /\ rater.now \in Nat /\ rater.q \in QuotaRows
        /\ rater.consumed \in Nat /\ rater.levels \in SUBSET Nat /\ rater.pc = "alert"
    <3>1. rater.pc = "alert"
      BY <1>4, Zenon DEF FireAlert
    <3> QED BY <1>1, <3>1 DEF RaterOK, Evaluations, Waiting
  <2>2. PICK t \in rater.levels :
          /\ rater' = Evaluating(rater.now, rater.todo, rater.q, rater.consumed, rater.levels \ {t})
          /\ alerts' = alerts \/ InsertAlert(Alert(t))
    BY <1>4, Zenon
  <2>3. PICK now \in Nat, todo \in SUBSET QuotaRows, q \in QuotaRows, consumed \in Nat,
             levels \in SUBSET Nat :
          /\ now = rater.now /\ todo = rater.todo /\ q = rater.q /\ consumed = rater.consumed
          /\ levels = rater.levels \ {t}
    BY <2>1, Zenon
  <2>4. RaterOK' /\ (rater'.pc = "alert" => /\ rater'.q = q /\ rater'.now = now
                                            /\ rater'.consumed = consumed
                                            /\ rater'.levels = levels /\ levels # {})
    <3>1. rater' = Evaluating(now, todo, q, consumed, levels) /\ q \in QuotaRows
      BY <2>1, <2>2, <2>3, Zenon
    <3> QED BY <3>1, EvaluatingType, Zenon
  <2>5. PICK a : a = Alert(t)
    BY Zenon
  <2>6. /\ a.quota \in QuotaRows /\ a.meter = a.quota.meter /\ a.level \in Nat
        /\ a.consumed \in Nat
    <3>1. a.quota = rater.q /\ a.meter = rater.q.meter /\ a.level = t /\ a.consumed = rater.consumed
      BY <2>5, Zenon DEF Alert
    <3> QED BY <2>1, <3>1
  <2>7. alerts' = alerts \/ (alerts' = alerts \cup {a} /\ \A b \in alerts : ~Same(a, b))
    BY <2>2, <2>5, Zenon DEF InsertAlert
  <2>8. AlertsOK'
    BY <1>1, <2>6, <2>7 DEF AlertsOK, Same
  <2> QED BY <2>1, <2>2, <2>3, <2>4, <2>5, <2>7, <2>8
<1> QED BY <1>2, <1>3, <1>4, RaterSteps, Zenon DEF Alert

GatewayOK ==
  \/ \E access \in BOOLEAN : gateway = Answered(access)
  \/ gateway \in Checks /\ gateway.todo # {} /\ gateway.todo \subseteq gateway.listed

LEMMA Checking ==
  ASSUME TypeOK, gateway.pc = "sum"
  PROVE  gateway \in Checks /\ gateway.todo # {} /\ gateway.todo \subseteq gateway.listed
<1>1. GatewayOK
  BY Zenon DEF TypeOK, GatewayOK
<1>2. \A access : Answered(access).pc # "sum"
  BY DEF Answered
<1> QED BY <1>1, <1>2, Zenon DEF GatewayOK

\* What a check that has read a sum, or failed to, becomes before it may answer.
LEMMA SumSteps ==
  ASSUME TypeOK, SumUsage
  PROVE  \E x \in gateway.todo, g \in Checks :
           /\ gateway' = Entitled(g) /\ g.now = gateway.now /\ g.todo = gateway.todo \ {x}
           /\ \/ /\ g.listed = gateway.listed /\ g.limit = gateway.limit + x.q.limit
                 /\ g.usage = gateway.usage + Metered(x.q, gateway.now)
              \/ /\ g.listed = gateway.listed \ {x} /\ g.limit = gateway.limit
                 /\ g.usage = gateway.usage /\ faults' > 0
<1>1. gateway \in Checks
  BY Checking, Zenon DEF SumUsage
<1>2. PICK x \in gateway.todo :
         \/ gateway' = Entitled([gateway EXCEPT !.todo = @ \ {x}, !.limit = @ + x.q.limit,
                                                !.usage = @ + Metered(x.q, gateway.now)])
         \/ /\ Fault("eval")
            /\ gateway' = Entitled([gateway EXCEPT !.todo = @ \ {x}, !.listed = @ \ {x}])
  BY Zenon DEF SumUsage
<1>3. CASE gateway' = Entitled([gateway EXCEPT !.todo = @ \ {x}, !.limit = @ + x.q.limit,
                                               !.usage = @ + Metered(x.q, gateway.now)])
  <2>1. PICK c \in Nat : c = Metered(x.q, gateway.now)
    BY ConsumedNat
  <2>2. PICK l \in Int : l = x.q.limit
    BY <1>1 DEF Checks, Listing, QuotaRows
  <2>3. PICK g : g = [gateway EXCEPT !.todo = @ \ {x}, !.limit = @ + l, !.usage = @ + c]
    BY Zenon
  <2>4. /\ g \in Checks /\ g.now = gateway.now /\ g.todo = gateway.todo \ {x}
        /\ g.listed = gateway.listed /\ g.limit = gateway.limit + l /\ g.usage = gateway.usage + c
    <3>1. PICK todo \in Listing, limit \in Int, usage \in Nat :
            /\ todo = gateway.todo \ {x} /\ limit = gateway.limit + l
            /\ usage = gateway.usage + c
      <4>1. gateway.todo \ {x} \in Listing
        BY <1>1 DEF Checks, Listing
      <4>2. gateway.limit + l \in Int /\ gateway.usage + c \in Nat
        BY <1>1 DEF Checks
      <4> QED BY <4>1, <4>2, Zenon
    <3>2. g = [gateway EXCEPT !.todo = todo, !.limit = limit, !.usage = usage]
      BY <2>3, <3>1, Zenon
    <3> QED BY <1>1, <3>1, <3>2, Zenon DEF Checks
  <2> QED BY <1>3, <2>1, <2>2, <2>3, <2>4, Zenon
<1>4. CASE /\ Fault("eval")
           /\ gateway' = Entitled([gateway EXCEPT !.todo = @ \ {x}, !.listed = @ \ {x}])
  <2>1. PICK g : g = [gateway EXCEPT !.todo = @ \ {x}, !.listed = @ \ {x}]
    BY Zenon
  <2>2. /\ g \in Checks /\ g.now = gateway.now /\ g.todo = gateway.todo \ {x}
        /\ g.listed = gateway.listed \ {x} /\ g.limit = gateway.limit /\ g.usage = gateway.usage
    BY <1>1, <2>1, Zenon DEF Checks, Listing
  <2> QED BY <1>4, <2>1, <2>2, FaultType, Zenon
<1> QED BY <1>2, <1>3, <1>4, Zenon

LEMMA GatewayType ==
  ASSUME TypeOK, AskEntitlement \/ SumUsage
  PROVE  GatewayOK' /\ faults' \in 0..plan.faults
<1>1. faults' \in 0..plan.faults
  BY FaultType, Zenon DEF AskEntitlement, SumUsage, TypeOK
<1>2. CASE AskEntitlement
  <2>1. PICK listed \in Listing, now \in Nat : listed = QuotasForTenant(Now) /\ now = Now
    BY PlanTypes, ListedTypes, Zenon DEF Listing
  <2>3. \/ gateway' = Answered(TRUE)
        \/ /\ listed # {}
           /\ gateway' = [pc |-> "sum", now |-> now, listed |-> listed, todo |-> listed,
                          limit |-> 0, usage |-> 0]
    BY <1>2, <2>1, Zenon DEF AskEntitlement
  <2>4. CASE gateway' = Answered(TRUE)
    BY <1>1, <2>4, Zenon DEF GatewayOK
  <2>5. CASE /\ listed # {}
             /\ gateway' = [pc |-> "sum", now |-> now, listed |-> listed, todo |-> listed,
                            limit |-> 0, usage |-> 0]
    <3>1. gateway' \in Checks /\ gateway'.todo # {} /\ gateway'.todo \subseteq gateway'.listed
      BY <2>5 DEF Checks
    <3> QED BY <1>1, <3>1, Zenon DEF GatewayOK
  <2> QED BY <2>3, <2>4, <2>5, Zenon
<1>3. CASE SumUsage
  <2>1. gateway \in Checks /\ gateway.todo \subseteq gateway.listed
    BY <1>3, Checking, Zenon DEF SumUsage
  <2>2. PICK x \in gateway.todo, g \in Checks :
          /\ gateway' = Entitled(g) /\ g.todo = gateway.todo \ {x}
          /\ g.listed = gateway.listed \/ g.listed = gateway.listed \ {x}
    BY <1>3, SumSteps
  <2>3. (g.usage < g.limit) \in BOOLEAN /\ g.todo \subseteq g.listed
    BY <2>1, <2>2
  <2>4. GatewayOK'
    BY <2>2, <2>3, Zenon DEF GatewayOK, Entitled
  <2> QED BY <1>1, <2>4
<1> QED BY <1>2, <1>3

\* No step changes the plan, and entries are only added.
LEMMA UsedGrows ==
  ASSUME TypeOK, [Next]_vars
  PROVE  /\ plan' = plan /\ used' \in [plan.entries -> Nat] /\ clock' \in DOMAIN plan.hours
         /\ \A e \in plan.entries : used[e] <= used'[e]
<1>1. /\ used \in [plan.entries -> Nat] /\ plan.hours \in Seq(Nat) /\ clock \in DOMAIN plan.hours
  BY PlanTypes, Zenon DEF TypeOK
<1>2. CASE Consume
  <2>1. PICK e \in DOMAIN used : used' = [used EXCEPT ![e] = @ + 1]
    BY <1>2, Zenon DEF Consume
  <2>2. plan' = plan /\ clock' = clock
    BY <1>2, Zenon DEF Consume
  <2>3. used' \in [plan.entries -> Nat] /\ \A d \in plan.entries : used[d] <= used'[d]
    BY <1>1, <2>1
  <2> QED BY <1>1, <2>2, <2>3
<1>3. CASE Tick
  <2>1. plan' = plan /\ used' = used /\ clock < Len(plan.hours) /\ clock' = clock + 1
    BY <1>3, Zenon DEF Tick
  <2> QED BY <1>1, <2>1
<1>4. CASE UNCHANGED <<plan, used, clock>>
  BY <1>1, <1>4
<1>5. CASE (\E r \in plan.requests : Administration(r)) \/ evaluateThresholds \/ Crash
           \/ AskEntitlement \/ SumUsage \/ UNCHANGED vars
  BY <1>4, <1>5, AdminType, Zenon DEF evaluateThresholds, ListQuotas, Evaluate, FireAlert, Crash,
     AskEntitlement, SumUsage, vars
<1> QED BY <1>2, <1>3, <1>5, Zenon DEF Next

LEMMA TypeParts ==
  /\ TypeOK <=> /\ plan \in Plans /\ used \in [plan.entries -> Nat] /\ clock \in DOMAIN plan.hours
                /\ AdminOK /\ RaterOK /\ AlertsOK /\ GatewayOK
  /\ AlertsOK /\ alerts' = alerts => AlertsOK'
  /\ RaterOK /\ rater' = rater => RaterOK'
  /\ GatewayOK /\ gateway' = gateway => GatewayOK'
  /\ AdminOK /\ UNCHANGED <<plan, admin, faults>> => AdminOK'
<1>1. TypeOK <=> /\ plan \in Plans /\ used \in [plan.entries -> Nat] /\ clock \in DOMAIN plan.hours
                 /\ AdminOK /\ RaterOK /\ AlertsOK /\ GatewayOK
  BY Zenon DEF TypeOK, AdminOK, RaterOK, AlertsOK, GatewayOK
<1>2. AlertsOK /\ alerts' = alerts => AlertsOK'
  BY Zenon DEF AlertsOK, Same
<1>3. (RaterOK /\ rater' = rater => RaterOK') /\ (GatewayOK /\ gateway' = gateway => GatewayOK')
  BY Zenon DEF RaterOK, GatewayOK
<1>4. AdminOK /\ UNCHANGED <<plan, admin, faults>> => AdminOK'
  BY Zenon DEF AdminOK, admin
<1> QED BY <1>1, <1>2, <1>3, <1>4, Zenon

LEMMA TypeNext == TypeOK /\ [Next]_vars => TypeOK'
<1> SUFFICES ASSUME TypeOK, [Next]_vars PROVE TypeOK'
  OBVIOUS
<1>1. /\ plan' \in Plans /\ plan' = plan /\ used' \in [plan'.entries -> Nat]
      /\ clock' \in DOMAIN plan'.hours
  BY UsedGrows, PlanTypes
<1>2. AdminOK /\ RaterOK /\ AlertsOK /\ GatewayOK
  BY TypeParts, Zenon
<1>0. ASSUME AdminOK', RaterOK', AlertsOK', GatewayOK' PROVE TypeOK'
  BY <1>0, <1>1, Zenon DEF TypeOK, AdminOK, RaterOK, AlertsOK, GatewayOK
<1>3. CASE UNCHANGED <<admin, alerts, rater, gateway, faults>>
  BY <1>0, <1>1, <1>2, <1>3, TypeParts, Zenon DEF admin
<1>4. ASSUME UNCHANGED admin, faults' \in 0..plan.faults PROVE AdminOK'
  BY <1>1, <1>2, <1>4, Zenon DEF AdminOK, admin
<1>5. ASSUME NEW r \in plan.requests, Administration(r) PROVE TypeOK'
  BY <1>0, <1>2, <1>5, AdminType, TypeParts, Zenon
<1>6. CASE Consume \/ Tick \/ UNCHANGED vars
  BY <1>3, <1>6, Zenon DEF Consume, Tick, vars, admin
<1>7. CASE evaluateThresholds
  <2>1. UNCHANGED <<admin, gateway>>
    BY <1>7, Zenon DEF evaluateThresholds, ListQuotas, Evaluate, FireAlert
  <2>2. faults' \in 0..plan.faults
    BY <1>2, <1>7, FaultType, Zenon
    DEF evaluateThresholds, ListQuotas, Evaluate, FireAlert, AdminOK
  <2>3. RaterOK' /\ AlertsOK'
    BY <1>7, RaterType
  <2> QED BY <1>0, <1>2, <1>4, <2>1, <2>2, <2>3, TypeParts, Zenon
<1>8. CASE Crash
  <2>1. UNCHANGED <<admin, alerts, gateway>> /\ rater' = Waiting /\ faults' \in 0..plan.faults
    BY <1>8, FaultType, Zenon DEF Crash
  <2>2. RaterOK'
    BY <2>1, Zenon DEF RaterOK
  <2> QED BY <1>0, <1>2, <1>4, <2>1, <2>2, TypeParts, Zenon
<1>9. CASE AskEntitlement \/ SumUsage
  <2>1. UNCHANGED <<admin, alerts, rater>>
    BY <1>9, Zenon DEF AskEntitlement, SumUsage
  <2> QED BY <1>0, <1>2, <1>4, <1>9, <2>1, GatewayType, TypeParts, Zenon
<1> QED BY <1>5, <1>6, <1>7, <1>8, <1>9, Zenon DEF Next

-----------------------------------------------------------------------------
(***************************************************************************)
(* Alerts.  What an evaluation is about to report was consumed when it was *)
(* read, and what is consumed in a window never gets less.                 *)
(***************************************************************************)
ReportTrue ==
  rater.pc = "alert" =>
    /\ 0 < rater.consumed /\ rater.consumed <= Consumed(rater.q, rater.now)
    /\ \A t \in rater.levels : rater.consumed * 100 >= t * rater.q.limit

AlertTrue(a) ==
  /\ a.label = Label[a.quota.period, a.now]
  /\ 0 < a.consumed /\ a.consumed <= Consumed(a.quota, a.now)
  /\ a.quota.project = None => a.consumed <= StatusConsumed(a.quota, a.now)
  /\ a.consumed * 100 >= a.level * a.quota.limit

LEMMA ConsumedNext ==
  ASSUME TypeOK, TypeOK', [Next]_vars, NEW q, NEW t
  PROVE  /\ Consumed(q, t) \in Nat /\ Consumed(q, t)' \in Nat
         /\ Consumed(q, t) <= Consumed(q, t)'
         /\ Metered(q, t) \in Nat /\ Metered(q, t)' \in Nat
         /\ Metered(q, t) <= Metered(q, t)'
<1>1. plan' = plan /\ \A e \in plan.entries : used[e] <= used'[e]
  BY UsedGrows
<1>2. ASSUME NEW table, NEW projects, NEW meters, NEW w
      PROVE  /\ Sum(table, projects, meters, w) \in Nat /\ Sum(table, projects, meters, w)' \in Nat
             /\ Sum(table, projects, meters, w) <= Sum(table, projects, meters, w)'
  BY <1>1, SumGrows
<1>3. PICK w, M : w = Resolved[q.period, t] /\ M = IF q.meter = AllMeters THEN Meters ELSE {q.meter}
  BY Zenon
<1>4. /\ Metered(q, t) = Sum("metering", Projects, {q.meter}, w)
      /\ Metered(q, t)' = Sum("metering", Projects, {q.meter}, w)'
  BY <1>3, Zenon DEF Metered, MeteringSum, Sum
<1>5. CASE q.budget
  <2>1. /\ Consumed(q, t) = Sum("cost", Projects, M, w)
        /\ Consumed(q, t)' = Sum("cost", Projects, M, w)'
    BY <1>3, <1>5, Zenon DEF Consumed, CostSum, Sum
  <2> QED BY <1>2, <1>4, <2>1, Zenon
<1>6. CASE ~q.budget
  <2>1. Consumed(q, t) = Metered(q, t) /\ Consumed(q, t)' = Metered(q, t)'
    BY <1>6, Zenon DEF Consumed, Metered
  <2> QED BY <1>2, <1>4, <2>1, Zenon
<1> QED BY <1>5, <1>6

LEMMA StatusIsConsumed ==
  ASSUME NEW q, NEW t, q.project = None PROVE StatusConsumed(q, t) = Consumed(q, t)
  BY Zenon DEF StatusConsumed, Consumed

LEMMA ReportNext ==
  ASSUME TypeOK, TypeOK', [Next]_vars, ReportTrue
  PROVE  ReportTrue'
<1> SUFFICES ASSUME rater'.pc = "alert"
             PROVE  /\ 0 < rater'.consumed /\ rater'.consumed <= Consumed(rater.q, rater.now)'
                    /\ \A t \in rater'.levels : rater'.consumed * 100 >= t * rater'.q.limit
  BY Zenon DEF ReportTrue
<1>1. PICK q, now, c : q = rater'.q /\ now = rater'.now /\ c = rater'.consumed
  BY Zenon
<1>2. c \in Nat
  BY <1>1 DEF TypeOK, Evaluations, Waiting
<1>3. \/ /\ rater.pc = "alert" /\ q = rater.q /\ now = rater.now
         /\ c = rater.consumed /\ rater'.levels \subseteq rater.levels
      \/ /\ c = Consumed(q, now) /\ c > 0
         /\ \A t \in rater'.levels : c * 100 >= t * q.limit
  <2>1. CASE evaluateThresholds
    BY <1>1, <2>1, RaterType
  <2>2. CASE Crash
    BY <2>2 DEF Crash, Waiting
  <2>3. CASE rater' = rater
    BY <1>1, <2>3
  <2>4. CASE (\E r \in plan.requests : Administration(r)) \/ Consume \/ Tick \/ AskEntitlement
             \/ SumUsage \/ UNCHANGED vars
    BY <2>3, <2>4, AdminType, Zenon DEF Consume, Tick, AskEntitlement, SumUsage, vars
  <2> QED BY <2>1, <2>2, <2>4, Zenon DEF Next
<1>4. 0 < c /\ c <= Consumed(q, now) /\ \A t \in rater'.levels : c * 100 >= t * q.limit
  <2>1. CASE /\ rater.pc = "alert" /\ q = rater.q /\ now = rater.now
             /\ c = rater.consumed /\ rater'.levels \subseteq rater.levels
    BY <2>1, Zenon DEF ReportTrue
  <2>2. CASE /\ c = Consumed(q, now) /\ c > 0
             /\ \A t \in rater'.levels : c * 100 >= t * q.limit
    BY <1>2, <2>2
  <2> QED BY <1>3, <2>1, <2>2
<1>5. c <= Consumed(q, now)'
  BY <1>2, <1>4, ConsumedNext
<1>6. Consumed(rater.q, rater.now)' = Consumed(q, now)'
  BY <1>1, Zenon DEF Consumed, CostSum, MeteringSum, Sum
<1> QED BY <1>1, <1>4, <1>5, <1>6

LEMMA AlertNext ==
  ASSUME TypeOK, TypeOK', [Next]_vars, ReportTrue, \A a \in alerts : AlertTrue(a)
  PROVE  (\A a \in alerts : AlertTrue(a))'
<1>1. ASSUME NEW a, AlertTrue(a), a.consumed \in Nat PROVE AlertTrue(a)'
  <2>1. PICK q, now : q = a.quota /\ now = a.now
    BY Zenon
  <2>2. a.consumed <= Consumed(q, now)
    BY <1>1, <2>1, Zenon DEF AlertTrue
  <2>3. a.consumed <= Consumed(q, now)'
    BY <1>1, <2>2, ConsumedNext
  <2>4. q.project = None => a.consumed <= StatusConsumed(q, now)'
    <3>1. q.project = None => StatusConsumed(q, now)' = Consumed(q, now)'
      BY Zenon DEF StatusConsumed, Consumed, CostSum, MeteringSum, Sum
    <3> QED BY <2>3, <3>1, Zenon
  <2> QED BY <1>1, <2>1, <2>3, <2>4, Zenon DEF AlertTrue
<1>2. ASSUME rater.pc = "alert", NEW t \in rater.levels
      PROVE  AlertTrue(Alert(t)) /\ Alert(t).consumed \in Nat
  <2>1. PICK q, now, c : q = rater.q /\ now = rater.now /\ c = rater.consumed
    BY Zenon
  <2>2. PICK a : a = Alert(t)
    BY Zenon
  <2>3. /\ a.quota = q /\ a.now = now /\ a.consumed = c /\ a.level = t
        /\ a.label = Label[q.period, now]
    BY <2>1, <2>2, Zenon DEF Alert
  <2>4. 0 < c /\ c <= Consumed(q, now) /\ c * 100 >= t * q.limit
    BY <1>2, <2>1, Zenon DEF ReportTrue
  <2>5. c \in Nat
    BY <1>2, <2>1 DEF TypeOK, Evaluations, Waiting
  <2>6. q.project = None => c <= StatusConsumed(q, now)
    BY <2>4, StatusIsConsumed, Zenon
  <2> QED BY <2>2, <2>3, <2>4, <2>5, <2>6, Zenon DEF AlertTrue
<1>3. \A a \in alerts : a.consumed \in Nat
  BY Zenon DEF TypeOK
<1>4. \/ alerts' = alerts
      \/ /\ rater.pc = "alert" /\ \E t \in rater.levels : alerts' = alerts \cup {Alert(t)}
  <2>1. CASE evaluateThresholds
    BY <2>1, RaterType
  <2>2. CASE (\E r \in plan.requests : Administration(r)) \/ Consume \/ Tick \/ Crash
             \/ AskEntitlement \/ SumUsage \/ UNCHANGED vars
    BY <2>2, AdminType, Zenon DEF Consume, Tick, Crash, AskEntitlement, SumUsage, vars
  <2> QED BY <2>1, <2>2, Zenon DEF Next
<1>5. ASSUME NEW a \in alerts' PROVE a.consumed \in Nat /\ AlertTrue(a)
  BY <1>2, <1>3, <1>4
<1> QED BY <1>1, <1>5, Zenon

(***************************************************************************)
(* An alert is true of the window it names: what it reports was consumed   *)
(* in that window and reached its level, although evaluateThresholds reads *)
(* the sums and fires the alerts while windows end, usage arrives, quotas  *)
(* change and the rater crashes.                                           *)
(***************************************************************************)
THEOREM AlertsTrue == Spec => []AlertsOfTheirWindow
<1> DEFINE Inv == TypeOK /\ ReportTrue /\ \A a \in alerts : AlertTrue(a)
<1>1. Init => Inv
  <2>1. Init => ReportTrue /\ \A a \in alerts : AlertTrue(a)
    <3>1. Init => rater.pc # "alert" /\ alerts = {}
      BY DEF Init, Waiting
    <3> QED BY <3>1 DEF ReportTrue
  <2> QED BY <2>1, TypeInit
<1>2. Inv /\ [Next]_vars => Inv'
  BY TypeNext, ReportNext, AlertNext, Zenon
<1>3. Inv => AlertsOfTheirWindow
  BY Zenon DEF AlertsOfTheirWindow, AlertTrue
<1> QED BY <1>1, <1>2, <1>3, PTL DEF Spec

-----------------------------------------------------------------------------
(***************************************************************************)
(* Refusals.  While no quota whose sum was read is used up, the sum of     *)
(* what was read is below the sum of the limits, unless nothing was read.  *)
(***************************************************************************)
SumTrue ==
  gateway.pc = "sum" =>
    LET done == gateway.listed \ gateway.todo
    IN (\A x \in done : Metered(x.q, gateway.now) < x.q.limit) =>
         \/ gateway.usage < gateway.limit
         \/ done = {} /\ gateway.usage = 0 /\ gateway.limit = 0

\* The same of a check g that SumUsage has made.
SumTrueOf(g) ==
  LET done == g.listed \ g.todo
  IN (\A x \in done : Metered(x.q, g.now) < x.q.limit) =>
       \/ g.usage < g.limit
       \/ done = {} /\ g.usage = 0 /\ g.limit = 0

LEMMA SumStep ==
  ASSUME TypeOK, SumTrue, SumUsage
  PROVE  \E x \in gateway.todo, g \in Checks :
           /\ gateway' = Entitled(g) /\ SumTrueOf(g) /\ g.now = gateway.now
           /\ g.todo = gateway.todo \ {x}
           /\ g.listed = gateway.listed \/ (g.listed = gateway.listed \ {x} /\ faults' > 0)
<1>1. gateway.pc = "sum" /\ gateway \in Checks /\ gateway.todo \subseteq gateway.listed
  BY Checking, Zenon DEF SumUsage
<1>2. PICK x \in gateway.todo, g \in Checks :
        /\ gateway' = Entitled(g) /\ g.now = gateway.now /\ g.todo = gateway.todo \ {x}
        /\ \/ /\ g.listed = gateway.listed /\ g.limit = gateway.limit + x.q.limit
              /\ g.usage = gateway.usage + Metered(x.q, gateway.now)
           \/ /\ g.listed = gateway.listed \ {x} /\ g.limit = gateway.limit
              /\ g.usage = gateway.usage /\ faults' > 0
  BY SumSteps, Zenon
<1>3. PICK now \in Nat, listed \in Listing, todo \in Listing, limit \in Int, usage \in Nat :
        /\ now = gateway.now /\ listed = gateway.listed /\ todo = gateway.todo
        /\ limit = gateway.limit /\ usage = gateway.usage
  BY <1>1 DEF Checks
<1>4. (\A y \in listed \ todo : Metered(y.q, now) < y.q.limit) =>
         usage < limit \/ (listed \ todo = {} /\ usage = 0 /\ limit = 0)
  BY <1>1, <1>3, Zenon DEF SumTrue
<1>5. CASE /\ g.listed = gateway.listed /\ g.limit = gateway.limit + x.q.limit
           /\ g.usage = gateway.usage + Metered(x.q, gateway.now)
  <2>1. SUFFICES ASSUME \A y \in g.listed \ g.todo : Metered(y.q, now) < y.q.limit
                 PROVE  g.usage < g.limit
    BY <1>2, <1>3, <1>5, Zenon DEF SumTrueOf
  <2>2. PICK c \in Nat : c = Metered(x.q, now)
    BY ConsumedNat
  <2>3. x \in listed /\ x \in g.listed \ g.todo
    BY <1>1, <1>2, <1>3, <1>5
  <2>4. c < x.q.limit /\ x.q.limit \in Int
    <3>1. x.q.limit \in Int
      BY <2>3 DEF Listing, QuotaRows
    <3> QED BY <2>1, <2>2, <2>3, <3>1, Zenon
  <2>5. listed \ todo \subseteq g.listed \ g.todo
    BY <1>2, <1>3, <1>5
  <2>6. usage < limit \/ (usage = 0 /\ limit = 0)
    BY <1>4, <2>1, <2>5, Zenon
  <2>7. g.usage = usage + c /\ g.limit = limit + x.q.limit
    BY <1>3, <1>5, <2>2, Zenon
  <2> QED BY <2>4, <2>6, <2>7
<1>6. CASE /\ g.listed = gateway.listed \ {x} /\ g.limit = gateway.limit
           /\ g.usage = gateway.usage /\ faults' > 0
  <2>1. g.listed \ g.todo = listed \ todo
    BY <1>1, <1>2, <1>3, <1>6
  <2>2. SumTrueOf(g)
    BY <1>2, <1>3, <1>4, <1>6, <2>1, Zenon DEF SumTrueOf
  <2> QED BY <1>2, <1>6, <2>2, Zenon
<1> QED BY <1>2, <1>5, <1>6, Zenon

LEMMA SumNext ==
  ASSUME TypeOK, TypeOK', [Next]_vars, SumTrue
  PROVE  SumTrue'
<1> SUFFICES ASSUME gateway'.pc = "sum" PROVE SumTrueOf(gateway)'
  BY Zenon DEF SumTrue, SumTrueOf
<1>1. PICK g : g = gateway'
  BY Zenon
<1>2. ASSUME SumTrueOf(g), g \in Checks PROVE SumTrueOf(gateway)'
  <2>1. ASSUME NEW x \in g.listed \ g.todo, Metered(x.q, g.now)' < x.q.limit
        PROVE  Metered(x.q, g.now) < x.q.limit
    <3>1. x.q.limit \in Int
      BY <1>2 DEF Checks, Listing, QuotaRows
    <3>2. PICK q, now : q = x.q /\ now = g.now
      BY Zenon
    <3>3. Metered(q, now) \in Nat /\ Metered(q, now)' \in Nat /\ Metered(q, now) <= Metered(q, now)'
      BY ConsumedNext
    <3>4. Metered(q, now)' < x.q.limit
      BY <2>1, <3>2, Zenon DEF Metered, MeteringSum, Sum
    <3> QED BY <3>1, <3>2, <3>3, <3>4
  <2>2. SumTrueOf(g)'
    BY <1>2, <2>1, Zenon DEF SumTrueOf
  <2> QED BY <1>1, <2>2, Zenon DEF SumTrueOf, Metered, MeteringSum, Sum
<1>3. CASE gateway' = gateway
  BY <1>1, <1>2, <1>3, Checking, Zenon DEF SumTrue, SumTrueOf
<1>4. CASE AskEntitlement
  <2>1. PICK listed \in Listing, now \in Nat : listed = QuotasForTenant(Now) /\ now = Now
    BY PlanTypes, ListedTypes, Zenon DEF Listing
  <2>2. Answered(TRUE).pc # "sum"
    BY DEF Answered
  <2>3. g = [pc |-> "sum", now |-> now, listed |-> listed, todo |-> listed,
             limit |-> 0, usage |-> 0]
    BY <1>1, <1>4, <2>1, <2>2, Zenon DEF AskEntitlement
  <2>4. g \in Checks /\ g.listed \ g.todo = {} /\ g.usage = 0 /\ g.limit = 0
    BY <2>3 DEF Checks
  <2> QED BY <1>2, <2>4, Zenon DEF SumTrueOf
<1>5. CASE SumUsage
  <2>1. PICK h \in Checks : gateway' = Entitled(h) /\ SumTrueOf(h)
    BY <1>5, SumStep, Zenon
  <2>2. \A access : Answered(access).pc # "sum"
    BY DEF Answered
  <2>3. g = h
    BY <1>1, <2>1, <2>2, Zenon DEF Entitled
  <2> QED BY <1>2, <2>1, <2>3, Zenon
<1>6. CASE (\E r \in plan.requests : Administration(r)) \/ Consume \/ Tick \/ evaluateThresholds
           \/ Crash \/ UNCHANGED vars
  BY <1>3, <1>6, AdminType, Zenon
  DEF Consume, Tick, evaluateThresholds, ListQuotas, Evaluate, FireAlert, Crash, vars
<1> QED BY <1>4, <1>5, <1>6, Zenon DEF Next

\* The gateway refuses access only in a step that read the last sum, or failed to.
LEMMA RefusedBySum ==
  ASSUME TypeOK, [Next]_vars, gateway.pc = "sum", gateway' = Answered(FALSE) PROVE SumUsage
<1>1. gateway' # gateway
  BY DEF Answered
<1>2. ~AskEntitlement
  BY DEF AskEntitlement
<1> QED BY <1>1, <1>2, AdminType, Zenon
    DEF Next, Consume, Tick, evaluateThresholds, ListQuotas, Evaluate, FireAlert, Crash, vars

(***************************************************************************)
(* GetEntitlementValue adds up limits and sums of different quotas, one    *)
(* query after the other, while usage arrives and the quotas change.  It   *)
(* refuses access only when the metered values of one of the quotas, be it *)
(* a budget or not, have reached its limit, or when none of the sums could *)
(* be read.                                                                *)
(***************************************************************************)
THEOREM RefusalJustified == Spec => RefusedWhenUsedUp
<1> DEFINE Inv == TypeOK /\ SumTrue
           Refused == gateway.pc = "sum" /\ gateway' = Answered(FALSE) =>
                        \/ \E x \in gateway.listed : Metered(x.q, gateway.now) >= x.q.limit
                        \/ faults' > 0 /\ Cardinality(gateway.listed) <= 1
<1>1. Init => Inv
  <2>1. Init => gateway.pc # "sum"
    BY DEF Init, Answered
  <2> QED BY <2>1, TypeInit, Zenon DEF SumTrue
<1>2. Inv /\ [Next]_vars => Inv'
  BY TypeNext, SumNext, Zenon
<1>3. Inv /\ [Next]_vars => [Refused]_vars
  <2> SUFFICES ASSUME Inv, [Next]_vars, gateway.pc = "sum", gateway' = Answered(FALSE),
                      ~ \E x \in gateway.listed : Metered(x.q, gateway.now) >= x.q.limit
               PROVE  faults' > 0 /\ Cardinality(gateway.listed) <= 1
    BY Zenon
  <2>1. SumUsage
    BY RefusedBySum, Zenon
  <2>2. PICK x \in gateway.todo, g \in Checks :
          /\ gateway' = Entitled(g) /\ SumTrueOf(g) /\ g.now = gateway.now
          /\ g.todo = gateway.todo \ {x}
          /\ g.listed = gateway.listed \/ (g.listed = gateway.listed \ {x} /\ faults' > 0)
    BY <2>1, SumStep, Zenon
  <2>3. gateway \in Checks /\ gateway.todo \subseteq gateway.listed
    BY Checking, Zenon
  <2>4. g.todo = {} /\ ~(g.usage < g.limit)
    <3>1. g.pc # Answered(FALSE).pc
      BY DEF Checks, Answered
    <3>2. g.todo = {} /\ Answered(g.usage < g.limit) = Answered(FALSE)
      BY <2>2, <3>1, Zenon DEF Entitled
    <3> QED BY <3>2, Zenon DEF Answered
  <2>5. ASSUME NEW y \in gateway.listed PROVE Metered(y.q, gateway.now) < y.q.limit
    <3>1. PICK c \in Nat : c = Metered(y.q, gateway.now)
      BY ConsumedNat
    <3>2. y.q.limit \in Int
      BY <2>3 DEF Checks, Listing, QuotaRows
    <3>3. ~(c >= y.q.limit)
      BY <3>1, Zenon
    <3> QED BY <3>1, <3>2, <3>3
  <2>6. \A y \in g.listed \ g.todo : Metered(y.q, g.now) < y.q.limit
    BY <2>2, <2>5
  <2>7. g.listed = {}
    BY <2>2, <2>4, <2>6, Zenon DEF SumTrueOf
  <2>8. gateway.listed = {x} /\ faults' > 0
    BY <2>2, <2>3, <2>7
  <2>9. Cardinality(gateway.listed) = 1
    BY <2>8, FS_Singleton
  <2> QED BY <2>8, <2>9
<1>4. [][Refused]_vars => RefusedWhenUsedUp
  BY DEF RefusedWhenUsedUp
<1> QED BY <1>1, <1>2, <1>3, <1>4, PTL DEF Spec

-----------------------------------------------------------------------------
(***************************************************************************)
(* The overcommit check.  A request whose queries succeeded and that no    *)
(* other has overtaken writes what fits now: the sum it read still holds.  *)
(***************************************************************************)
Fits(x) ==
  x.limit # 0 =>
    /\ x.q.limit > 0
    /\ x.pc = "write" /\ ~x.overtaken /\ faults = 0 =>
         ProjectLimitSum(x.q.meter, x.id) + x.q.limit <= x.limit

CheckedFits == \A r \in plan.requests : req[r] # NoRequest => Fits(req[r])

\* The other quotas of projects, for a request about quota id.
OthersOf(m, id) == {i \in active : quotas[i].meter = m /\ quotas[i].project # None /\ i # id}

LEMMA SumOfOthers ==
  ASSUME TypeOK, NEW m, NEW id
  PROVE  /\ ProjectLimitSum(m, id) = Total(Limit, OthersOf(m, id))
         /\ IsFiniteSet(OthersOf(m, id)) /\ Total(Limit, OthersOf(m, id)) \in Int
         /\ \A i \in OthersOf(m, id) : Limit[i] \in Int
<1>1. quotas \in Seq(QuotaRows) /\ active \subseteq DOMAIN quotas
  BY Zenon DEF TypeOK
<1>2. IsFiniteSet(active)
  <2>1. DOMAIN quotas = 1..Len(quotas) /\ Len(quotas) \in Nat
    BY <1>1
  <2>2. IsFiniteSet(DOMAIN quotas)
    BY <2>1, FS_Interval
  <2> QED BY <1>1, <2>2, FS_Subset
<1>3. OthersOf(m, id) \in SUBSET active
  BY DEF OthersOf
<1>4. \A i \in active : Limit[i] \in Int
  <2>1. \A i \in DOMAIN quotas : quotas[i].limit \in Int
    BY <1>1 DEF QuotaRows
  <2> QED BY <1>1, <2>1 DEF Limit
<1>5. {i \in OfMeter(m) : quotas[i].project # None /\ i # id} = OthersOf(m, id)
  BY DEF OfMeter, OthersOf
<1>6. IsFiniteSet(OthersOf(m, id))
  BY <1>2, <1>3, FS_Subset
<1>7. Total(Limit, OthersOf(m, id)) \in Int
  BY <1>2, <1>3, <1>4, TotalInt
<1> QED BY <1>3, <1>4, <1>5, <1>6, <1>7, Zenon DEF ProjectLimitSum

\* The table that a write leaves, as the sums see it.
LEMMA WriteFits ==
  ASSUME TypeOK, NEW r \in plan.requests, NEW q \in QuotaRows, NEW id \in {0} \cup DOMAIN quotas,
         Write(r, q, id), q.project # None, q.limit > 0
  PROVE  /\ ProjectLimits(q.meter)' \in Int /\ ProjectLimitSum(q.meter, id) + q.limit \in Int
         /\ ProjectLimits(q.meter)' <= ProjectLimitSum(q.meter, id) + q.limit
<1>1. /\ quotas \in Seq(QuotaRows) /\ active \subseteq DOMAIN quotas
      /\ DOMAIN quotas = 1..Len(quotas) /\ Len(quotas) \in Nat /\ q.limit \in Int
  BY DEF TypeOK, QuotaRows
<1>2. PICK m, S, f, h : /\ m = q.meter /\ S = OthersOf(m, id) /\ f = Limit /\ h = Limit'
  BY Zenon
<1>3. /\ ProjectLimitSum(m, id) = Total(f, S) /\ IsFiniteSet(S) /\ Total(f, S) \in Int
      /\ \A i \in S : f[i] \in Int
  BY <1>2, SumOfOthers
<1>4. PICK R : R = {i \in active' : quotas'[i].meter = m /\ quotas'[i].project # None}
  BY Zenon
<1>5. ProjectLimits(q.meter)' = Total(h, R)
  <2>1. ProjectLimits(q.meter)' =
          Total(Limit', {i \in active' : quotas'[i].meter = q.meter /\ quotas'[i].project # None})
    BY Zenon DEF ProjectLimits
  <2> QED BY <1>2, <1>4, <2>1, Zenon
<1>6. ASSUME NEW n, n \notin S, R = S \cup {n}, h[n] = q.limit, \A i \in S : f[i] = h[i]
      PROVE  Total(h, R) = q.limit + Total(f, S)
  <2>1. h[n] \in Int /\ \A i \in S : f[i] \in Int /\ f[i] = h[i]
    BY <1>1, <1>3, <1>6
  <2>2. Total(h, S \cup {n}) = h[n] + Total(f, S)
    BY <1>3, <1>6, <2>1, TotalAdds, Zenon
  <2> QED BY <1>6, <2>2, Zenon
<1>7. CASE id = 0
  <2>1. PICK n : n = Len(quotas) + 1
    OBVIOUS
  <2>2. quotas' = Append(quotas, q) /\ active' = active \cup {n}
    BY <1>7, <2>1, Zenon DEF Write, UpsertQuota
  <2>3. /\ quotas'[n] = q /\ n \in DOMAIN quotas' /\ n \notin active /\ 0 \notin active
        /\ \A i \in active : quotas'[i] = quotas[i] /\ i \in DOMAIN quotas'
    BY <1>1, <2>1, <2>2
  <2>4. R = S \cup {n} /\ n \notin S
    BY <1>2, <1>4, <1>7, <2>2, <2>3 DEF OthersOf
  <2>5. h[n] = q.limit /\ \A i \in S : f[i] = h[i]
    BY <1>1, <1>2, <2>3 DEF Limit, OthersOf
  <2>6. Total(h, R) = q.limit + Total(f, S)
    BY <1>6, <2>4, <2>5, Zenon
  <2> QED BY <1>1, <1>2, <1>3, <1>5, <2>6
<1>8. CASE id # 0
  <2>1. id \in DOMAIN quotas
    BY <1>8
  <2>2. quotas' = [quotas EXCEPT ![id] = [q EXCEPT !.from = quotas[id].from]] /\ active' = active
    BY <1>8, Zenon DEF Write, ReplaceQuota
  <2>3. PICK p : p = [q EXCEPT !.from = quotas[id].from]
    BY Zenon
  <2>4. p.meter = q.meter /\ p.project = q.project /\ p.limit = q.limit
    BY <2>3 DEF QuotaRows
  <2>5. /\ quotas'[id] = p /\ DOMAIN quotas' = DOMAIN quotas
        /\ \A i \in DOMAIN quotas : i # id => quotas'[i] = quotas[i]
    BY <1>1, <2>1, <2>2, <2>3
  <2>6. h[id] = q.limit /\ \A i \in S : f[i] = h[i]
    BY <1>1, <1>2, <2>1, <2>4, <2>5 DEF Limit, OthersOf
  <2>7. id \notin S
    BY <1>2 DEF OthersOf
  <2>8. CASE id \in active
    <3>1. R = S \cup {id}
      BY <1>1, <1>2, <1>4, <2>2, <2>4, <2>5, <2>8 DEF OthersOf
    <3>2. Total(h, R) = q.limit + Total(f, S)
      BY <1>6, <2>6, <2>7, <3>1, Zenon
    <3> QED BY <1>1, <1>2, <1>3, <1>5, <3>2
  <2>9. CASE id \notin active
    <3>1. R = S
      BY <1>1, <1>2, <1>4, <2>2, <2>5, <2>9 DEF OthersOf
    <3>2. Total(f, S) = Total(h, S)
      BY <1>3, <2>6, TotalSame
    <3> QED BY <1>1, <1>2, <1>3, <1>5, <3>1, <3>2
  <2> QED BY <2>8, <2>9
<1> QED BY <1>7, <1>8

LEMMA FitsSame ==
  ASSUME UNCHANGED <<quotas, active>>, faults' = 0 => faults = 0, NEW x, Fits(x) PROVE Fits(x)'
<1>1. \A m, id : ProjectLimitSum(m, id)' = ProjectLimitSum(m, id)
  BY Zenon DEF ProjectLimitSum, OfMeter, Limit
<1> QED BY <1>1, Zenon DEF Fits

LEMMA FitsOvertaken ==
  ASSUME TypeOK, CheckedFits, plan' = plan, NEW r, req' = Overtake(r) PROVE CheckedFits'
<1> SUFFICES ASSUME NEW x \in plan.requests, req'[x] # NoRequest PROVE Fits(req[x])'
  BY Zenon DEF CheckedFits
<1>1. PICK y : y = req'[x]
  BY Zenon
<1>2. req[x] # NoRequest /\ y.q = req[x].q /\ y.limit = req[x].limit /\ y.overtaken = TRUE
  <2>1. req \in [plan.requests -> Requests]
    BY Zenon DEF TypeOK
  <2> QED BY <1>1, <2>1, OvertakeKeeps, Zenon
<1>3. y.limit # 0 => y.q.limit > 0
  BY <1>2, Zenon DEF CheckedFits, Fits
<1>4. Fits(y)'
  BY <1>2, <1>3, Zenon DEF Fits
<1> QED BY <1>1, <1>4, Zenon DEF Fits, ProjectLimitSum, OfMeter

LEMMA FitsChanged ==
  ASSUME TypeOK, CheckedFits, plan' = plan, UNCHANGED <<quotas, active>>,
         faults' = 0 => faults = 0, NEW r, NEW x, req' = [req EXCEPT ![r] = x],
         x # NoRequest => Fits(x)'
  PROVE  CheckedFits'
<1> SUFFICES ASSUME NEW y \in plan.requests, req'[y] # NoRequest PROVE Fits(req[y])'
  BY Zenon DEF CheckedFits
<1>1. PICK z : z = req'[y]
  BY Zenon
<1>2. z = x \/ z = req[y]
  BY <1>1 DEF TypeOK
<1>3. Fits(z)'
  <2>1. CASE z = x
    BY <1>1, <2>1, Zenon
  <2>2. CASE z = req[y]
    <3>1. Fits(z)
      BY <1>1, <2>2, Zenon DEF CheckedFits
    <3> QED BY <3>1, FitsSame, Zenon
  <2> QED BY <1>2, <2>1, <2>2
<1> QED BY <1>1, <1>3, Zenon DEF Fits, ProjectLimitSum, OfMeter

LEMMA FitsRead ==
  ASSUME TypeOK, CheckedFits, plan' = plan, NEW r \in plan.requests, NEW q \in QuotaRows,
         NEW id \in {0} \cup DOMAIN quotas, ReadTenantLimit(r, q, id), q.limit > 0
  PROVE  CheckedFits'
<1>1. PICK pc \in {"sum", "write"}, l \in Int :
        req' = [req EXCEPT ![r] = Request(q, id, pc, l)] /\ (pc = "write" => l = 0)
  BY ReadType, Zenon
<1>2. UNCHANGED <<quotas, active>> /\ (faults' = 0 => faults = 0)
  <2>1. ASSUME Fault("read") PROVE faults' # 0
    BY <2>1, FaultType
  <2> QED BY <2>1, Zenon DEF ReadTenantLimit
<1>3. PICK x : x = Request(q, id, pc, l)
  BY Zenon
<1>4. x.limit = l /\ x.q = q /\ x.pc = pc
  BY <1>3 DEF Request
<1>5. Fits(x)'
  BY <1>1, <1>4, Zenon DEF Fits
<1> QED BY <1>1, <1>2, <1>3, <1>5, FitsChanged, Zenon

LEMMA FitsSum ==
  ASSUME TypeOK, CheckedFits, NEW r \in plan.requests, ReadProjectSum(r) PROVE CheckedFits'
<1>1. plan' = plan /\ UNCHANGED <<quotas, active>> /\ req[r].pc = "sum"
  BY Zenon DEF ReadProjectSum
<1>2. /\ req[r] # NoRequest
      /\ req[r] \in [pc: {"sum", "write"}, q: QuotaRows, id: Nat, limit: Int, overtaken: BOOLEAN]
  BY <1>1 DEF TypeOK, Requests, NoRequest
<1>3. PICK y : y = [req[r] EXCEPT !.pc = "write"]
  BY Zenon
<1>4. PICK q \in QuotaRows, id \in Nat, l \in Int : q = req[r].q /\ id = req[r].id /\ l = req[r].limit
  BY <1>2
<1>5. y.limit = l /\ y.q = q /\ y.id = id
  BY <1>2, <1>3, <1>4
<1>6. l # 0 => q.limit > 0
  BY <1>2, <1>4, Zenon DEF CheckedFits, Fits
<1>7. CASE Fault("read") /\ req' = [req EXCEPT ![r].pc = "write"]
  <2>1. faults' # 0
    BY <1>7, FaultType
  <2>2. Fits(y)'
    BY <1>5, <1>6, <2>1, Zenon DEF Fits
  <2>3. req' = [req EXCEPT ![r] = y]
    BY <1>3, <1>7, Zenon
  <2> QED BY <1>1, <2>1, <2>2, <2>3, FitsChanged, Zenon
<1>8. CASE /\ req' = [req EXCEPT ![r] =
                        IF ProjectLimitSum(req[r].q.meter, req[r].id) + req[r].q.limit > req[r].limit
                        THEN NoRequest ELSE [req[r] EXCEPT !.pc = "write"]]
           /\ UNCHANGED faults
  <2>1. PICK sum \in Int : sum = ProjectLimitSum(q.meter, id)
    BY SumOfOthers
  <2>2. PICK x : x = IF sum + q.limit > l THEN NoRequest ELSE y
    BY Zenon
  <2>3. req' = [req EXCEPT ![r] = x]
    BY <1>3, <1>4, <1>8, <2>1, <2>2, Zenon
  <2>4. q.limit \in Int
    BY <1>2, <1>4 DEF QuotaRows
  <2>5. ~(sum + q.limit > l) => sum + q.limit <= l
    BY <2>1, <2>4
  <2>6. x # NoRequest => Fits(y) /\ x = y
    BY <1>5, <1>6, <2>1, <2>2, <2>5, Zenon DEF Fits
  <2>7. x # NoRequest => Fits(x)'
    BY <1>1, <1>8, <2>6, FitsSame, Zenon
  <2> QED BY <1>1, <1>8, <2>3, <2>7, FitsChanged, Zenon
<1> QED BY <1>7, <1>8, Zenon DEF ReadProjectSum

LEMMA FitsNext == ASSUME TypeOK, [Next]_vars, CheckedFits PROVE CheckedFits'
<1>1. plan' = plan
  BY UsedGrows
<1>2. CASE UNCHANGED admin /\ (faults' = 0 => faults = 0)
  <2>1. ASSUME NEW x \in plan.requests, req[x] # NoRequest PROVE Fits(req[x])'
    <3>1. PICK y : y = req[x]
      BY Zenon
    <3>2. Fits(y)'
      BY <1>2, <2>1, <3>1, FitsSame, Zenon DEF CheckedFits, admin
    <3> QED BY <1>2, <3>1, <3>2, Zenon DEF Fits, ProjectLimitSum, OfMeter, admin
  <2> QED BY <1>1, <1>2, <2>1, Zenon DEF CheckedFits, admin
<1>3. ASSUME NEW kind, Fault(kind) PROVE faults' # 0
  BY <1>3, FaultType
<1>4. CASE Consume \/ Tick \/ evaluateThresholds \/ Crash \/ AskEntitlement \/ SumUsage
           \/ UNCHANGED vars
  BY <1>2, <1>3, <1>4, Zenon
  DEF Consume, Tick, evaluateThresholds, ListQuotas, Evaluate, FireAlert, Crash, AskEntitlement,
      SumUsage, vars, admin
<1>5. ASSUME NEW r \in plan.requests, CreateQuota(r) PROVE CheckedFits'
  <2>1. PICK q \in plan.create : Write(r, q, 0) \/ ReadTenantLimit(r, q, 0)
    BY <1>5, Zenon DEF CreateQuota
  <2>2. q \in QuotaRows /\ q.limit > 0
    BY PlanTypes
  <2>3. CASE Write(r, q, 0)
    BY <1>1, <2>3, FitsOvertaken, Zenon DEF Write
  <2>4. CASE ReadTenantLimit(r, q, 0)
    BY <1>1, <2>2, <2>4, FitsRead
  <2> QED BY <2>1, <2>3, <2>4
<1>6. ASSUME NEW r \in plan.requests, UpdateQuota(r) PROVE CheckedFits'
  <2>1. PICK q \in plan.update, id \in DOMAIN quotas :
          Write(r, q, id) \/ (ReadTenantLimit(r, q, id) /\ ~(q.limit <= 0))
    BY <1>6, Zenon DEF UpdateQuota
  <2>2. q \in QuotaRows
    BY PlanTypes
  <2>3. CASE Write(r, q, id)
    BY <1>1, <2>3, FitsOvertaken, Zenon DEF Write
  <2>4. CASE ReadTenantLimit(r, q, id) /\ ~(q.limit <= 0)
    <3>1. q.limit > 0
      BY <2>2, <2>4 DEF QuotaRows
    <3> QED BY <1>1, <2>2, <2>4, <3>1, FitsRead, Zenon
  <2> QED BY <2>1, <2>3, <2>4
<1>7. ASSUME NEW r \in plan.requests, WriteQuota(r) \/ DeleteQuota(r) PROVE CheckedFits'
  BY <1>1, <1>7, FitsOvertaken, Zenon DEF WriteQuota, Write, DeleteQuota
<1> QED BY <1>4, <1>5, <1>6, <1>7, FitsSum, Zenon DEF Next, Administration

\* Only its own write ends a request that is about to write.
LEMMA WrittenByItself ==
  ASSUME TypeOK, [Next]_vars, NEW r \in plan.requests, req[r].pc = "write", req'[r].pc = "idle"
  PROVE  WriteQuota(r)
<1>1. req \in [plan.requests -> Requests]
  BY Zenon DEF TypeOK
<1>2. ASSUME NEW x \in plan.requests, x # r PROVE Overtake(x)[r].pc # "idle"
  <2>1. Overtake(x)[r] = [req[r] EXCEPT !.overtaken = TRUE]
    BY <1>2 DEF Overtake
  <2>2. req[r] \in [pc: {"sum", "write"}, q: QuotaRows, id: Nat, limit: Int, overtaken: BOOLEAN]
    BY <1>1 DEF Requests, NoRequest
  <2> QED BY <2>1, <2>2
<1>3. ASSUME NEW x, NEW y, req' = [req EXCEPT ![x] = y] PROVE x = r
  BY <1>1, <1>3
<1>4. req' # req
  OBVIOUS
<1>5. ASSUME NEW x \in plan.requests, CreateQuota(x) \/ UpdateQuota(x) \/ DeleteQuota(x)
      PROVE  FALSE
  <2>1. x # r
    BY <1>5 DEF CreateQuota, UpdateQuota, DeleteQuota
  <2>2. req' = Overtake(x) \/ \E y : req' = [req EXCEPT ![x] = y]
    BY <1>5, Zenon DEF CreateQuota, UpdateQuota, DeleteQuota, Write, ReadTenantLimit
  <2> QED BY <1>2, <1>3, <2>1, <2>2, Zenon
<1>6. ASSUME NEW x \in plan.requests, ReadProjectSum(x) PROVE FALSE
  <2>1. x # r
    BY <1>6, Zenon DEF ReadProjectSum
  <2>2. \E y : req' = [req EXCEPT ![x] = y]
    BY <1>6, Zenon DEF ReadProjectSum
  <2> QED BY <1>3, <2>1, <2>2
<1>7. ASSUME NEW x \in plan.requests, WriteQuota(x) PROVE x = r
  BY <1>2, <1>7, Zenon DEF WriteQuota, Write
<1> QED BY <1>4, <1>5, <1>6, <1>7, Zenon
    DEF Next, Administration, Consume, Tick, evaluateThresholds, ListQuotas, Evaluate, FireAlert,
        Crash, AskEntitlement, SumUsage, vars, admin

(***************************************************************************)
(* validateProjectOvercommit keeps its promise for a request that no other *)
(* overtakes and whose queries succeed: once it has written, the limits of *)
(* the projects fit in the limit of the tenant that it read, whatever was  *)
(* created, updated, moved to another project or deleted before.           *)
(***************************************************************************)
THEOREM LoneWriteSafe == Spec => LoneWriteFits
<1> DEFINE Inv == TypeOK /\ CheckedFits
           Lone == \A r \in plan.requests, m \in Meters :
                     ChecksAndWrites(r) /\ req[r].q.meter = m /\ ~req[r].overtaken /\ faults = 0 =>
                       ProjectLimits(m)' <= req[r].limit
<1>1. Init => Inv
  <2>1. Init => CheckedFits
    BY DEF Init, CheckedFits
  <2> QED BY <2>1, TypeInit
<1>2. Inv /\ [Next]_vars => Inv'
  BY TypeNext, FitsNext, Zenon
<1>3. Inv /\ [Next]_vars => [Lone]_vars
  <2> SUFFICES ASSUME Inv, [Next]_vars, NEW r \in plan.requests, ChecksAndWrites(r),
                      ~req[r].overtaken, faults = 0, NEW m \in Meters, req[r].q.meter = m
               PROVE  ProjectLimits(m)' <= req[r].limit
    BY Zenon
  <2>1. /\ req[r].pc = "write" /\ req'[r].pc = "idle" /\ req[r].q.project # None
        /\ req[r].limit # 0
    BY Zenon DEF ChecksAndWrites
  <2>2. Write(r, req[r].q, req[r].id)
    BY <2>1, WrittenByItself, Zenon DEF WriteQuota
  <2>3. /\ req[r] # NoRequest /\ req[r].id \in {0} \cup DOMAIN quotas
        /\ req[r] \in [pc: {"sum", "write"}, q: QuotaRows, id: Nat, limit: Int, overtaken: BOOLEAN]
    BY <2>1 DEF TypeOK, Requests, NoRequest
  <2>4. PICK q \in QuotaRows, id \in {0} \cup DOMAIN quotas, l \in Int :
          q = req[r].q /\ id = req[r].id /\ l = req[r].limit
    BY <2>3
  <2>5. q.limit > 0 /\ ProjectLimitSum(q.meter, id) + q.limit <= l
    BY <2>1, <2>3, <2>4, Zenon DEF CheckedFits, Fits
  <2>6. /\ ProjectLimits(q.meter)' \in Int /\ ProjectLimitSum(q.meter, id) + q.limit \in Int
        /\ ProjectLimits(q.meter)' <= ProjectLimitSum(q.meter, id) + q.limit
    BY <2>1, <2>2, <2>4, <2>5, WriteFits, Zenon
  <2>7. ProjectLimits(q.meter)' <= l
    BY <2>5, <2>6
  <2> QED BY <2>4, <2>7, Zenon
<1>4. [][Lone]_vars => LoneWriteFits
  BY DEF LoneWriteFits
<1> QED BY <1>1, <1>2, <1>3, <1>4, PTL DEF Spec

=============================================================================
