---------------------------- MODULE EventHandlers ----------------------------
(***************************************************************************)
(* What an ingested event is taken for and what it writes: classifyEvent,  *)
(* the identity part of validateCloudEvent, the dispatch of processEvent   *)
(* to the handlers of VM, cluster, model, OSAC v1 and inference events,    *)
(* and the custom metrics an operator configures (package custommetrics).  *)
(*                                                                         *)
(* One event is one step: Ingest models the transaction it is handled in,  *)
(* its receipt and its retries.  Times are relative to the time of the     *)
(* event.  The usage figures of an event (core seconds, node seconds,      *)
(* tokens) are one field, "usage", and a subscription stands for the       *)
(* tenant its namespace names.                                             *)
(***************************************************************************)
EXTENDS Integers, Sequences, FiniteSets, SequencesExt

CONSTANTS
  Configs,    \* the custom metrics files the service may be deployed with
  Events,     \* the events that may be sent
  MaxEvents   \* bound on the number of events handled

ASSUME EventHandlersAssumption == MaxEvents \in Nat

VARIABLES
  up,         \* whether the service is serving
  file,       \* the custom metrics file it was started with
  inventory,  \* tables inventory_compute_instance, _cluster and _model; metered
              \* says whether last_metered_at is set
  log         \* the events handled: verdict, row of raw_events, metering entries

vars == <<up, file, inventory, log>>

(***************************************************************************)
(* A JSON value: numeric says whether toFloat64 yields a number, which it  *)
(* also does for text that is a numeral.                                   *)
(***************************************************************************)
Value(kind, s, n, numeric, of) ==
  [kind |-> kind, s |-> s, n |-> n, numeric |-> numeric, of |-> of]

Missing == Value("missing", "", 0, FALSE, <<>>)
Null == Value("null", "<nil>", 0, FALSE, <<>>)
Text(s) == Value("text", s, 0, FALSE, <<>>)
Numeral(n, s) == Value("text", s, n, TRUE, <<>>)
Number(n, s) == Value("number", s, n, TRUE, <<>>)
Object(fields) == Value("object", "map[]", 0, FALSE, fields)

Field(v, f) == IF v.kind = "object" /\ f \in DOMAIN v.of THEN v.of[f] ELSE Missing

\* Decoding into a Go struct: absent and null leave the zero value, a value
\* of another type is an error.
Decodes(data, strings, numbers) ==
  /\ data.kind = "object"
  /\ \A f \in strings : Field(data, f).kind \in {"missing", "null", "text"}
  /\ \A f \in numbers : Field(data, f).kind \in {"missing", "null", "number"}

Str(data, f) == IF Field(data, f).kind = "text" THEN Field(data, f).s ELSE ""
Num(data, f) == IF Field(data, f).kind = "number" THEN Field(data, f).n ELSE 0

FirstNonEmpty(names) ==
  LET named == SelectSeq(names, LAMBDA s : s # "") IN IF named = <<>> THEN "" ELSE named[1]

(***************************************************************************)
(* The event types with a handler of their own.                            *)
(***************************************************************************)
V1 == {"v1.created", "v1.deleted", "v1.inference"}
Hardcoded == {"compute", "cluster", "model", "tokens"}

Identity(type, id, tenant) == [type |-> type, id |-> id, tenant |-> tenant]

classifyEvent(e) ==
  LET d == e.data
      tenant == FirstNonEmpty(<<Str(d, "tenant_id"), Str(d, "organization_id"), e.subject>>)
  IN CASE e.type \in V1 -> Identity(FirstNonEmpty(<<e.ext.type, e.type>>), e.ext.id, e.ext.tenant)
       [] e.type \notin V1 /\ ~Decodes(d, {"tenant_id", "organization_id", "instance_id",
                                           "cluster_id", "model_id", "user", "model"}, {})
            -> Identity(e.type, "", e.subject)
       [] OTHER ->
            CASE e.type = "compute" -> Identity("ComputeInstance", Str(d, "instance_id"), tenant)
              [] e.type = "cluster" -> Identity("Cluster", Str(d, "cluster_id"), tenant)
              [] e.type = "model" -> Identity("Model", Str(d, "model_id"), tenant)
              [] e.type = "tokens" ->
                   Identity("Model", FirstNonEmpty(<<Str(d, "model_id"), Str(d, "model")>>), tenant)
              [] OTHER -> Identity(e.type, "", tenant)

-----------------------------------------------------------------------------
(***************************************************************************)
(* Package custommetrics.                                                  *)
(***************************************************************************)
Complete(def) ==
  /\ def.type # "" /\ def.rtype # "" /\ def.id # <<>> /\ def.tenant # <<>> /\ def.meters # {}
  /\ \A m \in def.meters : m.name # "" /\ m.path # <<>> /\ m.unit # ""

\* Bug: two definitions of one event type are let through.
validateEach(defs) == \A i \in DOMAIN defs : Complete(defs[i])

validate(defs) ==
  /\ \A i \in DOMAIN defs : Complete(defs[i])
  /\ \A i, j \in DOMAIN defs : defs[i].type = defs[j].type => i = j

HasEventType(t) == \E i \in DOMAIN file : file[i].type = t

\* The registry is a map filled in the order of the file.
Def(t) == LET i == CHOOSE i \in DOMAIN file :
                     file[i].type = t /\ \A j \in DOMAIN file : file[j].type = t => j <= i
          IN file[i]

extractField(data, path) ==
  FoldLeft(LAMBDA v, part : Field(v, part), data,
           IF Len(path) > 1 /\ path[1] = "data" THEN Tail(path) ELSE path)

toString(v) == v.s

ClassifyEvent(e) ==
  LET def == Def(e.type)
  IN Identity(def.rtype, toString(extractField(e.data, def.id)),
              toString(extractField(e.data, def.tenant)))

Entry(who, meter, value, from) ==
  [type |-> who.type, id |-> who.id, tenant |-> who.tenant, meter |-> meter,
   value |-> value, from |-> from]

\* What a handler returns and does: the rows it upserts, those whose
\* last_metered_at it advances, and the metering entries it inserts.
Result(rows, metered, entries) ==
  [ok |-> TRUE, rows |-> rows, metered |-> metered, entries |-> entries]
Nothing == Result({}, {}, {})
Failed == [Nothing EXCEPT !.ok = FALSE]

\* Bug: the tenant is taken from the envelope.
ProcessEventBySubject(e) ==
  LET def == Def(e.type)
      who == [ClassifyEvent(e) EXCEPT !.tenant = e.subject]
  IN Result({}, {}, {Entry(who, m.name, extractField(e.data, m.path).n, 0) : m \in def.meters})

ProcessEvent(e) ==
  LET duration == extractField(e.data, <<"duration_seconds">>)
      value(m) == extractField(e.data, m.path)
  IN IF e.data.kind # "object" THEN Failed
     ELSE Result({}, {},
            {Entry(ClassifyEvent(e), m.name, value(m).n,
                   IF duration.numeric /\ duration.n > 0 THEN -duration.n ELSE 0) :
               m \in {m \in Def(e.type).meters : value(m).numeric /\ value(m).n > 0}})

-----------------------------------------------------------------------------
(***************************************************************************)
(* validateCloudEvent and processEvent first agree on whose event it is.   *)
(***************************************************************************)
WhoseEvent(e) ==
  LET who == classifyEvent(e)
  IN IF (who.id = "" \/ who.tenant = "") /\ HasEventType(e.type) /\ e.data.kind = "object"
     THEN ClassifyEvent(e) ELSE who

\* The identity in the data of a v1 event is the one in its extensions.
V1Agrees(e) ==
  /\ e.ext.id # "" /\ e.ext.type # "" /\ e.ext.tenant # ""
  /\ Decodes(e.data, {"resource_id", "resource_type", "tenant_id", "state"}, {"duration_seconds"})
  /\ Str(e.data, "resource_id") = e.ext.id /\ Str(e.data, "resource_type") = e.ext.type
  /\ Str(e.data, "tenant_id") = e.ext.tenant

validateCloudEvent(e) ==
  /\ e.data.kind \notin {"missing", "null"}
  /\ WhoseEvent(e).type # "" /\ WhoseEvent(e).id # "" /\ WhoseEvent(e).tenant # ""
  /\ e.type \in V1 => V1Agrees(e)

Row(type, who, state) ==
  [type |-> type, id |-> who.id, tenant |-> who.tenant, state |-> state, metered |-> FALSE]
Key(r) == <<r.type, r.id>>

IsComputeInstanceBillable(state) == state \in {"COMPUTE_INSTANCE_STATE_RUNNING", "RUNNING"}

processComputeInstanceEvent(e) ==
  LET d == e.data
      who == Identity("compute_instance", Str(d, "instance_id"), Str(d, "tenant_id"))
      duration == Num(d, "duration_seconds")
  IN IF ~Decodes(d, {"tenant_id", "instance_id", "state"}, {"duration_seconds", "usage"})
     THEN Failed
     ELSE IF ~IsComputeInstanceBillable(Str(d, "state"))
     THEN Nothing
     ELSE IF duration <= 0 THEN Failed
     ELSE Result({Row("compute_instance", who, Str(d, "state"))}, {Key(who)},
                 {Entry(who, "uptime", duration, -duration),
                  Entry(who, "usage", Num(d, "usage"), -duration)})

\* The entry of a figure that is metered only when it is positive.
Positive(who, meter, value, duration) ==
  IF value > 0 THEN {Entry(who, meter, value, -duration)} ELSE {}

processClusterEvent(e) ==
  LET d == e.data
      who == Identity("cluster", Str(d, "cluster_id"), Str(d, "tenant_id"))
      duration == Num(d, "duration_seconds")
  IN IF ~Decodes(d, {"tenant_id", "cluster_id", "state", "host_type"},
                 {"duration_seconds", "usage"})
     THEN Failed
     ELSE IF Str(d, "state") \notin {"CLUSTER_STATE_READY", "CLUSTER_STATE_PROGRESSING",
                                     "READY", "PROGRESSING"}
     THEN Nothing
     ELSE IF duration <= 0 THEN Failed
     ELSE Result({}, {Key(who)},
                 (IF Str(d, "host_type") = "_control_plane"
                  THEN {Entry(who, "uptime", duration, -duration)} ELSE {})
                 \cup Positive(who, "usage", Num(d, "usage"), duration))

IsModelBillable(state) == state \in {"MODEL_STATE_RUNNING", "RUNNING"}

MeterMaaSEvent(who, state, usage, requests, duration) ==
  IF ~IsModelBillable(state) THEN {}
  ELSE Positive(who, "usage", usage, duration) \cup Positive(who, "requests", requests, duration)

processModelEvent(e) ==
  LET d == e.data
      who == Identity("model", FirstNonEmpty(<<Str(d, "model_id"), Str(d, "model")>>),
                      FirstNonEmpty(<<Str(d, "tenant_id"), Str(d, "organization_id"),
                                      Str(d, "subscription"), Str(d, "group"), Str(d, "user")>>))
      state == FirstNonEmpty(<<Str(d, "state"), "MODEL_STATE_RUNNING">>)
      duration == Num(d, "duration_seconds")
  IN IF \/ ~Decodes(d, {"tenant_id", "organization_id", "subscription", "group", "user",
                        "model_id", "model", "state"}, {"duration_seconds", "usage", "requests"})
        \/ duration < 0
     THEN Failed
     ELSE Result({Row("model", who, state)}, {},
                 MeterMaaSEvent(who, state, Num(d, "usage"), Num(d, "requests"), duration))

(***************************************************************************)
(* OSAC v1 events; validation has decoded and compared their identity.     *)
(***************************************************************************)
processOSACInventory(e, type) ==
  Result({Row(type, Identity(type, Str(e.data, "resource_id"), Str(e.data, "tenant_id")),
              IF e.type = "v1.deleted" THEN "DELETING" ELSE Str(e.data, "state"))}, {}, {})

\* The usage is metered without a state.
processOSACInference(e) ==
  LET d == e.data
      bd == Field(d, "billing_dimensions")
      who == Identity("model", FirstNonEmpty(<<Str(bd, "model"), Str(d, "resource_id")>>),
                      FirstNonEmpty(<<Str(d, "tenant_id"), Str(bd, "organization_id")>>))
  IN Result({Row("model", who, "MODEL_STATE_RUNNING")}, {},
            MeterMaaSEvent(who, "", Num(bd, "usage"), 1, Num(d, "duration_seconds")))

processOSACResourceEvent(e) ==
  LET type == Str(e.data, "resource_type")
  IN CASE type = "compute_instance" -> processOSACInventory(e, "compute_instance")
       [] type = "cluster_order" -> processOSACInventory(e, "cluster")
       [] type = "maas_inference" -> processOSACInference(e)
       [] OTHER -> Nothing

processEvent(e) ==
  CASE e.type \in V1 -> processOSACResourceEvent(e)
    [] e.type = "compute" -> processComputeInstanceEvent(e)
    [] e.type = "cluster" -> processClusterEvent(e)
    [] e.type \in {"model", "tokens"} -> processModelEvent(e)
    [] e.type \notin V1 \cup Hardcoded /\ HasEventType(e.type) -> ProcessEvent(e)
    [] OTHER -> Nothing

-----------------------------------------------------------------------------
Init == up = FALSE /\ file = <<>> /\ inventory = {} /\ log = {}

\* A file that cannot be loaded ends the process before it serves.
Start(defs) ==
  /\ ~up /\ validate(defs)
  /\ up' = TRUE /\ file' = defs
  /\ UNCHANGED <<inventory, log>>

Stop == up /\ up' = FALSE /\ UNCHANGED <<file, inventory, log>>

Refused(e, verdict) ==
  [event |-> e, file |-> file, verdict |-> verdict, raw |-> Identity("", "", ""),
   rows |-> {}, entries |-> {}]

Recorded(e, result) ==
  [event |-> e, file |-> file, verdict |-> "processed", raw |-> WhoseEvent(e),
   rows |-> result.rows, entries |-> result.entries]

\* An upsert replaces the row of its resource except for last_metered_at.
Written(result) ==
  LET kept == {r \in inventory : \A new \in result.rows : Key(r) # Key(new)}
      metered(k) == k \in result.metered \/ \E r \in inventory : Key(r) = k /\ r.metered
  IN {[r EXCEPT !.metered = metered(Key(r))] : r \in kept \cup result.rows}

\* An event that was processed has a receipt and is not processed again.
New(e) == \A o \in log : ~(o.event = e /\ o.verdict = "processed")

Reject(e) ==
  /\ ~validateCloudEvent(e)
  /\ log' = log \cup {Refused(e, "rejected")}
  /\ UNCHANGED inventory

Fail(e) ==
  /\ validateCloudEvent(e) /\ ~processEvent(e).ok
  /\ log' = log \cup {Refused(e, "failed")}
  /\ UNCHANGED inventory

Process(e) ==
  /\ validateCloudEvent(e) /\ processEvent(e).ok
  /\ log' = log \cup {Recorded(e, processEvent(e))}
  /\ inventory' = Written(processEvent(e))

Ingest(e) ==
  /\ up /\ Cardinality(log) < MaxEvents /\ New(e)
  /\ Reject(e) \/ Fail(e) \/ Process(e)
  /\ UNCHANGED <<up, file>>

Next == Stop \/ (\E defs \in Configs : Start(defs)) \/ (\E e \in Events : Ingest(e))

Spec == Init /\ [][Next]_vars

-----------------------------------------------------------------------------
TypeOK ==
  /\ up \in BOOLEAN /\ file \in Configs \cup {<<>>} /\ (up => validate(file))
  /\ \A r \in inventory : r.type \in {"compute_instance", "cluster", "model"}
  /\ \A o \in log : /\ o.event \in Events /\ o.file \in Configs
                     /\ o.verdict \in {"rejected", "failed", "processed"}
                     /\ o.verdict # "processed" => o.entries = {}

Processed == {o \in log : o.verdict = "processed"}

\* The event names its tenant and its resource in the fields that classifyEvent
\* and the handler of its type both read first.
NamesItself(e) ==
  e.type \in Hardcoded => Str(e.data, "tenant_id") # "" /\ classifyEvent(e).id # ""

(***************************************************************************)
(* One event, one owner: the raw event kept for audit, the inventory rows  *)
(* and the metering entries that are billed name the same tenant and the   *)
(* same resource, although classifyEvent, the handlers and the custom      *)
(* metrics each read them for themselves.  (What an inference is billed as *)
(* is its model.)  An event of the four older types has to name both       *)
(* itself.  Without tenant_id its handler finds another tenant, or none.   *)
(* Without a resource it is refused, unless the custom metrics file        *)
(* defines its type: LoadFromFile warns that "this definition will be      *)
(* ignored" and keeps it, and processEvent takes the identity of the raw   *)
(* event from it, while the handler writes rows and entries with an empty  *)
(* id.                                                                     *)
(***************************************************************************)
OneOwner ==
  /\ TypeOK
  /\ \A o \in Processed : NamesItself(o.event) =>
       \A m \in o.entries \cup o.rows :
          /\ m.tenant = o.raw.tenant /\ m.tenant # "" /\ m.id # ""
          /\ o.raw.type # "maas_inference" => m.id = o.raw.id

(***************************************************************************)
(* Every meter of every definition in the file the service runs with is    *)
(* metered for an event of its type when, and only when, the event has a   *)
(* positive number at the meter's path, at any depth; a leading data. of a *)
(* path stands for the data object itself.  A definition of a type that    *)
(* has a handler of its own meters nothing.                                *)
(***************************************************************************)
FoundAt(data, path, n) ==
  \E p \in {path} \cup {Tail(q) : q \in {q \in {path} : Len(q) > 1 /\ q[1] = "data"}} :
     LET v == CASE Len(p) = 1 -> Field(data, p[1])
                [] Len(p) = 2 -> Field(Field(data, p[1]), p[2])
                [] Len(p) = 3 -> Field(Field(Field(data, p[1]), p[2]), p[3])
     IN v.numeric /\ v.n = n /\ n > 0

MetersAsConfigured ==
  \A o \in Processed : \A i \in DOMAIN o.file : o.file[i].type = o.event.type =>
     /\ \A m \in o.file[i].meters : \A n \in 1..9 :
          (o.event.type \notin V1 \cup Hardcoded /\ FoundAt(o.event.data, m.path, n))
             <=> \E x \in o.entries : x.meter = m.name /\ x.value = n
     /\ \A x \in o.entries : x.from <= 0
=============================================================================
