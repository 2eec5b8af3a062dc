--------------------------- MODULE MCEventHandlers ---------------------------
(***************************************************************************)
(* Small instances of EventHandlers: for each type of event, values that   *)
(* are missing, null, of the wrong type, empty of usage, or right.         *)
(***************************************************************************)
EXTENDS EventHandlers

Acme == Text("acme")
Hour == Number(3, "3")
NoExt == [type |-> "", id |-> "", tenant |-> ""]

Event(type, subject, ext, data) ==
  [type |-> type, subject |-> subject, ext |-> ext, data |-> data]

TenantValues == {Missing, Null, Acme, Number(7, "7")}

ComputeEvents(tenants, figures) ==
  {Event("compute", subject, NoExt,
         Object([tenant_id |-> t, instance_id |-> i, state |-> s, duration_seconds |-> n,
                 usage |-> u])) :
     subject \in {"", "globex"}, t \in tenants, i \in {Missing, Text("vm")},
     s \in {Text("RUNNING"), Text("STOPPED")}, n \in {Number(0, "0"), Hour}, u \in figures}

ClusterEvents(tenants) ==
  {Event("cluster", subject, NoExt,
         Object([tenant_id |-> t, cluster_id |-> i, name |-> Text("k"), state |-> Text("READY"),
                 host_type |-> h, duration_seconds |-> Hour, usage |-> u])) :
     subject \in {"", "globex"}, t \in tenants, i \in {Missing, Text("k")},
     h \in {Missing, Text("_control_plane")}, u \in {Missing, Hour}}

ModelEvents(types) ==
  {Event(type, subject, NoExt,
         Object([tenant_id |-> t, user |-> Text("ann"), model_id |-> i, model |-> Text("m"),
                 duration_seconds |-> n, usage |-> Hour])) :
     type \in types, subject \in {"", "globex"}, t \in {Missing, Acme},
     i \in {Missing, Text("llm")}, n \in {Missing, Number(-1, "-1")}}

V1Events(types, states) ==
  {Event(type, "", [type |-> rt, id |-> "vm", tenant |-> xt],
         Object([tenant_id |-> Acme, resource_id |-> Text("vm"), resource_type |-> Text(rt),
                 state |-> s, billing_dimensions |-> Object([model |-> m, usage |-> Hour])])) :
     type \in types, rt \in {"compute_instance", "cluster_order", "maas_inference", "volume"},
     xt \in {"", "acme", "globex"}, s \in states, m \in {Missing, Text("llm")}}

\* An event of a configured type; gpu is a nested object.
GpuEvents(tenants) ==
  {Event(type, "globex", NoExt,
         Object([tenant_id |-> t, gpu |-> Object([id |-> i, use |-> Object([seconds |-> u])]),
                 count |-> c, duration_seconds |-> n])) :
     type \in {"gpu", "other"}, t \in tenants, i \in {Missing, Null, Text("g")},
     u \in {Missing, Null, Text("x"), Number(-1, "-1"), Hour},
     c \in {Missing, Numeral(2, "2")}, n \in {Null, Hour}}

Meter(name, path) == [name |-> name, path |-> path, unit |-> "units"]

Gpu == [type |-> "gpu", rtype |-> "gpu_instance", id |-> <<"data", "gpu", "id">>,
        tenant |-> <<"tenant_id">>,
        meters |-> {Meter("seconds", <<"gpu", "use", "seconds">>),
                    Meter("count", <<"data", "count">>)}]
Other == [Gpu EXCEPT !.type = "other", !.meters = {Meter("count", <<"count">>)}]
GpuAgain == [Gpu EXCEPT !.meters = {Meter("count", <<"count">>)}]

\* A definition of an event type that has a handler.
Shadow(type, id) == [Gpu EXCEPT !.type = type, !.id = id, !.meters = {Meter("shadow", <<"usage">>)}]
Shadows == <<Shadow("compute", <<"state">>), Shadow("cluster", <<"name">>),
             Shadow("model", <<"model">>), Shadow("v1.created", <<"resource_id">>)>>

Files ==
  {<<>>, <<Gpu>>, <<Gpu, Other>>, <<Gpu, GpuAgain>>, <<[Gpu EXCEPT !.rtype = ""]>>,
   <<[Gpu EXCEPT !.meters = {[Meter("count", <<"count">>) EXCEPT !.unit = ""]}]>>, Shadows}

OwnerEvents ==
  ComputeEvents(TenantValues, {Missing, Hour}) \cup ClusterEvents({Missing, Acme})
  \cup ModelEvents({"model", "tokens"}) \cup V1Events(V1, {Text("RUNNING")})
  \cup GpuEvents(TenantValues)
=============================================================================
