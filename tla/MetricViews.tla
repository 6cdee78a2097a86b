----------------------------- MODULE MetricViews -----------------------------
(***************************************************************************)
(* The views a MeterProvider is built with (internal/views and             *)
(* internal/metrics): every integration's views and the SDK's own, then    *)
(* the bucket overrides, then on the pull path the filter of the labels    *)
(* the Prometheus exporter owns.  Of the views that match an instrument    *)
(* the OTel SDK keeps the first one's stream, and it has its default       *)
(* stream only where none matches.                                         *)
(***************************************************************************)
EXTENDS PromLabels, FiniteSets

CONSTANTS
  Measured,      \* attributes a measurement may carry
  ScopeAttrs,    \* sets of attribute keys a meter may be created with
  Overrides      \* sets of instruments that have buckets of their own

\* Attributes of a measurement that render as a label of the exporter's, and
\* which IsReservedAttributeKey says so of.
Reserved == {"service.name", "le"}

VARIABLES
  pull,        \* Prometheus pulls, or the SDK pushes OTLP
  disabled,    \* WithDisableDefaultViews
  overrides,   \* the instruments of WithInstrumentHistogramBuckets
  extra,       \* the keys of WithExtraHTTPServerAttributeKeys
  recorded,    \* the instrument measured last, and with which attributes
  streams,     \* its streams
  meter        \* the scope attributes the meter created last asked for and has

vars == <<pull, disabled, overrides, extra, recorded, streams, meter>>

-----------------------------------------------------------------------------
(* Views.  Every, as a scope, a kind, a unit or an allow-list, is everything. *)

Every == {"any"}
Is(x, pattern) == pattern = Every \/ x \in pattern

View(names, scope, agg, allow) ==
  {[name |-> n, scope |-> scope, kind |-> Every, unit |-> Every, agg |-> agg, allow |-> allow,
    drops |-> FALSE] : n \in names}

Pool == {"db.system.name", "db.client.connection.pool.name", "server.address", "server.port"}
Call == {"db.system.name", "db.operation.name", "server.address", "server.port", "error.type"}

Cassandra ==
  LET query == Call \cup {"db.namespace", "db.collection.name"}
  IN  View({"db.client.operation.duration"}, {"cassandra"}, "buckets", query)
        \cup View({"db.client.connection.create_time"}, {"cassandra"}, "buckets", Pool)
        \cup View({"cassandra.query.attempts"}, {"cassandra"}, "default", query)
        \cup View({"cassandra.connection.attempts"}, {"cassandra"}, "default", Pool \cup {"error.type"})

Elasticsearch ==
  View({"db.client.operation.duration"}, {"elasticsearch"}, "buckets",
       Call \cup {"db.collection.name", "db.response.status_code"})

Minio ==
  View({"minio.client.operation.duration"}, {"minio"}, "buckets",
       {"object_store.operation.name", "object_store.bucket.name", "server.address", "server.port",
        "error.type"})

Mongo ==
  View({"db.client.operation.duration"}, {"otelmongo"}, "buckets",
       {"db.system.name", "db.operation.name", "network.peer.address", "network.peer.port", "error.type"})
    \cup View({"db.client.connection.count"}, {"mongo"}, "default", Pool \cup {"db.client.connection.state"})
    \cup View({"db.client.connection.create_time"}, {"mongo"}, "buckets", Pool)
    \cup View({"db.client.connection.idle.min", "db.client.connection.max",
               "db.client.connection.pending_requests", "db.client.connection.timeouts"},
              {"mongo"}, "default", Pool)
    \cup View({"db.client.connection.idle.max", "db.client.connection.use_time",
               "db.client.connection.wait_time"}, {"mongo"}, "drop", Every)

\* The legacy names are dropped whoever records them.
Redis ==
  View({"db.client.operation.duration"}, {"redis"}, "buckets", Call)
    \cup View({"db.client.connection.create_time"}, {"redis"}, "buckets", Pool)
    \cup View({"db.client.connection.count"}, {"redis"}, "default", Pool \cup {"db.client.connection.state"})
    \cup View({"db.client.connection.idle.max", "db.client.connection.idle.min",
               "db.client.connection.max", "db.client.connection.timeouts"}, {"redis"}, "default", Pool)
    \cup View({"db.client.connections.usage", "db.client.connections.idle.max",
               "db.client.connections.idle.min", "db.client.connections.max",
               "db.client.connections.pending_requests", "db.client.connections.timeouts",
               "db.client.connections.hits", "db.client.connections.misses",
               "db.client.connections.create_time", "db.client.connections.use_time",
               "db.client.connections.wait_time"}, Every, "drop", Every)

CallDurations == {"rpc.server.call.duration", "rpc.client.call.duration"}

\* Faulty variant: the unit is not asked for.
RPCAnyUnit ==
  {[v EXCEPT !.kind = {"histogram"}] : v \in View(CallDurations, Every, "buckets", Every)}

\* Another unit than seconds keeps its own boundaries.
RPC ==
  {[v EXCEPT !.kind = {"histogram"}, !.unit = {"s"}] :
     v \in View(CallDurations, Every, "buckets", Every)}

\* defaultViews: what their filter drops stays out of the exemplars too.
DefaultViews ==
  LET http == {"http.request.method", "http.route", "http.response.status_code"}
  IN  IF disabled THEN {}
      ELSE {[v EXCEPT !.drops = TRUE] :
              v \in View({"http.server.request.duration"}, Every, "buckets", http \cup extra)
                      \cup View({"http.client.request.duration"}, Every, "buckets",
                                http \cup {"server.address", "server.port", "error.type"})}

\* In the order the provider is given them.
Installed == <<DefaultViews, Cassandra, Elasticsearch, Minio, Mongo, Redis, RPC>>

Configured == UNION {Installed[i] : i \in 1..7}

\* Which of them v is one of; the override's view and the catch-all come last.
Place(v) == CHOOSE i \in 1..7 : v \in Installed[i]
OverridePlace == 8
CatchAllPlace == 9

-----------------------------------------------------------------------------
(* Streams of an instrument *)

Matches(v, inst) ==
  v.name = inst.name /\ Is(inst.scope, v.scope) /\ Is(inst.kind, v.kind) /\ Is(inst.unit, v.unit)

\* One for each view that matches, the view being part of it.
Claimed(inst) ==
  {[at |-> Place(v), of |-> v.scope, agg |-> v.agg, allow |-> v.allow, guarded |-> FALSE, drops |-> v.drops] :
     v \in {w \in Configured : Matches(w, inst)}}

Own(at, of, agg, guarded) ==
  [at |-> at, of |-> {of}, agg |-> agg, allow |-> Every, guarded |-> guarded, drops |-> guarded]

Overridden(inst) == inst.name \in overrides /\ inst.kind = "histogram"

\* A stream that drops, or that is no histogram, is left alone.
WithBucketOverride(s, inst) ==
  IF Overridden(inst) /\ s.agg # "drop" THEN [s EXCEPT !.agg = "override"] ELSE s

\* Faulty variant: the override's view does not decline what another claims.
UnclaimedBucketOverrideAll(inst) ==
  IF Overridden(inst) THEN {Own(OverridePlace, "override", "override", FALSE)} ELSE {}

UnclaimedBucketOverride(inst) ==
  IF Overridden(inst) /\ Claimed(inst) = {} THEN {Own(OverridePlace, "override", "override", FALSE)} ELSE {}

ApplyHistogramBucketOverrides(inst) ==
  {WithBucketOverride(s, inst) : s \in Claimed(inst)} \cup UnclaimedBucketOverride(inst)

WithReservedKeyFilter(s) == [s EXCEPT !.guarded = TRUE, !.drops = TRUE]

CatchAllReservedKeyFilter(S) == IF S = {} THEN {Own(CatchAllPlace, "catchAll", "default", TRUE)} ELSE {}

GuardReservedKeys(S) == {WithReservedKeyFilter(s) : s \in S} \cup CatchAllReservedKeyFilter(S)

\* InitMeter: the guard is for the labels of the Prometheus exporter.
Views(inst) ==
  LET S == ApplyHistogramBucketOverrides(inst) IN IF pull THEN GuardReservedKeys(S) ELSE S

\* The default stream where no view matches.  Every view that matches is applied,
\* but their streams have one name: the first one's is kept, or dropped, and those
\* after it are not heard of (external).
SDKStreams(S) ==
  IF S = {} THEN {Own(0, "sdk", "default", FALSE)}
  ELSE {s \in S : s.agg # "drop" /\ \A t \in S : t = s \/ s.at < t.at}

\* What a stream's filters keep; the rest is offered to the exemplar.
Kept(s, attrs) ==
  {a \in attrs : Is(a, s.allow) /\ (s.guarded => a \notin Reserved)}

Exemplar(s, attrs) == IF s.drops THEN {} ELSE attrs \ Kept(s, attrs)

-----------------------------------------------------------------------------
(* Scope attributes *)

ScopeBuiltinLabels == {<<"n">>}

\* The label is the exporter's own for a scope, or none.
ScopeLabelTaken(k) == NormalizePrometheusLabelName(k) \in {<<>>, <<"_">>} \cup ScopeBuiltinLabels

\* sanitizeScopeAttributes
SanitizeScopeAttributes(keys) == KeepFirst(keys, {k \in keys : ~ScopeLabelTaken(k)})

-----------------------------------------------------------------------------

Instruments ==
  [name : {v.name : v \in Configured} \cup {"http.server.request.duration", "app.duration"},
   scope : {"cassandra", "elasticsearch", "minio", "otelmongo", "mongo", "redis", "app"},
   kind : {"histogram", "counter"},
   unit : {"s", "ms"}]

NoMeter == [keys |-> {}, kept |-> {}]
Nothing == [inst |-> [name |-> "", scope |-> "", kind |-> "", unit |-> ""], attrs |-> {}, claims |-> {}]

Init ==
  /\ pull \in BOOLEAN /\ disabled \in BOOLEAN /\ overrides \in Overrides
  /\ extra \in {{}, {"app"}}
  /\ recorded = Nothing /\ streams = {} /\ meter = NoMeter

\* One question is asked of a configuration: a measurement and a meter's scope
\* have nothing in common.
Fresh == recorded = Nothing /\ meter = NoMeter

\* A measurement: its streams are those of its instrument.
Record(inst, attrs) ==
  /\ Fresh
  /\ recorded' = [inst |-> inst, attrs |-> attrs, claims |-> Views(inst)]
  /\ streams' = SDKStreams(Views(inst))
  /\ UNCHANGED <<pull, disabled, overrides, extra, meter>>

\* scopeGuardedMeterProvider.Meter; the provider of a push has no such guard.
ScopeOf(keys) == IF pull THEN Range(SanitizeScopeAttributes(keys)) ELSE keys

Meter(keys) ==
  /\ Fresh
  /\ meter' = [keys |-> keys, kept |-> ScopeOf(keys)]
  /\ UNCHANGED <<pull, disabled, overrides, extra, recorded, streams>>

Next ==
  \/ Fresh /\ \E inst \in Instruments, attrs \in Measured : Record(inst, attrs)
  \/ Fresh /\ \E keys \in ScopeAttrs : Meter(keys)

-----------------------------------------------------------------------------

(***************************************************************************)
(* However many integrations are active and whatever is overridden: no two *)
(* views claim an instrument, so that none is passed over for coming       *)
(* later; it has one stream, or none where a view drops it; an override    *)
(* reaches it in every scope and takes no filter from it, and what neither *)
(* a view nor an override names keeps its own boundaries and attributes,   *)
(* as a call's duration in another unit than seconds keeps its boundaries; *)
(* and for the Prometheus exporter no attribute whose label it owns is on  *)
(* the series or comes back on an exemplar.                                *)
(***************************************************************************)
OneStream ==
  recorded # Nothing =>
    LET inst      == recorded.inst
        unclaimed == \A v \in Configured : ~Matches(v, inst)
    IN  /\ Cardinality(recorded.claims) <= 1 /\ Cardinality(streams) <= 1
        /\ streams = {} <=> \E v \in Configured : Matches(v, inst) /\ v.agg = "drop"
        /\ \A s \in streams :
             /\ Overridden(inst) => s.agg = "override"
             /\ \A v \in Configured : Matches(v, inst) => s.allow = v.allow
             /\ pull => Reserved \cap (Kept(s, recorded.attrs) \cup Exemplar(s, recorded.attrs)) = {}
             /\ unclaimed /\ ~Overridden(inst) => s.agg = "default"
             /\ ~pull /\ unclaimed => Kept(s, recorded.attrs) = recorded.attrs
             /\ inst.name \in CallDurations /\ inst.unit # "s" => s.agg # "buckets"

(***************************************************************************)
(* For the Prometheus exporter no two attributes of a meter's scope render *)
(* as one label, and none as one it gives the scope itself.  An attribute  *)
(* is left out for such a reason only, and none is when the SDK pushes.    *)
(***************************************************************************)
ScopeLabelsDistinct ==
  LET kept == meter.kept
  IN  /\ pull => \A a \in kept : ~ScopeLabelTaken(a) /\ \A b \in kept : a # b => ~SameLabel(a, b)
      /\ kept \subseteq meter.keys
      /\ \A a \in meter.keys \ kept :
           pull /\ (ScopeLabelTaken(a) \/ \E b \in kept : SameLabel(a, b))
=============================================================================
