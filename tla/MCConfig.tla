------------------------------ MODULE MCConfig -------------------------------
(***************************************************************************)
(* What Init makes of its configuration, each part checked by itself in    *)
(* one run: the options and the Resource, the environment its exporters    *)
(* read, and the views of its meters.  Options of different settings have  *)
(* nothing in common, nor have the checks of different variables, so the   *)
(* ones that do vary together and the others are left out.                 *)
(***************************************************************************)
EXTENDS Integers, Sequences, FiniteSets

CONSTANTS
  Callers, MaxBaggageAttributeKeys, MaxInt,   \* SdkOptions
  Changes, MaxChanges,                        \* SdkEnv
  Measured, ScopeAttrs, Overrides             \* MetricViews

VARIABLES which,
  cfg, env, pc, resolved, used, redacted, echoed, touched,
  caller, toggles, detected, given, config, at, res, providerRes, whitelist,
  pull, disabled, overrides, extra, recorded, streams, meter

envVars == <<cfg, env, pc, resolved, used, redacted, echoed, touched>>
optVars == <<caller, toggles, detected, given, config, at, res, providerRes, whitelist>>
viewVars == <<pull, disabled, overrides, extra, recorded, streams, meter>>
vars == <<which, envVars, optVars, viewVars>>

-----------------------------------------------------------------------------
(* Callers of Init and the options each chooses from *)

Opt(op, v) == [op |-> op, v |-> v]
Opts(op, vs) == {Opt(op, v) : v \in vs}
Identity == <<Opt("WithServiceName", "s"), Opt("WithServiceVersion", "v"),
              Opt("WithServiceNamespace", "n"), Opt("WithEnvironment", "prod")>>
Toggles == {"trace", "metrics", "log", "profiling"}
NoToggles == {[p \in Toggles |-> ""]}

Caller(options) == [first |-> Identity, env |-> {}, toggles |-> NoToggles, options |-> options, max |-> 3]

Plain == {"WithLogLevel", "WithMetricsAddr", "WithProfilingEndpoint"}
Flags == {"WithRuntimeMetrics", "WithExemplars", "WithMetricsEnabled", "WithLogEnabled",
          "WithProfilingEnabled"}

Attr(k, v) == [key |-> k, value |-> v]
AttrKeys == {<<>>, <<"a", ".", "d">>, <<"a", "_", "d">>, <<"a", "-", "-", "d">>, <<"s", "-", "n">>,
             <<"p", ".", "a">>, <<"t", "_", "a">>, <<"h", "_", "n">>, <<"_", "_", "a", "_", "_">>,
             <<"o", ".", "a">>, <<"0">>}
EnvKeys == {<<"s", ".", "n">>, <<"s", "_", "n">>, <<"a", ".", "d">>, <<"a", "_", "d">>, <<"p", ".", "i">>,
            <<"p", "_", "a">>, <<"h", ".", "n">>, <<"h", "-", "n">>, <<"l">>, <<"u", ".", "n">>}

OptionCallers ==
  {[Caller({Opt("WithServiceName", ""), Opt("WithServiceVersion", ""), Opt("WithServiceNamespace", "")}
             \cup Opts("WithEnvironment", {"", "PROD ", "stg", "qa"})) EXCEPT !.first = f] :
     f \in {<<>>, Identity}}
  \cup {Caller(Opts("WithOTLPEndpoint", {"", "blank", "e1", "e2"}) \cup Opts("WithMetricsOTLPEndpoint", {"blank", "e1"})),
   Caller(UNION {Opts(op, {"", "x"}) : op \in Plain}),
   Caller(Opts("WithOTLPHeaders", {<<>>, [h1 |-> "v1"], [h1 |-> "v2", h2 |-> "v1"], [h2 |-> "v2"]})
            \cup Opts("WithProfilingAuthHeaders", {[h1 |-> "v1"]})),
   Caller(Opts("WithInstrumentHistogramBuckets",
               {[instrument |-> i, buckets |-> b] : i \in {"db", "wildcard"}, b \in {<<>>, <<1, 3>>, <<0, 1>>}})),
   Caller(Opts("WithHistogramBuckets", {<<>>, <<1>>, <<2, 1>>, <<1, 1>>, <<0, 2>>})),
   Caller(Opts("WithMaxUniqueRoutes", {-1, 1, 3000}) \cup Opts("WithMaxUniqueCollections", {0, 600})
            \cup Opts("WithCardinalityLimit", {-1, 1, 5000})),
   Caller(Opts("WithExtraHTTPServerAttributeKeys", AttrKeys \cup {<<"h", ".", "r">>, <<"-">>}))}
  \cup {[Caller({Opt("WithTraceSampler", "nil"), Opt("WithTraceSampler", "custom"), Opt("WithDisableDefaultViews", "")})
         EXCEPT !.first = Identity \o f] : f \in {<<>>, <<Opt("WithSamplingRatio", 50)>>, <<Opt("WithSamplingRatio", 101)>>}}
  \cup {[Caller(Opts("WithSamplingRatio", {0, 100, 101}))
         EXCEPT !.first = Identity \o f] : f \in {<<>>, <<Opt("WithTraceSampler", "custom")>>}}
  \cup {[Caller(UNION {Opts(op, BOOLEAN) : op \in Flags \cup {"WithTraceEnabled"}})
           EXCEPT !.toggles = {[p \in Toggles |-> IF p = "trace" THEN t ELSE "unknown"] : t \in {"", "true", "false", "unknown"}}]}
  \cup {[Caller(Opts("WithResourceAttributes", {Attr(k, "v1") : k \in AttrKeys} \cup {Attr(<<"a", ".", "d">>, "v2")}))
           EXCEPT !.env = e, !.max = 2] : e \in {x \in SUBSET EnvKeys : Cardinality(x) <= 2}}
  \cup {[Caller(Opts("WithBaggageAttributes", {<<"a">>, <<"d">>, <<"i">>, <<"a", " ">>, <<"h", ".", "i">>, <<"u", ".", "n">>, <<"s", ".", "n">>})
                  \cup {Opt("WithUserBaggage", <<>>)})
           EXCEPT !.env = e, !.toggles = {[p \in Toggles |-> t] : t \in {"", "false"}}] : e \in {{}, {<<"i">>}, {<<"u", ".", "n">>}}}

O == INSTANCE SdkOptions WITH env <- toggles, cfg <- config, pc <- at

ASSUME CallersAssumption ==
  \A c \in Callers :
    /\ c.max \in Nat /\ c.first \in Seq({c.first[i] : i \in DOMAIN c.first})
    /\ \A o \in c.options \cup {c.first[i] : i \in DOMAIN c.first} : O!IsOption(o)
    /\ IsFiniteSet(c.env) /\ c.env \subseteq O!Keys

ASSUME LimitsAssumption ==
  MaxBaggageAttributeKeys \in Nat /\ MaxInt \in Nat /\ MaxInt >= O!DefaultMaxUniqueRoutes

-----------------------------------------------------------------------------
(* Environments *)

E == INSTANCE SdkEnv

ASSUME ChangesAssumption == Changes \subseteq E!Variables \X E!Values

Good(padded) == E!Value("good", padded)
Bad == E!Value("bad", FALSE)

\* A variable is pointed elsewhere, becomes unreadable, or is unset and no longer
\* shadows another.
Change(prefix, setting, text) == <<<<prefix, setting>>, [text |-> text, padded |-> FALSE]>>

SomeChanges ==
  {Change("", "ENDPOINT", "path"), Change("TRACES", "ENDPOINT", "path"),
   Change("", "TIMEOUT", "bad"), Change("LOGS", "HEADERS", ""),
   Change("", "CLIENT_KEY", "bad"), Change("SDK", "SPAN_LIMIT", "")}

\* The variables that vary together, and the values each may have.
Single(s) == {<<{<<"SDK", s>>}, {E!Unset, E!Blank, Good(FALSE), Good(TRUE), E!Value("zero", FALSE), Bad}>>}
Own(s) == {<<{"", "LOGS"} \X {s}, {E!Unset, E!Blank, Good(FALSE), Good(TRUE), Bad}>>,
           <<{"", "TRACES", "METRICS"} \X {s}, {E!Unset, E!Blank, Good(TRUE), Bad}>>}
Groups ==
  (UNION {Single(s) : s \in {"BSP", "BLRP", "CARDINALITY", "INTERVAL", "TEMPORALITY"}})
    \cup (UNION {Own(s) : s \in {"TIMEOUT", "HEADERS", "CERTIFICATE", "COMPRESSION"}})
    \cup {<<{"SDK"} \X {"SPAN_LIMIT", "ATTRIBUTE_LIMIT"}, {E!Unset, E!Blank, Good(FALSE), Good(TRUE), Bad}>>,
          <<{"SDK"} \X {"SAMPLER", "SAMPLER_ARG"}, {E!Unset, E!Blank, Good(FALSE), E!Value("ratio", TRUE), Bad}>>,
          <<{"", "LOGS", "TRACES"} \X {"CLIENT_CERTIFICATE", "CLIENT_KEY"}, {E!Unset, Good(TRUE), Bad}>>}

Environments(group) ==
  {[v \in E!Variables |-> IF v \in group[1] THEN e[v] ELSE E!Unset] : e \in [group[1] -> group[2]]}

\* Which pillars are on matters to every variable, the options' own endpoints
\* and headers to a few.
PlainConfigs ==
  {c \in E!Configs : /\ c.otlpEndpoint = "" /\ c.metricsEndpoint # "noscheme"
                   /\ c.otlpHeaders # "invalid" /\ ~c.profiling
                   /\ c.profilingEndpoint = "" /\ c.profilingHeaders = "none"}

EndpointConfigs ==
  {c \in E!Configs : /\ ~c.metrics /\ c.otlpHeaders = "none" /\ ~c.profiling
                   /\ c.profilingEndpoint = "" /\ c.profilingHeaders = "none" /\ c.metricsEndpoint = ""}

EndpointEnvironment ==
  \E e \in [{"", "TRACES", "LOGS"} \X {"ENDPOINT"} ->
              {E!Unset, E!Blank, Good(TRUE), E!Value("path", FALSE), E!Value("noscheme", FALSE), Bad}],
     p \in [{"", "TRACES"} \X {"PROTOCOL"} -> {E!Unset, Good(FALSE), E!Value("grpc", TRUE)}] :
    env = [v \in E!Variables |->
             IF v \in DOMAIN e THEN e[v] ELSE IF v \in DOMAIN p THEN p[v] ELSE E!Unset]

-----------------------------------------------------------------------------
(* Measurements *)

V == INSTANCE MetricViews

ASSUME ScopeAttrsAssumption == \A keys \in ScopeAttrs : IsFiniteSet(keys) /\ keys \subseteq V!Keys

SomeMeasured == {{"service.name", "le", "app", "error.type", "http.route"}}
SomeScopeAttrs == {s \in SUBSET (AttrKeys \cup {<<"n">>, <<"-">>, <<".", "n">>}) : Cardinality(s) <= 3}
SomeOverrides ==
  {{}, {"db.client.operation.duration"}, {"http.server.request.duration", "app.duration"},
   {"rpc.server.call.duration", "db.client.connection.wait_time",
    "db.client.connections.use_time", "cassandra.query.attempts"}}

-----------------------------------------------------------------------------

EnvInit ==
  /\ E!Start
  /\ \/ cfg \in PlainConfigs /\ \E g \in Groups : env \in Environments(g)
     \/ cfg \in EndpointConfigs /\ EndpointEnvironment
     \/ cfg \in E!Configs /\ env = [v \in E!Variables |-> E!Unset]

\* A part that is not checked is in some one state.
EnvRest == E!Start /\ cfg = <<>> /\ env = <<>>
OptRest ==
  /\ caller = <<>> /\ toggles = <<>> /\ detected = {} /\ given = <<>> /\ config = <<>>
  /\ at = "failed" /\ res = <<>> /\ providerRes = <<>> /\ whitelist = <<>>
ViewRest ==
  /\ pull = TRUE /\ disabled = TRUE /\ overrides = {} /\ extra = {}
  /\ recorded = V!Nothing /\ streams = {} /\ meter = V!NoMeter

Init ==
  \/ which = "options" /\ O!Init /\ EnvRest /\ ViewRest
  \/ which = "environment" /\ EnvInit /\ OptRest /\ ViewRest
  \/ which = "views" /\ V!Init /\ EnvRest /\ OptRest

Next ==
  \/ which = "options" /\ O!Next /\ UNCHANGED <<which, envVars, viewVars>>
  \/ which = "environment" /\ E!Next /\ UNCHANGED <<which, optVars, viewVars>>
  \/ which = "views" /\ V!Next /\ UNCHANGED <<which, envVars, optVars>>

Spec == Init /\ [][Next]_vars

\* Options: the last one that says something decides.
OptionsCompose == which = "options" => O!OptionsCompose

\* Options: the labels of the Resource, and those of the promoted keys, are
\* distinct, and what is dropped stays away.
LabelsDistinct == which = "options" => O!ResourceGuarded /\ O!PromotedDistinct

\* Options: baggage keys shadow nothing, whatever their order.
BaggageSafe == which = "options" => O!BaggageSafe

\* Environment: one endpoint is validated, used and redacted; no exporter echoes
\* a variable unless it was set meanwhile, and Init refuses no good one.
ValidatedAsUsed == which = "environment" => E!NothingEchoed /\ E!OneEndpoint

\* Views: an instrument has one stream and no label of the exporter's.
OneStream == which = "views" => V!OneStream /\ V!ScopeLabelsDistinct
=============================================================================
