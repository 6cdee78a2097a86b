----------------------------- MODULE SdkOptions ------------------------------
(***************************************************************************)
(* The options of Init (options.go), applied in the order the caller gives *)
(* them, and what Init makes of the Config before it builds anything       *)
(* (o11y.go): the checks, the Resource the three signals share, and the    *)
(* baggage keys that become attributes.                                    *)
(***************************************************************************)
EXTENDS PromLabels, Integers, FiniteSets

CONSTANTS
  Callers,                  \* who calls Init: the options it gives first, the options it
                            \* chooses from, how many, and its environment
  MaxBaggageAttributeKeys,
  MaxInt                    \* the largest int, scaled down

DefaultMaxUniqueRoutes == 1000
DefaultMaxUniqueCollections == 200
DefaultCardinalityLimit == 2000
MinCardinalityLimit == 4
SdkCardinalityCapMultiplier == 4

VARIABLES
  caller,      \* the caller
  env,         \* the environment: the toggles' variables and OTEL_RESOURCE_ATTRIBUTES
  detected,    \* the keys the detectors find
  given,       \* the options given so far
  cfg,         \* the Config
  pc,          \* "options", "checked", "resource", "ready", "failed" or "collision"
  res,         \* the Resource: a function of keys
  providerRes, \* the one handed to the trace and log providers
  whitelist    \* the baggage keys that become attributes

vars == <<caller, env, detected, given, cfg, pc, res, providerRes, whitelist>>

Pillars == {"trace", "metrics", "log", "profiling"}

\* strings.TrimSpace
Trim(v) == IF v = "blank" THEN "" ELSE v

\* A map f written over a map g.
Over(f, g) == [x \in DOMAIN f \cup DOMAIN g |-> IF x \in DOMAIN f THEN f[x] ELSE g[x]]

Warn(c, option, key) == [c EXCEPT !.warned = @ \cup {<<option, key>>}]

-----------------------------------------------------------------------------
(* The options: each gives the Config its value makes of c *)

WithServiceName(c, v) == [c EXCEPT !.serviceName = v]
WithServiceVersion(c, v) == [c EXCEPT !.serviceVersion = v]
WithServiceNamespace(c, v) == [c EXCEPT !.namespace = v]
WithEnvironment(c, v) == [c EXCEPT !.environment = v]
WithLogLevel(c, v) == [c EXCEPT !.logLevel = v]
WithProfilingEndpoint(c, v) == [c EXCEPT !.profilingEndpoint = v]
WithMetricsOTLPEndpoint(c, v) == [c EXCEPT !.metricsOTLPEndpoint = Trim(v)]
WithMetricsAddr(c, v) == [c EXCEPT !.metricsAddr = v]
WithRuntimeMetrics(c, v) == [c EXCEPT !.runtimeMetrics = v]
WithExemplars(c, v) == [c EXCEPT !.exemplars = v]
WithDisableDefaultViews(c, v) == [c EXCEPT !.disableDefaultViews = TRUE]
WithUserBaggage(c, v) == [c EXCEPT !.userBaggage = TRUE]

\* Faulty variant: the environment's toggle is final.
WithTraceEnabledIgnored(c, v) == c

WithTraceEnabled(c, v) == [c EXCEPT !.enabled["trace"] = v]
WithMetricsEnabled(c, v) == [c EXCEPT !.enabled["metrics"] = v]
WithLogEnabled(c, v) == [c EXCEPT !.enabled["log"] = v]
WithProfilingEnabled(c, v) == [c EXCEPT !.enabled["profiling"] = v]

\* A blank endpoint undoes the option.
WithOTLPEndpoint(c, v) ==
  IF Trim(v) = "" THEN [c EXCEPT !.otlpEndpoint = "default", !.otlpEndpointSet = FALSE]
  ELSE [c EXCEPT !.otlpEndpoint = Trim(v), !.otlpEndpointSet = TRUE]

WithSamplingRatio(c, v) ==
  [c EXCEPT !.samplingRatio = v, !.samplingRatioSet = TRUE, !.sampler = <<"none">>]

\* Faulty variant: nil erases the ratio given beside it.
WithTraceSamplerErases(c, v) ==
  [c EXCEPT !.sampler = IF v = "nil" THEN <<"none">> ELSE <<v>>,
            !.samplingRatioSet = FALSE, !.samplingRatio = 0]

WithTraceSampler(c, v) ==
  IF v = "nil" THEN c
  ELSE [c EXCEPT !.sampler = <<v>>, !.samplingRatioSet = FALSE, !.samplingRatio = 0]

\* Headers merge, later ones over earlier ones.
WithOTLPHeaders(c, v) == [c EXCEPT !.otlpHeaders = Over(v, @)]
WithProfilingAuthHeaders(c, v) == [c EXCEPT !.profilingAuthHeaders = Over(v, @)]

WithHistogramBuckets(c, v) == [c EXCEPT !.histogramBuckets = v]
WithInstrumentHistogramBuckets(c, v) ==
  [c EXCEPT !.histogramBucketOverrides = Over([i \in {v.instrument} |-> v.buckets], @)]

\* What is not positive stands for the default.
WithMaxUniqueRoutes(c, n) ==
  [c EXCEPT !.maxUniqueRoutes = IF n <= 0 THEN DefaultMaxUniqueRoutes ELSE n]
WithMaxUniqueCollections(c, n) ==
  [c EXCEPT !.maxUniqueCollections = IF n <= 0 THEN DefaultMaxUniqueCollections ELSE n]

\* Faulty variant: the largest override stays.
WithCardinalityLimitLargest(c, n) ==
  [c EXCEPT !.cardinalityLimit = IF n <= 0 THEN 0 ELSE IF n < @ THEN @ ELSE n]

WithCardinalityLimit(c, n) == [c EXCEPT !.cardinalityLimit = IF n <= 0 THEN 0 ELSE n]

-----------------------------------------------------------------------------
(* Options whose keys are checked *)

\* The attribute is replaced, refused for an earlier one's label, or added.
AppendResourceAttribute(c, kv) ==
  LET same == {i \in DOMAIN c.resourceAttrs : SameLabel(c.resourceAttrs[i].key, kv.key)}
  IN  IF same = {} THEN [c EXCEPT !.resourceAttrs = Append(@, kv)]
      ELSE LET i == CHOOSE i \in same : \A j \in same : i <= j
           IN  IF c.resourceAttrs[i].key = kv.key THEN [c EXCEPT !.resourceAttrs[i] = kv]
               ELSE Warn(c, "WithResourceAttributes", kv.key)

WithResourceAttributes(c, kv) ==
  IF \/ kv.key = <<>> \/ ResourceKeyOwner(kv.key) # {}
     \/ IsTelemetrySDKKey(kv.key) \/ IsProcessKey(kv.key) \/ IsReservedAttributeKey(kv.key)
  THEN Warn(c, "WithResourceAttributes", kv.key)
  ELSE AppendResourceAttribute(c, kv)

ReservedHTTPServerPromLabels == {<<"h", "_", "r">>}

\* Faulty variant: the key is compared with the keys, not the labels.
WithExtraHTTPServerAttributeKeysRaw(c, k) ==
  IF k = <<>> THEN c
  ELSE IF IsReservedAttributeKey(k) \/ k \in ReservedHTTPServerPromLabels \cup Range(c.extraHTTPServerAttrKeys)
  THEN Warn(c, "WithExtraHTTPServerAttributeKeys", k)
  ELSE [c EXCEPT !.extraHTTPServerAttrKeys = Append(@, k)]

WithExtraHTTPServerAttributeKeys(c, k) ==
  LET norm == NormalizePrometheusLabelName(k)
      seen == ReservedHTTPServerPromLabels
                \cup {NormalizePrometheusLabelName(c.extraHTTPServerAttrKeys[i]) :
                        i \in DOMAIN c.extraHTTPServerAttrKeys}
  IN  IF k = <<>> THEN c
      ELSE IF norm \in {<<>>, <<"_">>} \/ IsReservedAttributeKey(k) \/ norm \in seen
      THEN Warn(c, "WithExtraHTTPServerAttributeKeys", k)
      ELSE [c EXCEPT !.extraHTTPServerAttrKeys = Append(@, k)]

UserNameKey == <<"u", ".", "n">>
MaxBaggageKeyBytes == 4

\* reservedKeyReason: the SDK's and slog's fields, and semantic conventions.
ReservedKeyReason(k) ==
  \/ k \in IdentityResourceKeys \cup {<<"l">>}
  \/ k \in DetectedResourceKeys \/ IsPrefix(<<"h", ".">>, k)

ValidBaggageKey(k) ==
  /\ k \notin {UserNameKey, <<>>} /\ Len(k) <= MaxBaggageKeyBytes
  /\ \A i \in DOMAIN k : k[i] # " "
  /\ ~ReservedKeyReason(k)

WithBaggageAttributes(c, k) ==
  IF k \in Range(c.baggageKeys) THEN c
  ELSE IF ValidBaggageKey(k) THEN [c EXCEPT !.baggageKeys = Append(@, k)]
  ELSE Warn(c, "WithBaggageAttributes", k)

Apply(c, o) ==
  CASE o.op = "WithServiceName" -> WithServiceName(c, o.v)
    [] o.op = "WithServiceVersion" -> WithServiceVersion(c, o.v)
    [] o.op = "WithServiceNamespace" -> WithServiceNamespace(c, o.v)
    [] o.op = "WithEnvironment" -> WithEnvironment(c, o.v)
    [] o.op = "WithLogLevel" -> WithLogLevel(c, o.v)
    [] o.op = "WithProfilingEndpoint" -> WithProfilingEndpoint(c, o.v)
    [] o.op = "WithMetricsOTLPEndpoint" -> WithMetricsOTLPEndpoint(c, o.v)
    [] o.op = "WithMetricsAddr" -> WithMetricsAddr(c, o.v)
    [] o.op = "WithRuntimeMetrics" -> WithRuntimeMetrics(c, o.v)
    [] o.op = "WithExemplars" -> WithExemplars(c, o.v)
    [] o.op = "WithDisableDefaultViews" -> WithDisableDefaultViews(c, o.v)
    [] o.op = "WithUserBaggage" -> WithUserBaggage(c, o.v)
    [] o.op = "WithTraceEnabled" -> WithTraceEnabled(c, o.v)
    [] o.op = "WithMetricsEnabled" -> WithMetricsEnabled(c, o.v)
    [] o.op = "WithLogEnabled" -> WithLogEnabled(c, o.v)
    [] o.op = "WithProfilingEnabled" -> WithProfilingEnabled(c, o.v)
    [] o.op = "WithOTLPEndpoint" -> WithOTLPEndpoint(c, o.v)
    [] o.op = "WithSamplingRatio" -> WithSamplingRatio(c, o.v)
    [] o.op = "WithTraceSampler" -> WithTraceSampler(c, o.v)
    [] o.op = "WithOTLPHeaders" -> WithOTLPHeaders(c, o.v)
    [] o.op = "WithProfilingAuthHeaders" -> WithProfilingAuthHeaders(c, o.v)
    [] o.op = "WithHistogramBuckets" -> WithHistogramBuckets(c, o.v)
    [] o.op = "WithInstrumentHistogramBuckets" -> WithInstrumentHistogramBuckets(c, o.v)
    [] o.op = "WithMaxUniqueRoutes" -> WithMaxUniqueRoutes(c, o.v)
    [] o.op = "WithMaxUniqueCollections" -> WithMaxUniqueCollections(c, o.v)
    [] o.op = "WithCardinalityLimit" -> WithCardinalityLimit(c, o.v)
    [] o.op = "WithResourceAttributes" -> WithResourceAttributes(c, o.v)
    [] o.op = "WithExtraHTTPServerAttributeKeys" -> WithExtraHTTPServerAttributeKeys(c, o.v)
    [] o.op = "WithBaggageAttributes" -> WithBaggageAttributes(c, o.v)

\* The options there are, and what the checked ones take.
IsOption(o) ==
  /\ o.op \in {"WithServiceName", "WithServiceVersion", "WithServiceNamespace", "WithEnvironment", "WithLogLevel",
               "WithProfilingEndpoint", "WithMetricsOTLPEndpoint", "WithMetricsAddr", "WithRuntimeMetrics",
               "WithExemplars", "WithDisableDefaultViews", "WithUserBaggage", "WithTraceEnabled",
               "WithMetricsEnabled", "WithLogEnabled", "WithProfilingEnabled", "WithOTLPEndpoint",
               "WithSamplingRatio", "WithTraceSampler", "WithOTLPHeaders", "WithProfilingAuthHeaders",
               "WithHistogramBuckets", "WithInstrumentHistogramBuckets", "WithMaxUniqueRoutes",
               "WithMaxUniqueCollections", "WithCardinalityLimit", "WithResourceAttributes",
               "WithExtraHTTPServerAttributeKeys", "WithBaggageAttributes"}
  /\ o.op \in {"WithMaxUniqueRoutes", "WithMaxUniqueCollections", "WithCardinalityLimit"} =>
       o.v \in Int /\ o.v <= MaxInt
  /\ o.op \in {"WithExtraHTTPServerAttributeKeys", "WithBaggageAttributes"} => o.v \in Keys
  /\ o.op = "WithResourceAttributes" => o.v.key \in Keys

-----------------------------------------------------------------------------
(* defaultConfig *)

\* Of O11Y_*_ENABLED, what strconv.ParseBool does not know is the default.
ParseBoolEnv(v, def) == IF v \in {"true", "false"} THEN v = "true" ELSE def

DefaultConfig(toggles) ==
  [serviceName |-> "", serviceVersion |-> "", namespace |-> "", environment |-> "",
   logLevel |-> "info", profilingEndpoint |-> "", metricsOTLPEndpoint |-> "", metricsAddr |-> "default",
   runtimeMetrics |-> TRUE, exemplars |-> TRUE, disableDefaultViews |-> FALSE, userBaggage |-> FALSE,
   otlpEndpoint |-> "default", otlpEndpointSet |-> FALSE,
   otlpHeaders |-> <<>>, profilingAuthHeaders |-> <<>>,
   sampler |-> <<"none">>, samplingRatio |-> 0, samplingRatioSet |-> FALSE,
   histogramBuckets |-> <<1, 2>>, histogramBucketOverrides |-> <<>>,
   maxUniqueRoutes |-> DefaultMaxUniqueRoutes, maxUniqueCollections |-> DefaultMaxUniqueCollections,
   cardinalityLimit |-> 0, resourceAttrs |-> <<>>, extraHTTPServerAttrKeys |-> <<>>,
   baggageKeys |-> <<>>,
   enabled |-> [p \in Pillars |-> ParseBoolEnv(toggles[p], p # "profiling")],
   warned |-> {<<"env", p>> : p \in {x \in Pillars : toggles[x] = "unknown"}}]

-----------------------------------------------------------------------------
(* What Init checks first *)

\* 0 stands for whatever is not a positive finite number.
CheckHistogramBoundaries(buckets) ==
  /\ buckets # <<>>
  /\ \A i \in DOMAIN buckets : buckets[i] > 0 /\ (i > 1 => buckets[i] > buckets[i - 1])

\* A name is "blank", "wildcard", "invalid" or that of an instrument.
ValidateHistogramBucketOverrides(overrides) ==
  \A name \in DOMAIN overrides :
    name \notin {"blank", "wildcard", "invalid"} /\ CheckHistogramBoundaries(overrides[name])

\* The aliases' canonical names; lower case and trimmed, prod is production.
NormalizeEnvironment(v) ==
  CASE v \in {"prod", "PROD ", "production"} -> "production"
    [] v \in {"stg", "staging"} -> "staging"
    [] OTHER -> "refused"

\* A ratio is a percentage.
ConfigureSampler(c) ==
  IF c.enabled["trace"] /\ c.samplingRatioSet THEN [c EXCEPT !.sampler = <<"ratio", c.samplingRatio>>] ELSE c

Acceptable(c) ==
  /\ c.serviceName # "" /\ c.serviceVersion # "" /\ c.namespace # ""
  /\ NormalizeEnvironment(c.environment) # "refused"
  /\ CheckHistogramBoundaries(c.histogramBuckets)
  /\ ValidateHistogramBucketOverrides(c.histogramBucketOverrides)
  /\ c.enabled["trace"] /\ c.samplingRatioSet => c.samplingRatio \in 0..100

\* scaleBudget saturates.
ScaleBudget(n, per) ==
  IF n <= 0 THEN 0 ELSE IF n > MaxInt \div per THEN MaxInt ELSE n * per

MaxOf(S) == CHOOSE x \in S : \A y \in S : y <= x

CardinalityLimitBudget(routes, collections, override) ==
  IF override > 0 THEN MaxOf({override, MinCardinalityLimit})
  ELSE MaxOf({DefaultCardinalityLimit, ScaleBudget(routes, SdkCardinalityCapMultiplier),
              ScaleBudget(collections, SdkCardinalityCapMultiplier)})

-----------------------------------------------------------------------------
(* The Resource *)

\* A key of attrs that is another key than k and renders as its label.
AliasOf(k, attrs) ==
  \E i \in DOMAIN attrs : attrs[i].key # k /\ SameLabel(attrs[i].key, k)

\* The environment's keys that may go into the Resource, visited in order.
EnvResourceStep(kept, k, attrs) ==
  LET owner == ResourceKeyOwner(k)
  IN  IF \/ k \in owner
         \/ /\ owner = {} /\ ~IsTelemetrySDKKey(k) /\ ~IsProcessKey(k)
            /\ ~IsReservedAttributeKey(k) /\ ~AliasOf(k, attrs)
            /\ \A o \in kept : ~SameLabel(o, k)
      THEN kept \cup {k} ELSE kept

EnvResourceAttributes(keys, attrs) ==
  LET order == Sorted(keys)
      kept[i \in 0..Len(order)] == IF i = 0 THEN {} ELSE EnvResourceStep(kept[i - 1], order[i], attrs)
  IN  kept[Len(order)]

\* Faulty variant: what was dropped is left to the providers.
NeutralizeEnvKeysNone(dropped) == <<>>

NeutralizeEnvKeys(dropped) == [k \in dropped |-> "empty"]

\* Later ones win: the environment, the detectors, the option, the identity.
MergedResource(kept) ==
  LET option == [k \in {cfg.resourceAttrs[i].key : i \in DOMAIN cfg.resourceAttrs} |->
                   (CHOOSE kv \in Range(cfg.resourceAttrs) : kv.key = k).value]
  IN  Over([k \in IdentityResourceKeys |-> "identity"],
           Over(option, Over([k \in detected |-> "detected"], [k \in kept |-> "env"])))

\* targetInfoLabels: the ones that render, each label once.
TargetInfoLabels(r) ==
  KeepFirst(DOMAIN r, {k \in DOMAIN r : ~Unrenderable(NormalizePrometheusLabelName(k))})

\* The providers merge the environment back underneath (external).
OnSpans == Over(providerRes, [k \in caller.env |-> "env"])

-----------------------------------------------------------------------------
(* Init *)

Init ==
  /\ caller \in Callers
  /\ env \in caller.toggles
  /\ detected \in {DetectedResourceKeys \ lost : lost \in {{}, {<<"h", ".", "n">>}, {<<"p", ".", "i">>}}}
  /\ given = <<>> /\ cfg = DefaultConfig(env)
  /\ pc = "options" /\ res = <<>> /\ providerRes = <<>> /\ whitelist = <<>>

\* The caller gives its first options, then some of the others.
Opened == Len(given) >= Len(caller.first)
Offered == IF Opened THEN caller.options ELSE {caller.first[Len(given) + 1]}

With(o) ==
  /\ pc = "options" /\ Len(given) < Len(caller.first) + caller.max
  /\ given' = Append(given, o)
  /\ cfg' = Apply(cfg, o)
  /\ UNCHANGED <<caller, env, detected, pc, res, providerRes, whitelist>>

Check ==
  /\ pc = "options" /\ Opened
  /\ IF Acceptable(cfg)
     THEN pc' = "checked" /\ cfg' = [ConfigureSampler(cfg) EXCEPT !.environment = NormalizeEnvironment(@)]
     ELSE pc' = "failed" /\ UNCHANGED cfg
  /\ UNCHANGED <<caller, env, detected, given, res, providerRes, whitelist>>

BuildResource ==
  /\ pc = "checked"
  /\ pc' = "resource"
  /\ LET kept == EnvResourceAttributes(caller.env, cfg.resourceAttrs)
     IN  /\ res' = MergedResource(kept)
         /\ providerRes' = Over(NeutralizeEnvKeys(caller.env \ kept), MergedResource(kept))
         /\ cfg' = [cfg EXCEPT !.warned = @ \cup {<<"OTEL_RESOURCE_ATTRIBUTES", k>> : k \in caller.env \ kept}]
  /\ UNCHANGED <<caller, env, detected, given, whitelist>>

\* The first keys, up to the cap.
Capped(keys) == SubSeq(keys, 1, IF Len(keys) < MaxBaggageAttributeKeys THEN Len(keys) ELSE MaxBaggageAttributeKeys)

\* Faulty variant: the cap comes first, so that the order decides.
ConfigureBaggageWhitelistCapped ==
  /\ pc = "resource"
  /\ LET keys == Capped(cfg.baggageKeys)
     IN  IF Range(keys) \cap DOMAIN res # {}
         THEN pc' = "collision" /\ UNCHANGED <<cfg, whitelist>>
         ELSE /\ pc' = "ready"
              /\ whitelist' = (IF cfg.userBaggage THEN <<UserNameKey>> ELSE <<>>) \o keys
              /\ cfg' = [cfg EXCEPT !.baggageKeys = keys]
  /\ UNCHANGED <<caller, env, detected, given, res, providerRes>>

\* Collisions are looked for before the cap.  What is beyond it is dropped with
\* a warning, and baggage with traces off is warned of too.
ConfigureBaggageWhitelist ==
  /\ pc = "resource"
  /\ LET user      == IF cfg.userBaggage THEN <<UserNameKey>> ELSE <<>>
         effective == user \o cfg.baggageKeys
         keys      == Capped(cfg.baggageKeys)
         dropped   == Range(cfg.baggageKeys) \ Range(keys)
         silent    == user \o keys # <<>> /\ ~cfg.enabled["trace"]
     IN  IF Range(effective) \cap DOMAIN res # {}
         THEN pc' = "collision" /\ UNCHANGED <<cfg, whitelist>>
         ELSE /\ pc' = "ready"
              /\ whitelist' = user \o keys
              /\ cfg' = [cfg EXCEPT !.baggageKeys = keys,
                                    !.warned = @ \cup {<<"WithBaggageAttributes", k>> : k \in dropped}
                                                 \cup (IF silent THEN {<<"env", "trace">>} ELSE {})]
  /\ UNCHANGED <<caller, env, detected, given, res, providerRes>>

Next ==
  \/ \E o \in Offered : With(o)
  \/ Check \/ BuildResource \/ ConfigureBaggageWhitelist

-----------------------------------------------------------------------------

\* Which of the options given are op, and what they say.
At(op) == {i \in DOMAIN given : given[i].op = op}
GivenKeys(op) == {given[i].v : i \in At(op)}
LastOf(places) == given[MaxOf(places)]

(***************************************************************************)
(* Whatever the order of the options and whatever wrappers add: the last   *)
(* one that says something about the sampler, the endpoint, a header, a    *)
(* pillar's toggle or the cardinality limit decides.  A nil sampler, an    *)
(* empty map and a blank endpoint say nothing or undo; the environment     *)
(* decides about a pillar only if no option does; the cardinality limit    *)
(* always holds the SDK's own three series and its overflow, and is back   *)
(* to what the caps need once an override is withdrawn.                    *)
(***************************************************************************)
OptionsCompose ==
  LET toggle    == [trace |-> "WithTraceEnabled", metrics |-> "WithMetricsEnabled",
                    log |-> "WithLogEnabled", profiling |-> "WithProfilingEnabled"]
      samplers  == {i \in DOMAIN given : \/ given[i].op = "WithSamplingRatio"
                                         \/ given[i].op = "WithTraceSampler" /\ given[i].v # "nil"}
      endpoints == At("WithOTLPEndpoint")
      headers   == At("WithOTLPHeaders")
      ratio     == samplers # {} /\ LastOf(samplers).op = "WithSamplingRatio"
      limits    == At("WithCardinalityLimit")
      limit     == CardinalityLimitBudget(cfg.maxUniqueRoutes, cfg.maxUniqueCollections, cfg.cardinalityLimit)
  IN  /\ pc \in {"checked", "ready"} /\ cfg.enabled["trace"] =>
           cfg.sampler = (IF samplers = {} THEN <<"none">>
                          ELSE IF ratio THEN <<"ratio", LastOf(samplers).v>> ELSE <<LastOf(samplers).v>>)
      /\ pc = "checked" /\ ratio /\ cfg.enabled["trace"] => LastOf(samplers).v \in 0..100
      /\ cfg.otlpEndpointSet <=> endpoints # {} /\ Trim(LastOf(endpoints).v) # ""
      /\ cfg.otlpEndpoint = IF cfg.otlpEndpointSet THEN LastOf(endpoints).v ELSE "default"
      /\ \A h \in DOMAIN cfg.otlpHeaders :
           LET naming == {i \in headers : h \in DOMAIN given[i].v}
           IN  naming # {} /\ cfg.otlpHeaders[h] = LastOf(naming).v[h]
      /\ \A i \in headers : DOMAIN given[i].v \subseteq DOMAIN cfg.otlpHeaders
      /\ \A p \in Pillars :
           cfg.enabled[p] = IF At(toggle[p]) # {} THEN LastOf(At(toggle[p])).v
                            ELSE env[p] = "true" \/ (p # "profiling" /\ env[p] # "false")
      /\ limit >= MinCardinalityLimit
      /\ limits # {} /\ LastOf(limits).v > 0 => limit = MaxOf({LastOf(limits).v, MinCardinalityLimit})
      /\ limits = {} \/ LastOf(limits).v <= 0 =>
           \A n \in {cfg.maxUniqueRoutes, cfg.maxUniqueCollections} : limit >= n /\ n > 0

(***************************************************************************)
(* No two attributes of the Resource render as one label and each can be   *)
(* exported, so that target_info loses and joins nothing, whichever of     *)
(* option, environment and detectors they come from; the identity is the   *)
(* options'.  A value the guard dropped reaches no span and no log record, *)
(* and nothing else of the Resource is changed on the way there.  What is  *)
(* dropped is warned of.                                                   *)
(***************************************************************************)
ResourceGuarded ==
  pc \in {"ready", "collision"} =>
    /\ \A a, b \in DOMAIN res : a # b => ~SameLabel(a, b)
    /\ Range(TargetInfoLabels(res)) = DOMAIN res
    /\ \A k \in DOMAIN res :
         /\ OwnedByExporter(NormalizePrometheusLabelName(k)) => res[k] = "identity"
         /\ OnSpans[k] = res[k]
    /\ \A k \in DOMAIN OnSpans \ DOMAIN res : OnSpans[k] = "empty"
    /\ \A k \in GivenKeys("WithResourceAttributes") :
         \/ k.key \in DOMAIN res \/ <<"WithResourceAttributes", k.key>> \in cfg.warned
    /\ \A k \in caller.env : k \in DOMAIN res \/ <<"OTEL_RESOURCE_ATTRIBUTES", k>> \in cfg.warned
    /\ \A k \in GivenKeys("WithResourceAttributes") :
         k.key \in {a.key : a \in Range(cfg.resourceAttrs)} =>
           res[k.key] = LastOf({i \in At("WithResourceAttributes") : given[i].v.key = k.key}).v.value

(***************************************************************************)
(* Whether Init accepts a set of baggage keys does not depend on the order *)
(* they were registered in.  What it accepts shadows no attribute of the   *)
(* Resource, no field of the SDK's or slog's, and stays within its limit;  *)
(* the user's name is in it only on request, and does not count.           *)
(***************************************************************************)
BaggageSafe ==
  LET asked == {k \in GivenKeys("WithBaggageAttributes") : ValidBaggageKey(k)}
  IN  /\ pc \in {"ready", "collision"} =>
           (pc = "collision" <=>
              (asked \cup (IF cfg.userBaggage THEN {UserNameKey} ELSE {})) \cap DOMAIN res # {})
      /\ pc = "ready" =>
           /\ Range(whitelist) \cap DOMAIN res = {}
           /\ Range(whitelist) \ {UserNameKey} \subseteq asked
           /\ Cardinality(Range(whitelist) \ {UserNameKey}) <= MaxBaggageAttributeKeys
           /\ UserNameKey \in Range(whitelist) <=> At("WithUserBaggage") # {}
           /\ \A k \in GivenKeys("WithBaggageAttributes") \ Range(whitelist) :
                <<"WithBaggageAttributes", k>> \in cfg.warned

(***************************************************************************)
(* The labels of http.server.request.duration are distinct and exportable, *)
(* the promoted keys' among them, whatever is promoted in which order; a   *)
(* key is refused for such a reason only, and with a warning.  The empty   *)
(* key is the exception: it is passed over in silence, where the option's  *)
(* documentation promises a warning.                                       *)
(***************************************************************************)
PromotedDistinct ==
  LET keys     == Range(cfg.extraHTTPServerAttrKeys)
      label(k) == NormalizePrometheusLabelName(k)
      taken(k) == \/ Unrenderable(label(k)) \/ OwnedByExporter(label(k))
                  \/ label(k) \in ReservedHTTPServerPromLabels
  IN  /\ \A a \in keys : ~taken(a) /\ \A b \in keys : a # b => ~SameLabel(a, b)
      /\ \A a \in GivenKeys("WithExtraHTTPServerAttributeKeys") \ (keys \cup {<<>>}) :
           /\ taken(a) \/ \E b \in keys : SameLabel(a, b)
           /\ <<"WithExtraHTTPServerAttributeKeys", a>> \in cfg.warned
=============================================================================
