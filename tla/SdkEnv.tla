------------------------------- MODULE SdkEnv --------------------------------
(***************************************************************************)
(* Init and the environment (diagnostics.go, endpoint.go): the variables   *)
(* the OTel exporters and providers will read are checked first, each as   *)
(* its reader sees it; the endpoints of traces and logs are resolved once; *)
(* then the exporters are built, which read the environment themselves and *)
(* echo what they cannot parse, before anything can redact it.             *)
(***************************************************************************)
EXTENDS Naturals, FiniteSets

\* A variable's value: a text and whether whitespace surrounds it.  Texts are
\* told apart by what the parsers make of them: "bad" parses nowhere, "zero"
\* is an integer, not a positive one, "ratio" a sampler that takes an argument,
\* "path" a URL with a path, "noscheme" one an exporter cannot send to.
Value(text, padded) == [text |-> text, padded |-> padded]
Texts == {"", "good", "bad", "zero", "ratio", "path", "noscheme", "grpc"}
Values == [text : Texts, padded : BOOLEAN]
Unset == Value("", FALSE)
Blank == Value("", TRUE)

\* A variable is its prefix and its setting: OTEL_EXPORTER_OTLP_LOGS_TIMEOUT
\* is <<"LOGS", "TIMEOUT">>, OTEL_EXPORTER_OTLP_TIMEOUT is <<"", "TIMEOUT">>.
Signals == {"TRACES", "METRICS", "LOGS"}
Prefixes == {""} \cup Signals
OTLPSettings == {"ENDPOINT", "TIMEOUT", "HEADERS", "CERTIFICATE", "CLIENT_CERTIFICATE",
                 "CLIENT_KEY", "COMPRESSION", "PROTOCOL"}
SDKSettings == {"BSP", "SPAN_LIMIT", "ATTRIBUTE_LIMIT", "SAMPLER", "SAMPLER_ARG", "BLRP",
                "CARDINALITY", "INTERVAL", "TEMPORALITY"}
Variables == (Prefixes \X OTLPSettings) \cup ({"SDK"} \X SDKSettings)

\* Config, as far as the environment is concerned.  An endpoint is "" where
\* its option was not given, or was blank.
Configs == [trace : BOOLEAN, metrics : BOOLEAN, log : BOOLEAN, profiling : BOOLEAN,
            otlpEndpoint : {"", "good", "noscheme"}, metricsEndpoint : {"", "good", "noscheme"},
            profilingEndpoint : {"", "good"},
            otlpHeaders : {"none", "valid", "invalid"}, profilingHeaders : {"none", "invalid"}]

CONSTANTS
  Changes,      \* <<variable, value>>: what the process may set a variable to while Init runs
  MaxChanges    \* how many variables it sets, at most

VARIABLES
  cfg,        \* the Config, options applied
  env,        \* the environment
  pc,         \* "start", "checked", "built", "ready" or "failed"
  resolved,   \* cfg.resolvedOTLP: signal -> signalEndpoint
  used,       \* signal -> the URL its exporter was built with
  redacted,   \* the endpoints the diagnostics redact
  echoed,     \* variables whose raw text was reported while Init ran
  touched     \* the variables set since Init checked them

vars == <<cfg, env, pc, resolved, used, redacted, echoed, touched>>

Push(c) == c.metrics /\ c.metricsEndpoint # ""

-----------------------------------------------------------------------------
(* Reading a variable *)

\* envValue: verbatim, or trimmed.
EnvValue(v, verbatim) == IF verbatim THEN env[v] ELSE Value(env[v].text, FALSE)

\* The check functions: what a setting's parser refuses.  Whitespace that was
\* not trimmed is part of an integer, a name or a path; a header list has its
\* names trimmed by the parser itself.
Refuses(setting, x) ==
  \/ x.text = "bad"
  \/ x.padded /\ ~(setting = "HEADERS" /\ x.text # "")
  \/ setting = "INTERVAL" /\ x.text = "zero"

\* otlpEnvCheck, the fallbacks as further elements of a sequence.
Alternative(v, verbatim) ==
  [var |-> v, verbatim |-> verbatim,
   pair |-> IF v[2] = "CLIENT_CERTIFICATE" THEN {<<v[1], "CLIENT_KEY">>} ELSE {}]

\* otlpEnvCheck.set
IsSet(a) == \A v \in {a.var} \cup a.pair : EnvValue(v, a.verbatim) # Unset

RefusesAlternative(a) ==
  \E v \in {a.var} \cup a.pair : Refuses(v[2], EnvValue(v, a.verbatim))

-----------------------------------------------------------------------------
(* What Init checks *)

EnvFirst(signal) ==
  {<<Alternative(v, FALSE)>> :
     v \in {"", signal} \X {"ENDPOINT", "TIMEOUT", "HEADERS", "CERTIFICATE", "CLIENT_CERTIFICATE"}}

\* Faulty variant: the log exporter's variables are trimmed like the others.
SignalFirstTrimmed(s) == <<Alternative(<<"LOGS", s>>, FALSE), Alternative(<<"", s>>, FALSE)>>

SignalFirst(s) == <<Alternative(<<"LOGS", s>>, TRUE), Alternative(<<"", s>>, TRUE)>>

OtlpExporterEnvChecks ==
  UNION {IF cfg.trace THEN EnvFirst("TRACES") ELSE {},
         IF Push(cfg) THEN EnvFirst("METRICS") \cup {<<Alternative(<<"SDK", "TEMPORALITY">>, FALSE)>>}
         ELSE {},
         IF cfg.log
         THEN {SignalFirst(s) : s \in {"TIMEOUT", "COMPRESSION", "CERTIFICATE", "CLIENT_CERTIFICATE"}
                                        \cup (IF cfg.otlpHeaders = "none" THEN {"HEADERS"} ELSE {})}
         ELSE {}}

SdkEnvChecks ==
  LET Integer(s) == Alternative(<<"SDK", s>>, TRUE)
      Trimmed(s) == <<Alternative(<<"SDK", s>>, FALSE)>>
      ratio      == EnvValue(<<"SDK", "SAMPLER">>, FALSE).text = "ratio"
  IN  UNION {IF cfg.trace
             THEN {<<Integer("BSP")>>, <<Integer("SPAN_LIMIT"), Integer("ATTRIBUTE_LIMIT")>>,
                   Trimmed("SAMPLER")} \cup (IF ratio THEN {Trimmed("SAMPLER_ARG")} ELSE {})
             ELSE {},
             IF cfg.log THEN {<<Integer("BLRP")>>} ELSE {},
             IF cfg.metrics THEN {Trimmed("CARDINALITY")} ELSE {},
             IF Push(cfg) THEN {<<Integer("INTERVAL")>>} ELSE {}}

\* The first alternative that is set is the one that is read.
Fails(check) ==
  \E i \in DOMAIN check :
    IsSet(check[i]) /\ (\A j \in 1..(i - 1) : ~IsSet(check[j])) /\ RefusesAlternative(check[i])

ValidateOTLPExporterEnv == ~\E c \in OtlpExporterEnvChecks \cup SdkEnvChecks : Fails(c)

-----------------------------------------------------------------------------
(* Endpoints *)

ParseEndpoint(text) == IF text \in {"good", "path", "default"} THEN "" ELSE "problem"

\* A URL is what it came from and the path put behind it: "own" for its own,
\* "signal" for the signal's, and "later" where the exporter's setup adds it.
NewSignalEndpoint(text, source) ==
  [url |-> <<text, "later">>, source |-> source, raw |-> text, problem |-> ParseEndpoint(text),
   grpc |-> FALSE]

\* The base URL always gets the signal's path, a signal's URL if it has none.
NewEnvSignalEndpoint(text, source, base) ==
  [url |-> <<text, IF base \/ text = "good" THEN "signal" ELSE "own">>, source |-> source,
   raw |-> text, problem |-> ParseEndpoint(text), grpc |-> FALSE]

\* The option, the signal's variable, the generic one, the default.
ResolveEndpoint(signal) ==
  LET own      == EnvValue(<<signal, "ENDPOINT">>, FALSE)
      generic  == EnvValue(<<"", "ENDPOINT">>, FALSE)
      protocol == IF EnvValue(<<signal, "PROTOCOL">>, FALSE) # Unset
                  THEN EnvValue(<<signal, "PROTOCOL">>, FALSE) ELSE EnvValue(<<"", "PROTOCOL">>, FALSE)
      WithProtocol(e) == [e EXCEPT !.grpc = (protocol.text = "grpc")]
  IN  CASE cfg.otlpEndpoint # "" -> NewSignalEndpoint(cfg.otlpEndpoint, "option")
        [] cfg.otlpEndpoint = "" /\ own # Unset ->
             WithProtocol(NewEnvSignalEndpoint(own.text, signal, FALSE))
        [] cfg.otlpEndpoint = "" /\ own = Unset /\ generic # Unset ->
             WithProtocol(NewEnvSignalEndpoint(generic.text, "generic", TRUE))
        [] OTHER -> NewSignalEndpoint("default", "")

\* The signals whose endpoint Init resolves, and which of them are on.
Resolved == {"TRACES", "LOGS"}
Enabled == (IF cfg.trace THEN {"TRACES"} ELSE {}) \cup (IF cfg.log THEN {"LOGS"} ELSE {})

ValidateConfiguredEndpoints(r) ==
  /\ \A s \in Enabled : r[s].problem = "" /\ ~r[s].grpc
  /\ Push(cfg) => ParseEndpoint(cfg.metricsEndpoint) = ""

ValidateConfiguredHeaders ==
  /\ cfg.trace \/ cfg.log \/ Push(cfg) => cfg.otlpHeaders # "invalid"
  /\ cfg.profiling /\ cfg.profilingEndpoint # "" => cfg.profilingHeaders # "invalid"

-----------------------------------------------------------------------------
(* Init *)

NoEndpoint == [url |-> <<"", "">>, source |-> "", raw |-> "", problem |-> "", grpc |-> FALSE]

Start ==
  /\ pc = "start" /\ resolved = [s \in Resolved |-> NoEndpoint]
  /\ used = [s \in Resolved |-> <<"", "">>] /\ redacted = {} /\ echoed = {}
  /\ touched = {}

\* Init is called with any options, in any environment.
Init == Start /\ cfg \in Configs /\ env \in [Variables -> Values]

\* The checks, in Init's order: variables, endpoints, headers.
Validate ==
  /\ pc = "start"
  /\ LET r == [s \in Resolved |-> ResolveEndpoint(s)]
     IN  \/ /\ ~ValidateOTLPExporterEnv
            /\ pc' = "failed" /\ UNCHANGED resolved
         \/ /\ ValidateOTLPExporterEnv
            /\ resolved' = r
            /\ pc' = IF ValidateConfiguredEndpoints(r) /\ ValidateConfiguredHeaders
                     THEN "checked" ELSE "failed"
  /\ UNCHANGED <<cfg, env, used, redacted, echoed, touched>>

\* Something else in the process sets a variable, or unsets it, meanwhile.
Setenv ==
  /\ pc \in {"checked", "built"}
  /\ \E c \in Changes :
       /\ c[1] \in touched \/ Cardinality(touched) < MaxChanges
       /\ env[c[1]] # c[2]
       /\ env' = [env EXCEPT ![c[1]] = c[2]]
       /\ touched' = touched \cup {c[1]}
  /\ UNCHANGED <<cfg, pc, resolved, used, redacted, echoed>>

\* A client certificate and its key are read together.
ClientPair(p) == {<<p, "CLIENT_CERTIFICATE">>, <<p, "CLIENT_KEY">>}
Together(v) == IF v \in ClientPair(v[1]) THEN ClientPair(v[1]) ELSE {v}

\* Each variable the trace or the metric exporter reads: all of them, trimmed,
\* a client certificate with its key (external).
ReadByExporter(signal) ==
  {v \in {"", signal} \X (OTLPSettings \ {"COMPRESSION", "PROTOCOL"}) :
     v \in ClientPair(v[1]) => \A w \in ClientPair(v[1]) : env[w].text # ""}

\* The log exporter takes a setting from its own variable if that is set and
\* parses, else from the generic one, as they stand (external).
ReadByLogs ==
  LET there(g)  == \A w \in g : env[w] # Unset
      parses(g) == \A w \in g : ~Refuses(w[2], env[w])
      settings == {"TIMEOUT", "COMPRESSION", "CERTIFICATE", "CLIENT_CERTIFICATE", "CLIENT_KEY"}
                    \cup (IF cfg.otlpHeaders = "none" THEN {"HEADERS"} ELSE {})
  IN  {v \in {"LOGS", ""} \X settings :
         /\ there(Together(v))
         /\ v[1] = "" => LET own == Together(<<"LOGS", v[2]>>) IN ~(there(own) /\ parses(own))}

Trimmed(v) == Value(env[v].text, FALSE)

\* What the readers cannot parse they echo (external).
Echoed ==
  UNION {
    {v \in UNION {IF cfg.trace THEN ReadByExporter("TRACES") ELSE {},
                  IF Push(cfg) THEN ReadByExporter("METRICS") ELSE {}} : Refuses(v[2], Trimmed(v))},
    {v \in IF cfg.log THEN ReadByLogs ELSE {} : Refuses(v[2], env[v])},
    {v \in {"SDK"} \X SDKSettings :
       LET raw(s, on)  == v[2] = s /\ on /\ env[v] # Unset /\ Refuses(s, env[v])
           trim(s, on) == v[2] = s /\ on /\ Refuses(s, Trimmed(v))
       IN  \/ raw("BSP", cfg.trace) \/ raw("SPAN_LIMIT", cfg.trace) \/ raw("BLRP", cfg.log)
           \/ raw("ATTRIBUTE_LIMIT", cfg.trace /\ env[<<"SDK", "SPAN_LIMIT">>] = Unset)
           \/ raw("INTERVAL", Push(cfg)) \/ trim("TEMPORALITY", Push(cfg))
           \/ trim("CARDINALITY", cfg.metrics) \/ trim("SAMPLER", cfg.trace)
           \/ trim("SAMPLER_ARG", cfg.trace /\ env[<<"SDK", "SAMPLER">>].text = "ratio")}}

\* Faulty variant: the exporters' endpoints are resolved again.
EndpointOfAgain(s) == ResolveEndpoint(s).url

EndpointOf(s) == resolved[s].url

\* The providers and their exporters are built.
Build ==
  /\ pc = "checked"
  /\ pc' = "built"
  /\ echoed' = Echoed
  /\ used' = [s \in Resolved |-> IF s \in Enabled THEN EndpointOf(s) ELSE <<"", "">>]
  /\ UNCHANGED <<cfg, env, resolved, redacted, touched>>

DiagnosticEndpoints ==
  {<<cfg.metricsEndpoint, "later">>, <<cfg.profilingEndpoint, "later">>}
    \cup UNION {{<<resolved[s].raw, "later">>, resolved[s].url} :
                  s \in {x \in Enabled : resolved[x].problem = ""}}

\* newOTelErrorHandler and newLogr.
Diagnose ==
  /\ pc = "built"
  /\ pc' = "ready"
  /\ redacted' = DiagnosticEndpoints
  /\ UNCHANGED <<cfg, env, resolved, used, echoed, touched>>

Next == Validate \/ Setenv \/ Build \/ Diagnose

-----------------------------------------------------------------------------

\* What decides whether v is read, and what is read then: v with its pair, the
\* log exporter's own variable, and the setting that shadows v or asks for it.
ReadWith(v) ==
  UNION {Together(v),
         IF v[1] = "" THEN Together(<<"LOGS", v[2]>>) ELSE {},
         IF v = <<"SDK", "ATTRIBUTE_LIMIT">> THEN {<<"SDK", "SPAN_LIMIT">>} ELSE {},
         IF v = <<"SDK", "SAMPLER_ARG">> THEN {<<"SDK", "SAMPLER">>} ELSE {}}

(***************************************************************************)
(* The exporters Init builds read different variables, trimmed or not, one *)
(* shadowing the other.  The raw text of one is reported only if it, or    *)
(* one that is read with it, was set after Init had checked it; and Init   *)
(* refuses no environment it could have run with: when it fails, an        *)
(* enabled exporter would have echoed a variable, could not send to its    *)
(* endpoint, or would have sent an invalid header.                         *)
(***************************************************************************)
NothingEchoed ==
  /\ \A v \in echoed : ReadWith(v) \cap touched # {}
  /\ pc = "failed" =>
       \/ Echoed # {}
       \/ \E s \in Enabled : ResolveEndpoint(s).problem # "" \/ ResolveEndpoint(s).grpc
       \/ Push(cfg) /\ cfg.metricsEndpoint = "noscheme"
       \/ (cfg.trace \/ cfg.log \/ Push(cfg)) /\ cfg.otlpHeaders = "invalid"
       \/ cfg.profiling /\ cfg.profilingHeaders = "invalid"

(***************************************************************************)
(* The endpoint an exporter sends to is the one that was validated, by the *)
(* precedence of the OTel specification, and the one whose credentials are *)
(* redacted, whatever is done to the environment while Init runs.  No      *)
(* other endpoint of traces or logs is redacted.                           *)
(***************************************************************************)
OneEndpoint ==
  /\ pc \in {"built", "ready"} =>
       \A s \in Enabled :
         /\ used[s] = resolved[s].url /\ resolved[s].problem = "" /\ ~resolved[s].grpc
         /\ cfg.otlpEndpoint # "" <=> resolved[s].source = "option"
         /\ resolved[s].source = "generic" => used[s][2] = "signal"
  /\ pc = "checked" =>
       \A s \in Enabled :
         resolved[s].source = "generic" =>
           env[<<s, "ENDPOINT">>].text = "" \/ <<s, "ENDPOINT">> \in touched
  /\ pc = "ready" =>
       /\ {used[s] : s \in Enabled} \subseteq redacted
       /\ \A e \in redacted : \/ e[1] \in {cfg.metricsEndpoint, cfg.profilingEndpoint}
                              \/ \E s \in Enabled : e[1] = resolved[s].raw
=============================================================================
