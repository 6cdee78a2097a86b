---------------------------- MODULE SdkComponents ----------------------------
(***************************************************************************)
(* What Init hands to Shutdown and ForceFlush: the closers, in order, and  *)
(* the flushers, as a function of the pillars that are enabled.            *)
(***************************************************************************)
EXTENDS Sequences, Functions

\* A closer is named after the component it closes.
Closers == {"profiler", "traces", "logs", "server", "meter"}

\* The providers ForceFlush flushes in its first stage.
FlushedSignals == {"traces", "logs"}

\* The pillars an application enables.  push: WithMetricsOTLPEndpoint was
\* given, metrics are pushed over OTLP and there is no scrape server.
Pillars == [trace : BOOLEAN, log : BOOLEAN, metrics : BOOLEAN,
            push : BOOLEAN, profiling : BOOLEAN]

\* nonNil(fns...): a pillar that is not enabled contributes nothing, and what
\* the others contribute is in the order of the arguments.
NonNil(enabled, f) == IF enabled THEN <<f>> ELSE <<>>

\* Faulty variant: metrics first, and the provider before its server.
ShutdownSequenceMetricsFirst(profiler, traces, logs, metricsServer, meter) ==
  profiler \o meter \o metricsServer \o traces \o logs

\* shutdownSequence: traces and logs drain before metrics, the scrape server
\* stops just before the meter provider.
ShutdownSequence(profiler, traces, logs, metricsServer, meter) ==
  profiler \o traces \o logs \o metricsServer \o meter

\* The fields Init sets on the SDK for the enabled pillars.
SdkFields(p) ==
  [shutdowns    |-> ShutdownSequence(NonNil(p.profiling, "profiler"),
                                     NonNil(p.trace, "traces"),
                                     NonNil(p.log, "logs"),
                                     NonNil(p.metrics /\ ~p.push, "server"),
                                     NonNil(p.metrics, "meter")),
   flushSignals |-> Range(NonNil(p.trace, "traces") \o NonNil(p.log, "logs")),
   flushMetrics |-> p.metrics /\ p.push]
=============================================================================
