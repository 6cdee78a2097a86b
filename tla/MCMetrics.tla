----------------------------- MODULE MCMetrics ------------------------------
(***************************************************************************)
(* What collections read: the label cap, and the export failures of an SDK *)
(* that pushes its metrics.  In the run each moves by itself.              *)
(***************************************************************************)
EXTENDS MetricsCap, TLC

CONSTANTS
  Request,    \* the pillars of the SDK
  MaxFails    \* bound on the failures of each exporter

VARIABLES
  queued, export, failures, reader, readerSnap, shipped, flush, flushing, owed, flushOK, todo,
  closing, late, finalOK

exportVars == <<queued, export, failures, reader, readerSnap, shipped, flush, flushing, owed,
                flushOK, todo, closing, late, finalOK>>

Exports == INSTANCE ExportFailures WITH snap <- readerSnap

\* The push path.
ASSUME RequestAssumption == Request \in Exports!Pillars /\ Request.metrics /\ Request.push

-----------------------------------------------------------------------------

\* A failure an export counted leaves with the metrics of the flush or of the
\* shutdown that drained it.
FailuresShipped == Exports!FlushShipsFailures /\ Exports!LastDrainIsShipped

-----------------------------------------------------------------------------
(***************************************************************************)
(* The instance the run checks.  The label cap over the two Cassandra      *)
(* instruments, which share a budget, and a stream of another scope that   *)
(* no rule matches; the export failures of an SDK with every pillar on.    *)
(***************************************************************************)

CONSTANTS duration, attempts, foreign, tables, other, t1, t2, g1, g2

RuleBudgets == [i \in Streams |-> IF i = foreign THEN NoRule ELSE tables]

CapOfOne == [b \in Budgets |-> 1]

AllPushed == [trace |-> TRUE, log |-> TRUE, metrics |-> TRUE, push |-> TRUE, profiling |-> TRUE]

Symmetric == Permutations(Scrapes)

VARIABLE which   \* the one of the two that moves

MetricsInit == which \in {"cap", "exports"} /\ Init /\ Exports!Init

MetricsNext ==
  \/ which = "cap" /\ Next /\ UNCHANGED <<which, exportVars>>
  \/ which = "exports" /\ Exports!Next /\ UNCHANGED <<which, vars>>

MetricsSpec == MetricsInit /\ [][MetricsNext]_<<which, vars, exportVars>>
=============================================================================
