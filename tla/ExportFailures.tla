--------------------------- MODULE ExportFailures ----------------------------
(***************************************************************************)
(* internal/exportstats on the OTLP push path: each exporter's wrapper     *)
(* counts the Export calls that returned an error, and the metric reader   *)
(* ships the counts it finds when it collects.  Whether a count still      *)
(* leaves the process depends on the order ForceFlush and Shutdown use the *)
(* pipelines in, so both are here, one call of each.                       *)
(*                                                                         *)
(* External: the batchers, which export what is queued in one call at a    *)
(* time, and the PeriodicReader, which runs one collection at a time,      *)
(* scheduled or for a flush, and one more when it is shut down.            *)
(***************************************************************************)
EXTENDS Naturals, Sequences, FiniteSets, SdkComponents

CONSTANTS
  Request,    \* the pillars of the SDK, on the push path
  MaxFails    \* bound on the failures of each exporter

VARIABLES
  queued,     \* the batchers that hold data
  export,     \* the Export call of each batcher
  failures,   \* Recorder: erroring calls per signal
  reader,     \* what the collection under way is for, or "idle"
  snap,       \* the counts it found
  shipped,    \* the counts last exported with success
  flush,      \* where ForceFlush is
  flushing,   \* stage-one flushers that have not returned
  owed,       \* the count of each signal when its flusher returned
  flushOK,    \* the metrics flush of ForceFlush reported success
  todo,       \* closers Shutdown has still to run; none has started before "closing"
  closing,    \* Shutdown has started
  late,       \* a drain outlived its closer's share of the deadline
  finalOK     \* the last collection was exported with success

flushVars == <<flush, flushing, owed, flushOK>>
closeVars == <<todo, closing, late, finalOK>>
readerVars == <<reader, snap, shipped>>
vars == <<queued, export, failures, readerVars, flushVars, closeVars>>

Fields == SdkFields(Request)

Batched == Fields.flushSignals

\* The signals that have an exporter: Recorder.Active.
Active == Batched \cup {"metrics"}

Drained(s) == s \notin queued /\ export[s] = "idle"

\* s's closer has run.
ClosedDown(s) == closing /\ \A i \in 1 .. Len(todo) : todo[i] # s
-----------------------------------------------------------------------------
(***************************************************************************)
(* The batchers and their wrapped exporters.                               *)
(***************************************************************************)
Enqueue(s) ==
  /\ ~ClosedDown(s)
  /\ queued' = queued \cup {s}
  /\ UNCHANGED <<export, failures, readerVars, flushVars, closeVars>>

\* The batcher calls Export, on its schedule or to drain.
CallExport(s) ==
  /\ s \in queued
  /\ export[s] = "idle"
  /\ queued' = queued \ {s}
  /\ export' = [export EXCEPT ![s] = "called"]
  /\ UNCHANGED <<failures, readerVars, flushVars, closeVars>>

ExportReturns(s, ok) ==
  /\ export[s] = "called"
  /\ ok \/ failures[s] < MaxFails
  /\ export' = [export EXCEPT ![s] = IF ok THEN "idle" ELSE "failed"]
  /\ UNCHANGED <<queued, failures, readerVars, flushVars, closeVars>>

\* The wrapper counts the error before it passes it on: Recorder.Fail.
Fail(s) ==
  /\ export[s] = "failed"
  /\ failures' = [failures EXCEPT ![s] = @ + 1]
  /\ export' = [export EXCEPT ![s] = "idle"]
  /\ UNCHANGED <<queued, readerVars, flushVars, closeVars>>
-----------------------------------------------------------------------------
(***************************************************************************)
(* The metric reader.                                                      *)
(***************************************************************************)

\* A collection runs the callback of Register, which reads every active count.
Collect(purpose) ==
  /\ reader = "idle"
  /\ reader' = purpose
  /\ snap' = [s \in Active |-> failures[s]]
  /\ UNCHANGED shipped

ScheduledCollect ==
  /\ ~ClosedDown("meter")
  /\ Collect("schedule")
  /\ UNCHANGED <<queued, export, failures, flushVars, closeVars>>

\* The metric exporter returns.  Its own failures are counted after the
\* snapshot that failed to leave.
ReaderExports(ok) ==
  /\ reader # "idle"
  /\ reader' = "idle"
  /\ \/ /\ ok
        /\ shipped' = snap
        /\ UNCHANGED failures
     \/ /\ ~ok
        /\ failures["metrics"] < MaxFails
        /\ failures' = [failures EXCEPT !["metrics"] = @ + 1]
        /\ UNCHANGED shipped
  /\ flush' = IF reader = "flush" THEN "done" ELSE flush
  /\ flushOK' = IF reader = "flush" THEN ok ELSE flushOK
  /\ finalOK' = IF reader = "final" THEN ok ELSE finalOK
  /\ todo' = IF reader = "final" THEN Tail(todo) ELSE todo
  /\ UNCHANGED <<queued, export, snap, flushing, owed, closing, late>>
-----------------------------------------------------------------------------
(***************************************************************************)
(* ForceFlush: traces and logs together, then metrics.                     *)
(***************************************************************************)
BeginFlush ==
  /\ flush = "idle" /\ ~closing
  /\ flush' = "signals"
  /\ flushing' = Batched
  /\ UNCHANGED <<queued, export, failures, readerVars, owed, flushOK, closeVars>>

\* A flusher returns: its batcher is empty, or its share has run out.
FlusherReturns(s) ==
  /\ s \in flushing
  /\ flushing' = flushing \ {s}
  /\ owed' = [owed EXCEPT ![s] = failures[s]]
  /\ UNCHANGED <<queued, export, failures, readerVars, flush, flushOK, closeVars>>

\* Faulty variant: metrics are flushed alongside.
EndStageOneEarly ==
  /\ flush = "signals"
  /\ flush' = "metrics"
  /\ UNCHANGED <<queued, export, failures, readerVars, flushing, owed, flushOK, closeVars>>

\* Both have: metrics are next.
EndStageOne ==
  /\ flush = "signals"
  /\ flushing = {}
  /\ flush' = "metrics"
  /\ UNCHANGED <<queued, export, failures, readerVars, flushing, owed, flushOK, closeVars>>

\* The metrics flush collects, or finds the reader shut down.
FlushMetrics ==
  /\ flush = "metrics"
  /\ \/ /\ ~ClosedDown("meter") /\ reader = "idle"
        /\ Collect("flush")
        /\ flush' = "collecting"
     \/ /\ ClosedDown("meter")
        /\ flush' = "done"
        /\ UNCHANGED readerVars
  /\ UNCHANGED <<queued, export, failures, flushing, owed, flushOK, closeVars>>
-----------------------------------------------------------------------------
(***************************************************************************)
(* Shutdown.  Whether it waits for a flush is SdkShutdown's subject; here  *)
(* it may start at any time.                                               *)
(***************************************************************************)
BeginShutdown ==
  /\ ~closing
  /\ closing' = TRUE
  /\ UNCHANGED <<queued, export, failures, readerVars, flushVars, todo, late, finalOK>>

\* A batcher's closer returns once its queue is drained, or when its share runs
\* out; then the trace batcher goes on in the background, and the log batcher
\* drops what it holds.
CloseBatcher ==
  /\ closing /\ todo # <<>> /\ Head(todo) \in Batched
  /\ todo' = Tail(todo)
  /\ late' = (late \/ ~Drained(Head(todo)))
  /\ queued' = IF Head(todo) = "logs" THEN queued \ {"logs"} ELSE queued
  /\ UNCHANGED <<export, failures, readerVars, flushVars, closing, finalOK>>

CloseProfiler ==
  /\ closing /\ todo # <<>> /\ Head(todo) = "profiler"
  /\ todo' = Tail(todo)
  /\ UNCHANGED <<queued, export, failures, readerVars, flushVars, closing, late, finalOK>>

\* The meter provider's closer stops the reader's loop, which ends the
\* collection under way, and makes the last collection.
CloseMeter ==
  /\ closing /\ todo # <<>> /\ Head(todo) = "meter"
  /\ Collect("final")
  /\ UNCHANGED <<queued, export, failures, flushVars, closeVars>>

Terminated ==
  /\ closing /\ todo = <<>>
  /\ UNCHANGED vars
-----------------------------------------------------------------------------
Init ==
  /\ queued = {}
  /\ export = [s \in Batched |-> "idle"]
  /\ failures = [s \in Active |-> 0]
  /\ reader = "idle"
  /\ snap = failures /\ shipped = failures
  /\ flush = "idle" /\ flushing = {} /\ owed = failures /\ flushOK = FALSE
  /\ todo = Fields.shutdowns
  /\ closing = FALSE /\ late = FALSE /\ finalOK = FALSE

BatcherStep(s) ==
  \/ Enqueue(s)
  \/ CallExport(s)
  \/ \E ok \in BOOLEAN : ExportReturns(s, ok)
  \/ Fail(s)
  \/ FlusherReturns(s)

Next ==
  \/ \E s \in Batched : BatcherStep(s)
  \/ ScheduledCollect
  \/ \E ok \in BOOLEAN : ReaderExports(ok)
  \/ BeginFlush
  \/ EndStageOne
  \/ FlushMetrics
  \/ BeginShutdown
  \/ CloseBatcher
  \/ CloseProfiler
  \/ CloseMeter
  \/ Terminated

Spec == Init /\ [][Next]_vars
-----------------------------------------------------------------------------
(***************************************************************************)
(* Properties.                                                             *)
(***************************************************************************)

\* What ForceFlush promises: a failure the trace or log flush had counted by
\* the time it returned has left with the metrics, when their flush succeeded.
FlushShipsFailures ==
  flush = "done" /\ flushOK => \A s \in Batched : shipped[s] >= owed[s]

\* What shutdownSequence promises for the push path: when no drain outlived its
\* share and the last collection was exported, every failure of the trace and
\* log exporters, those of the last drain included, has left the process.
LastDrainIsShipped ==
  closing /\ todo = <<>> /\ ~late /\ finalOK =>
    \A s \in Batched : shipped[s] = failures[s]
=============================================================================
