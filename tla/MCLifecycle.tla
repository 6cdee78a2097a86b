---------------------------- MODULE MCLifecycle -----------------------------
(***************************************************************************)
(* The life of an SDK: the calls of Shutdown and ForceFlush on one         *)
(* instance, and the instances of a process, which are initialised, fail   *)
(* or run, and are shut down.  In the run each moves by itself.            *)
(***************************************************************************)
EXTENDS SdkShutdown, SdkComponents

CONSTANTS
  Sdks,      \* the Init calls of the process
  Requests   \* the pillars an Init call may ask for

VARIABLES pillars, pc, building, todo, port, serve, slot, profiler

initVars == <<pillars, pc, building, todo, port, serve, slot, profiler>>

Assembly == INSTANCE SdkInit WITH running <- building

\* An Init call is somebody.
ASSUME SdksAssumption == Assembly!Nobody \notin Sdks
ASSUME RequestsAssumption == Requests \subseteq Pillars

-----------------------------------------------------------------------------

\* Init: an instance that is gone has left nothing behind, and two never share.
InitUnwinds == Assembly!NothingLeaks /\ Assembly!OneProfiler /\ Assembly!NoScrapeAfterMeter

-----------------------------------------------------------------------------
(***************************************************************************)
(* The instance the run checks: two calls of each kind on an SDK that      *)
(* pushes its metrics, and two Init calls.                                 *)
(***************************************************************************)

CONSTANTS c1, c2, f1, f2, s1, s2

PushConfig == {SdkFields(
   [trace |-> TRUE, log |-> FALSE, metrics |-> TRUE, push |-> TRUE, profiling |-> FALSE])}

\* Every combination of pillars, a push endpoint only where there are metrics.
MCRequests == {p \in Pillars : p.push => p.metrics}

\* The second instance competes for the address, the profiler's slot, or both.
Rivals == {p \in MCRequests : p.trace /\ ~p.log /\ (p.metrics \/ p.profiling)}

VARIABLE which   \* the one of the two that moves

LifecycleInit ==
  /\ which \in {"calls", "assembly"}
  /\ Init /\ Assembly!Init
  /\ which = "calls" => pillars = [s \in Sdks |-> CHOOSE p \in Rivals : TRUE]
  /\ pillars[s2] \in Rivals

LifecycleNext ==
  \/ which = "calls" /\ Next /\ UNCHANGED <<which, initVars>>
  \/ which = "assembly" /\ Assembly!Next /\ UNCHANGED <<which, vars>>

LifecycleSpec ==
  /\ LifecycleInit /\ [][LifecycleNext]_<<which, vars, initVars>>
  /\ \/ which = "calls" /\ ShutdownFairness
     \/ which = "assembly" /\ Assembly!Fairness

-----------------------------------------------------------------------------

\* Shutdown returns whatever a flush does, and ForceFlush whatever Shutdown does;
\* an instance that is gone gives up in the end what it shared with others.
LifeEnds ==
  /\ which = "calls" => ShutdownReturns /\ FlushReturns
  /\ which = "assembly" => Assembly!SharedReleased
=============================================================================
