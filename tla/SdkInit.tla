------------------------------- MODULE SdkInit -------------------------------
(***************************************************************************)
(* Init of o11y.go, several times in one process: the pillars are built    *)
(* one after the other, each may fail, and a failure closes what was built *)
(* before it.  The instances share the process-wide profiler slot          *)
(* (profilerStarted of internal/profiling) and, on the Prometheus pull     *)
(* path, the address of the scrape server.  An instance that came up is    *)
(* shut down through the closers Init gave it; how SDK.Shutdown shares its *)
(* deadline between them is SdkShutdown's subject.                         *)
(*                                                                         *)
(* External: the OTel providers, which only run and are shut down; the     *)
(* profiler, whose Stop takes its own time; net/http, whose Serve, when it *)
(* starts after Shutdown, closes its listener and returns.                 *)
(***************************************************************************)
EXTENDS SdkComponents

CONSTANTS
  Sdks,      \* the Init calls of the process
  Requests   \* the pillars an Init call may ask for

VARIABLES
  pillars,   \* what each Init call enables
  pc,        \* where each instance is
  running,   \* its components that run
  todo,      \* its closers still to run, in order
  port,      \* the instance that listens on the metrics address, or Nobody
  serve,     \* the goroutine that runs server.Serve
  slot,      \* profilerStarted
  profiler   \* the instance's profiler, "stopped" until it gives up the slot

vars == <<pillars, pc, running, todo, port, serve, slot, profiler>>

Nobody == <<>>

Pull(p) == p.metrics /\ ~p.push
-----------------------------------------------------------------------------
(***************************************************************************)
(* Init.                                                                   *)
(***************************************************************************)

\* closeAll(ctx, closers...): in order, a nil one left out.
CloseAll(s, closers) ==
  /\ pc' = [pc EXCEPT ![s] = "closing"]
  /\ todo' = [todo EXCEPT ![s] = closers]

Goto(s, label) ==
  /\ pc' = [pc EXCEPT ![s] = label]
  /\ UNCHANGED todo

Build(s, m) == running' = [running EXCEPT ![s] = @ \cup {m}]

\* The options, the environment and the resource are checked first.
Validate(s) ==
  /\ pc[s] = "options"
  /\ Goto(s, "tracer") \/ Goto(s, "failed")
  /\ UNCHANGED <<pillars, running, port, serve, slot, profiler>>

InitTracer(s) ==
  /\ pc[s] = "tracer"
  /\ \/ pillars[s].trace /\ Build(s, "traces") /\ Goto(s, "meter")
     \/ pillars[s].trace /\ Goto(s, "failed") /\ UNCHANGED running
     \/ ~pillars[s].trace /\ Goto(s, "meter") /\ UNCHANGED running
  /\ UNCHANGED <<pillars, port, serve, slot, profiler>>

\* Faulty variant: the deferred function of initPrometheus and initOTLP does
\* not shut the provider down.
MeterFailsNoShutdown(s) ==
  /\ CloseAll(s, NonNil(pillars[s].trace, "traces"))
  /\ UNCHANGED running

\* InitMeter fails before there is a listener: the deferred function shuts the
\* provider down, if there is one, and Init closes the tracer.
MeterFails(s) ==
  /\ CloseAll(s, NonNil(pillars[s].trace, "traces"))
  /\ running' = [running EXCEPT ![s] = @ \ {"meter"}]

\* The provider is built, and with it the reader that exports on the push path.
NewMeterProvider(s) ==
  /\ pc[s] = "meter"
  /\ \/ /\ pillars[s].metrics
        /\ Build(s, "meter") /\ Goto(s, "runtime")
     \/ pillars[s].metrics /\ MeterFails(s)
     \/ ~pillars[s].metrics /\ Goto(s, "logger") /\ UNCHANGED running
  /\ UNCHANGED <<pillars, port, serve, slot, profiler>>

\* runtimeStart, which may fail.
StartRuntime(s) ==
  /\ pc[s] = "runtime"
  /\ \/ Goto(s, IF Pull(pillars[s]) THEN "listen" ELSE "register") /\ UNCHANGED running
     \/ MeterFails(s)
  /\ UNCHANGED <<pillars, port, serve, slot, profiler>>

\* net.Listen fails when the address is taken, or for a reason of its own;
\* otherwise the server's goroutine is started.
Listen(s) ==
  /\ pc[s] = "listen"
  /\ \/ /\ port = Nobody
        /\ port' = s
        /\ serve' = [serve EXCEPT ![s] = "spawned"]
        /\ Build(s, "server") /\ Goto(s, "register")
     \/ MeterFails(s) /\ UNCHANGED <<port, serve>>
  /\ UNCHANGED <<pillars, slot, profiler>>

\* The export-failure counter is registered.  On failure InitMeter closes the
\* server and the provider, and Init the tracer.
Register(s) ==
  /\ pc[s] = "register"
  /\ \/ Goto(s, "logger")
     \/ CloseAll(s, NonNil(Pull(pillars[s]), "server") \o <<"meter">> \o NonNil(pillars[s].trace, "traces"))
  /\ UNCHANGED <<pillars, running, port, serve, slot, profiler>>

InitLogger(s) ==
  /\ pc[s] = "logger"
  /\ \/ pillars[s].log /\ Build(s, "logs") /\ Goto(s, "profiler")
     \/ /\ pillars[s].log /\ UNCHANGED running
        /\ CloseAll(s, NonNil(Pull(pillars[s]), "server") \o NonNil(pillars[s].metrics, "meter")
                         \o NonNil(pillars[s].trace, "traces"))
     \/ ~pillars[s].log /\ Goto(s, "profiler") /\ UNCHANGED running
  /\ UNCHANGED <<pillars, port, serve, slot, profiler>>

\* Init returns the SDK with its closers; started: the profiler runs.
Return(s, started) ==
  /\ pc' = [pc EXCEPT ![s] = "up"]
  /\ todo' = [todo EXCEPT ![s] = SdkFields([pillars[s] EXCEPT !.profiling = started]).shutdowns]

\* Faulty variant: the slot is not looked at.
StartProfilerUnchecked(s) ==
  /\ pc[s] = "profiler"
  /\ \/ /\ pillars[s].profiling
        /\ slot' = TRUE
        /\ profiler' = [profiler EXCEPT ![s] = "running"]
        /\ Build(s, "profiler") /\ Return(s, TRUE)
     \/ Return(s, FALSE) /\ UNCHANGED <<running, slot, profiler>>
  /\ UNCHANGED <<pillars, port, serve>>

\* profiling.Start, under profilerMu.  A slot that is taken fails Init; a
\* context that is done or a Pyroscope error only leaves the profiler out.
StartProfiler(s) ==
  /\ pc[s] = "profiler"
  /\ \/ /\ pillars[s].profiling /\ ~slot
        /\ slot' = TRUE
        /\ profiler' = [profiler EXCEPT ![s] = "running"]
        /\ Build(s, "profiler") /\ Return(s, TRUE)
     \/ /\ pillars[s].profiling /\ slot
        /\ CloseAll(s, NonNil(Pull(pillars[s]), "server") \o NonNil(pillars[s].metrics, "meter")
                         \o NonNil(pillars[s].log, "logs") \o NonNil(pillars[s].trace, "traces"))
        /\ UNCHANGED <<running, slot, profiler>>
     \/ Return(s, FALSE) /\ UNCHANGED <<running, slot, profiler>>
  /\ UNCHANGED <<pillars, port, serve>>
-----------------------------------------------------------------------------
(***************************************************************************)
(* Shutdown, and the goroutines it may leave.                              *)
(***************************************************************************)
BeginShutdown(s) ==
  /\ pc[s] = "up"
  /\ Goto(s, "shutdown")
  /\ UNCHANGED <<pillars, running, port, serve, slot, profiler>>

\* server.Shutdown closes the listener of a Serve that runs; a Serve that has
\* not started yet will find the server shut down.
StopServer(s) ==
  /\ serve' = [serve EXCEPT ![s] = IF @ = "serving" THEN "done" ELSE "late"]
  /\ port' = IF serve[s] = "serving" THEN Nobody ELSE port

\* Faulty variant: the closer stops the profiler and keeps the goroutine that
\* releases the slot from starting.
RunCloserKeepsSlot(s) ==
  /\ pc[s] \in {"closing", "shutdown"}
  /\ todo[s] # <<>>
  /\ todo' = [todo EXCEPT ![s] = Tail(@)]
  /\ running' = [running EXCEPT ![s] = @ \ {Head(todo[s])}]
  /\ profiler' = profiler
  /\ IF Head(todo[s]) = "server" THEN StopServer(s) ELSE UNCHANGED <<port, serve>>
  /\ UNCHANGED <<pillars, pc, slot>>

\* The next closer runs.  The profiler's starts Stop on a goroutine and may
\* return before it, when its context ends first.
RunCloser(s) ==
  /\ pc[s] \in {"closing", "shutdown"}
  /\ todo[s] # <<>>
  /\ todo' = [todo EXCEPT ![s] = Tail(@)]
  /\ running' = [running EXCEPT ![s] = @ \ {Head(todo[s])}]
  /\ profiler' = IF Head(todo[s]) = "profiler"
                   THEN [profiler EXCEPT ![s] = "stopping"] ELSE profiler
  /\ IF Head(todo[s]) = "server" THEN StopServer(s) ELSE UNCHANGED <<port, serve>>
  /\ UNCHANGED <<pillars, pc, slot>>

\* Every closer has run: Init returns its error, or Shutdown returns.
Closed(s) ==
  /\ pc[s] \in {"closing", "shutdown"}
  /\ todo[s] = <<>>
  /\ Goto(s, IF pc[s] = "closing" THEN "failed" ELSE "down")
  /\ UNCHANGED <<pillars, running, port, serve, slot, profiler>>

\* server.Serve starts.
ServeStarts(s) ==
  /\ \/ /\ serve[s] = "spawned"
        /\ serve' = [serve EXCEPT ![s] = "serving"]
        /\ UNCHANGED port
     \/ /\ serve[s] = "late"
        /\ serve' = [serve EXCEPT ![s] = "done"]
        /\ port' = Nobody
  /\ UNCHANGED <<pillars, pc, running, todo, slot, profiler>>

\* profiler.Stop returns; whatever it reports, the slot is released next.
StopReturns(s) ==
  /\ profiler[s] = "stopping"
  /\ profiler' = [profiler EXCEPT ![s] = "stopped"]
  /\ UNCHANGED <<pillars, pc, running, todo, port, serve, slot>>

ReleaseSlot(s) ==
  /\ profiler[s] = "stopped"
  /\ profiler' = [profiler EXCEPT ![s] = "none"]
  /\ slot' = FALSE
  /\ UNCHANGED <<pillars, pc, running, todo, port, serve>>

\* Every instance is gone.
Terminated ==
  /\ \A s \in Sdks : pc[s] \in {"failed", "down"}
  /\ UNCHANGED vars
-----------------------------------------------------------------------------
Init ==
  /\ pillars \in [Sdks -> Requests]
  /\ pc = [s \in Sdks |-> "options"]
  /\ running = [s \in Sdks |-> {}]
  /\ todo = [s \in Sdks |-> <<>>]
  /\ port = Nobody
  /\ serve = [s \in Sdks |-> "none"]
  /\ slot = FALSE
  /\ profiler = [s \in Sdks |-> "none"]

InitStep(s) ==
  \/ Validate(s)
  \/ InitTracer(s)
  \/ NewMeterProvider(s)
  \/ StartRuntime(s)
  \/ Listen(s)
  \/ Register(s)
  \/ InitLogger(s)
  \/ StartProfiler(s)

CloseStep(s) == RunCloser(s) \/ Closed(s)

Background(s) == ServeStarts(s) \/ StopReturns(s) \/ ReleaseSlot(s)

Next ==
  \/ \E s \in Sdks : InitStep(s) \/ BeginShutdown(s) \/ CloseStep(s) \/ Background(s)
  \/ Terminated

Spec == Init /\ [][Next]_vars

(***************************************************************************)
(* Fairness.  Goroutines that can run do, every closer returns (its        *)
(* context is done at some time, or its component's own timeout is), and   *)
(* profiler.Stop ends with the 30 s timeout of its uploads.  No            *)
(* application has to call Shutdown.                                       *)
(***************************************************************************)
Fairness ==
  \A s \in Sdks : /\ WF_vars(CloseStep(s))
                  /\ WF_vars(ServeStarts(s))
                  /\ WF_vars(StopReturns(s))
                  /\ WF_vars(ReleaseSlot(s))
-----------------------------------------------------------------------------
(***************************************************************************)
(* Properties.                                                             *)
(***************************************************************************)
Gone(s) == pc[s] \in {"failed", "down"}

TypeOK ==
  /\ pillars \in [Sdks -> Pillars]
  /\ pc \in [Sdks -> {"options", "tracer", "meter", "runtime", "listen", "register", "logger",
                      "profiler", "up", "closing", "shutdown", "failed", "down"}]
  /\ running \in [Sdks -> SUBSET Closers]
  /\ todo \in [Sdks -> Seq(Closers)]
  /\ port \in Sdks \cup {Nobody}
  /\ serve \in [Sdks -> {"none", "spawned", "serving", "late", "done"}]
  /\ slot \in BOOLEAN
  /\ profiler \in [Sdks -> {"none", "running", "stopping", "stopped"}]

\* When Init has returned an error, at whatever step it failed, or Shutdown has
\* returned, no component the Init call built is left running.
NothingLeaks == \A s \in Sdks : Gone(s) => running[s] = {}

Holds(s) == profiler[s] # "none"

\* Go has one profiler per process: never do two instances run one, and the
\* slot says whether one does, until its Stop has returned.
OneProfiler ==
  /\ slot <=> \E s \in Sdks : Holds(s)
  /\ \A s, t \in Sdks : Holds(s) /\ Holds(t) => s = t

\* A scrape server that accepts scrapes has a meter provider to collect from:
\* it stops before the provider does, however late its goroutine was to start.
NoScrapeAfterMeter ==
  \A s \in Sdks : serve[s] = "serving" => port = s /\ "meter" \in running[s]

\* An instance that is gone gives up the address and the profiler slot in the
\* end, so that a later Init can have them; not by the time it returned.
SharedReleased ==
  \A s \in Sdks : Gone(s) ~> (port # s /\ ~Holds(s))
=============================================================================
