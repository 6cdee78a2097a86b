----------------------------- MODULE SdkShutdown -----------------------------
(***************************************************************************)
(* SDK.Shutdown and SDK.ForceFlush of o11y.go: concurrent callers of both, *)
(* the sync.Once around the shutdown body, the flushMu critical sections,  *)
(* the WaitGroup of running flushes and its waiting goroutine, and the     *)
(* sharing of the caller's deadline between the components.                *)
(*                                                                         *)
(* Components (profiler, batchers, scrape server, meter provider) are      *)
(* external: a closer or flusher returns at a time and with an outcome the *)
(* environment chooses.  A closer returns at the latest when the context   *)
(* it was given is done, which is what every closer Init registers does.   *)
(*                                                                         *)
(* Time is a counter of ticks.  The shutdown goroutine's own bookkeeping   *)
(* between two closers takes no time.                                      *)
(***************************************************************************)
EXTENDS Integers, Sequences, FiniteSets

CONSTANTS
  Callers,          \* goroutines that call Shutdown, each once
  Flushers,         \* goroutines that call ForceFlush, each once
  Components,       \* components a closer may belong to
  Signals,          \* providers stage one of a flush covers
  Configs,          \* SDK field values Init may have left
  Budgets,          \* deadlines Shutdown may be called with, in ticks ahead
  FlushBudgets,     \* deadlines ForceFlush may be called with
  MaxTime,          \* bound on the clock, and on every deadline
  FlushHonoursCtx   \* a flusher too returns when its context is done

\* A context without a deadline.
NoDeadline == -1

\* The fields Init sets and nothing changes afterwards.
Config == [shutdowns    : Seq(Components),
           flushSignals : SUBSET Signals,
           flushMetrics : BOOLEAN]

ASSUME ThreadsAssumption == IsFiniteSet(Flushers)
ASSUME ConfigsAssumption == Configs \subseteq Config
ASSUME TimeAssumption == /\ Budgets \subseteq Nat
                         /\ FlushBudgets \subseteq Nat
                         /\ MaxTime \in Nat
                         /\ FlushHonoursCtx \in BOOLEAN

VARIABLES
  cfg,             \* the SDK's fields
  now,             \* the clock
  shutdownStarted, \* s.shutdownStarted, guarded by flushMu
  flushesRunning,  \* s.flushesRunning, guarded by flushMu
  wg,              \* counter of the WaitGroup s.flushing
  once,            \* state of shutdownOnce
  caller,          \* where each Shutdown call is
  result,          \* what each Shutdown call returned: the joined errors
  stage,           \* where the body of shutdownOnce.Do is
  deadline,        \* deadline of the context the body was called with
  cancelled,       \* its caller cancelled that context
  granted,         \* length of that deadline when the body was entered
  running,         \* the body's local copy of flushesRunning
  helper,          \* goroutine of waitFlushes
  waitExpired,     \* the wait ended because its context did
  idx,             \* next closer, an index into cfg.shutdowns
  stepEnd,         \* deadline of the context the wait or the closer runs under
  closed,          \* how often each closer was run to its return
  failed,          \* closers that returned an error
  shutdownErr,     \* s.shutdownErr: the errors joined
  flush,           \* where each ForceFlush call is
  flushGranted,    \* length of each ForceFlush's deadline when it was called
  flushEnd,        \* that deadline
  stageEnd,        \* deadline of its stage-one context
  pending          \* flushers of stage one that have not returned

sdkVars   == <<cfg, shutdownStarted, flushesRunning, wg>>
bodyVars  == <<stage, deadline, granted, running, waitExpired, idx, stepEnd,
               closed, failed, shutdownErr>>
callVars  == <<once, caller, result, cancelled>>
flushVars == <<flush, flushGranted, flushEnd, stageEnd, pending>>
vars == <<now, helper, sdkVars, bodyVars, callVars, flushVars>>

NumClosers == Len(cfg.shutdowns)

\* A context with this deadline is done.
Done(end) == end # NoDeadline /\ now >= end

\* context.WithTimeout(ctx, d) on a fresh context: a deadline d ticks ahead,
\* or none.
Ctx(d) == IF d = NoDeadline THEN NoDeadline ELSE now + d

\* Faulty variants: the whole of the time left for each, and a detached
\* context when there is nothing to share out.
ShutdownBudgetWhole(end, remaining) == end

ShutdownBudgetDetached(end, remaining) ==
  LET share == (end - now) \div remaining
  IN  IF end = NoDeadline \/ remaining <= 1 \/ share <= 0
        THEN NoDeadline
        ELSE now + share

(***************************************************************************)
(* shutdownBudget(ctx, remaining): an even share of the time left, or ctx  *)
(* itself when there is nothing to share out.                              *)
(***************************************************************************)
ShutdownBudget(end, remaining) ==
  LET share == (end - now) \div remaining
  IN  IF end = NoDeadline \/ remaining <= 1 \/ share <= 0
        THEN end
        ELSE now + share
-----------------------------------------------------------------------------
(***************************************************************************)
(* Shutdown.                                                               *)
(***************************************************************************)

\* A call reaches shutdownOnce.Do: the first one runs the body, the others
\* wait for it to finish.
EnterShutdown(c, d) ==
  /\ caller[c] = "out"
  /\ now + d <= MaxTime
  /\ caller' = [caller EXCEPT ![c] = "once"]
  /\ \/ /\ once = "fresh"
        /\ once' = "running"
        /\ stage' = "mark"
        /\ deadline' = Ctx(d)
        /\ granted' = d
        /\ UNCHANGED <<running, waitExpired, idx, stepEnd, closed, failed, shutdownErr>>
     \/ /\ once # "fresh"
        /\ UNCHANGED <<once, bodyVars>>
  /\ UNCHANGED <<now, helper, sdkVars, result, cancelled, flushVars>>

\* The context the body was called with is cancelled.
CancelShutdown ==
  /\ once = "running" /\ ~cancelled
  /\ cancelled' = TRUE
  /\ UNCHANGED <<now, helper, sdkVars, bodyVars, once, caller, result, flushVars>>

\* The context of the wait or the closer, which derives from it, is done.
StepDone == cancelled \/ Done(stepEnd)

\* Faulty variant: the mark is forgotten.
MarkShutdownUnmarked ==
  /\ stage = "mark"
  /\ running' = flushesRunning
  /\ stage' = "marked"
  /\ UNCHANGED <<now, helper, sdkVars, deadline, granted, waitExpired,
                 idx, stepEnd, closed, failed, shutdownErr, callVars, flushVars>>

\* The flushMu section: mark the SDK and count the flushes already running.
MarkShutdown ==
  /\ stage = "mark"
  /\ shutdownStarted' = TRUE
  /\ running' = flushesRunning
  /\ stage' = "marked"
  /\ UNCHANGED <<now, helper, cfg, flushesRunning, wg, deadline, granted, waitExpired,
                 idx, stepEnd, closed, failed, shutdownErr, callVars, flushVars>>

\* With a deadline and a flush in progress, wait for one share: the helper
\* goroutine of waitFlushes is started.
BeginWait ==
  /\ stage = "marked"
  /\ \/ /\ deadline # NoDeadline /\ running > 0
        /\ stage' = "wait"
        /\ stepEnd' = ShutdownBudget(deadline, NumClosers + 1)
        /\ helper' = "waiting"
     \/ /\ ~(deadline # NoDeadline /\ running > 0)
        /\ stage' = "next"
        /\ UNCHANGED <<stepEnd, helper>>
  /\ UNCHANGED <<now, sdkVars, deadline, granted, running, waitExpired, idx,
                 closed, failed, shutdownErr, callVars, flushVars>>

\* wg.Wait() returns in the helper goroutine, which closes the channel.
HelperWakes ==
  /\ helper = "waiting"
  /\ wg = 0
  /\ helper' = "closed"
  /\ UNCHANGED <<now, sdkVars, bodyVars, callVars, flushVars>>

\* Faulty variant: the wait ignores its context.
EndWaitNoTimeout ==
  /\ stage = "wait"
  /\ helper = "closed"
  /\ stage' = "next"
  /\ UNCHANGED <<now, helper, sdkVars, deadline, granted, running, waitExpired, idx, stepEnd,
                 closed, failed, shutdownErr, callVars, flushVars>>

\* The select of waitFlushes; with both cases ready either may be taken.
EndWait ==
  /\ stage = "wait"
  /\ \/ helper = "closed" /\ UNCHANGED waitExpired
     \/ StepDone /\ waitExpired' = TRUE
  /\ stage' = "next"
  /\ UNCHANGED <<now, helper, sdkVars, deadline, granted, running, idx, stepEnd,
                 closed, failed, shutdownErr, callVars, flushVars>>

\* The loop over s.shutdowns starts closer idx under its share.
StartCloser ==
  /\ stage = "next"
  /\ idx <= NumClosers
  /\ stage' = "run"
  /\ stepEnd' = ShutdownBudget(deadline, NumClosers - idx + 1)
  /\ UNCHANGED <<now, helper, sdkVars, deadline, granted, running, waitExpired, idx,
                 closed, failed, shutdownErr, callVars, flushVars>>

\* Faulty variant: the first error ends the loop.
CloserReturnsAbort(err) ==
  /\ stage = "run"
  /\ closed' = [closed EXCEPT ![cfg.shutdowns[idx]] = @ + 1]
  /\ failed' = IF err THEN failed \cup {cfg.shutdowns[idx]} ELSE failed
  /\ idx' = IF err THEN NumClosers + 1 ELSE idx + 1
  /\ stage' = "next"
  /\ UNCHANGED <<now, helper, sdkVars, deadline, granted, running, waitExpired, stepEnd,
                 shutdownErr, callVars, flushVars>>

\* The closer returns, with an error or without; the loop goes on either way.
CloserReturns(err) ==
  /\ stage = "run"
  /\ closed' = [closed EXCEPT ![cfg.shutdowns[idx]] = @ + 1]
  /\ failed' = IF err THEN failed \cup {cfg.shutdowns[idx]} ELSE failed
  /\ idx' = idx + 1
  /\ stage' = "next"
  /\ UNCHANGED <<now, helper, sdkVars, deadline, granted, running, waitExpired, stepEnd,
                 shutdownErr, callVars, flushVars>>

\* The errors are joined and shutdownOnce.Do returns.
FinishShutdown ==
  /\ stage = "next"
  /\ idx > NumClosers
  /\ shutdownErr' = failed
  /\ stage' = "done"
  /\ once' = "done"
  /\ UNCHANGED <<now, helper, sdkVars, deadline, granted, running, waitExpired, idx, stepEnd,
                 closed, failed, caller, result, cancelled, flushVars>>

\* Faulty variant: a flag in place of sync.Once, so a later call does not wait.
ReturnShutdownEarly(c) ==
  /\ caller[c] = "once"
  /\ once # "fresh"
  /\ caller' = [caller EXCEPT ![c] = "returned"]
  /\ result' = [result EXCEPT ![c] = shutdownErr]
  /\ UNCHANGED <<now, helper, sdkVars, bodyVars, once, cancelled, flushVars>>

\* A call behind shutdownOnce.Do returns s.shutdownErr.
ReturnShutdown(c) ==
  /\ caller[c] = "once"
  /\ once = "done"
  /\ caller' = [caller EXCEPT ![c] = "returned"]
  /\ result' = [result EXCEPT ![c] = shutdownErr]
  /\ UNCHANGED <<now, helper, sdkVars, bodyVars, once, cancelled, flushVars>>
-----------------------------------------------------------------------------
(***************************************************************************)
(* ForceFlush.                                                             *)
(***************************************************************************)

\* Faulty variant: the mark is not looked at.
EnterFlushUnchecked(f, d) ==
  /\ flush[f] = "out"
  /\ now + d <= MaxTime
  /\ flush' = [flush EXCEPT ![f] = "entered"]
  /\ flushesRunning' = flushesRunning + 1
  /\ wg' = wg + 1
  /\ flushGranted' = [flushGranted EXCEPT ![f] = d]
  /\ flushEnd' = [flushEnd EXCEPT ![f] = Ctx(d)]
  /\ UNCHANGED <<now, helper, cfg, shutdownStarted, bodyVars, callVars, stageEnd, pending>>

\* The flushMu section: refuse once Shutdown has marked the SDK, register
\* with the WaitGroup otherwise.
EnterFlush(f, d) ==
  /\ flush[f] = "out"
  /\ now + d <= MaxTime
  /\ \/ /\ shutdownStarted
        /\ flush' = [flush EXCEPT ![f] = "refused"]
        /\ UNCHANGED <<flushesRunning, wg, flushGranted, flushEnd>>
     \/ /\ ~shutdownStarted
        /\ flush' = [flush EXCEPT ![f] = "entered"]
        /\ flushesRunning' = flushesRunning + 1
        /\ wg' = wg + 1
        /\ flushGranted' = [flushGranted EXCEPT ![f] = d]
        /\ flushEnd' = [flushEnd EXCEPT ![f] = Ctx(d)]
  /\ UNCHANGED <<now, helper, cfg, shutdownStarted, bodyVars, callVars, stageEnd, pending>>

\* What follows stage one: the metrics flusher, or the deferred function.
AfterSignals == IF cfg.flushMetrics THEN "metrics" ELSE "leave"

\* Stage one starts every flusher of flushConcurrently under its share.
StartSignals(f) ==
  /\ flush[f] = "entered"
  /\ \/ /\ cfg.flushSignals # {}
        /\ flush' = [flush EXCEPT ![f] = "signals"]
        /\ stageEnd' = [stageEnd EXCEPT ![f] =
             ShutdownBudget(flushEnd[f], IF cfg.flushMetrics THEN 2 ELSE 1)]
        /\ pending' = [pending EXCEPT ![f] = cfg.flushSignals]
     \/ /\ cfg.flushSignals = {}
        /\ flush' = [flush EXCEPT ![f] = AfterSignals]
        /\ UNCHANGED <<stageEnd, pending>>
  /\ UNCHANGED <<now, helper, sdkVars, bodyVars, callVars, flushGranted, flushEnd>>

\* One flusher of stage one returns.
SignalReturns(f, s) ==
  /\ flush[f] = "signals"
  /\ s \in pending[f]
  /\ pending' = [pending EXCEPT ![f] = @ \ {s}]
  /\ UNCHANGED <<now, helper, sdkVars, bodyVars, callVars, flush, flushGranted, flushEnd, stageEnd>>

\* wg.Wait() of flushConcurrently: all of them have.
EndSignals(f) ==
  /\ flush[f] = "signals"
  /\ pending[f] = {}
  /\ flush' = [flush EXCEPT ![f] = AfterSignals]
  /\ UNCHANGED <<now, helper, sdkVars, bodyVars, callVars, flushGranted, flushEnd, stageEnd, pending>>

\* The metrics flusher, which runs under the call's own context, returns.
MetricsReturns(f) ==
  /\ flush[f] = "metrics"
  /\ flush' = [flush EXCEPT ![f] = "leave"]
  /\ UNCHANGED <<now, helper, sdkVars, bodyVars, callVars, flushGranted, flushEnd, stageEnd, pending>>

\* First half of the deferred function: the flushMu section.
LeaveFlush(f) ==
  /\ flush[f] = "leave"
  /\ flush' = [flush EXCEPT ![f] = "left"]
  /\ flushesRunning' = flushesRunning - 1
  /\ UNCHANGED <<now, helper, cfg, shutdownStarted, wg, bodyVars, callVars,
                 flushGranted, flushEnd, stageEnd, pending>>

\* Second half, outside the lock: s.flushing.Done().
DoneFlush(f) ==
  /\ flush[f] = "left"
  /\ flush' = [flush EXCEPT ![f] = "returned"]
  /\ wg' = wg - 1
  /\ UNCHANGED <<now, helper, cfg, shutdownStarted, flushesRunning, bodyVars, callVars,
                 flushGranted, flushEnd, stageEnd, pending>>
-----------------------------------------------------------------------------
(***************************************************************************)
(* The clock.  It stands still while the shutdown goroutine has something  *)
(* to do that takes no time, and while a context that is done has not made *)
(* its component return.                                                   *)
(***************************************************************************)
Tick ==
  /\ now < MaxTime
  /\ stage \notin {"mark", "marked", "next"}
  /\ stage \in {"wait", "run"} => ~StepDone
  /\ FlushHonoursCtx => \A f \in Flushers :
        /\ flush[f] # "entered"
        /\ flush[f] = "signals" => pending[f] # {} /\ ~Done(stageEnd[f])
        /\ flush[f] = "metrics" => ~Done(flushEnd[f])
  /\ now' = now + 1
  /\ UNCHANGED <<helper, sdkVars, bodyVars, callVars, flushVars>>

\* Every call has been made and has returned.
Terminated ==
  /\ \A c \in Callers : caller[c] = "returned"
  /\ \A f \in Flushers : flush[f] \in {"refused", "returned"}
  /\ UNCHANGED vars
-----------------------------------------------------------------------------
Init ==
  /\ cfg \in Configs
  /\ now = 0
  /\ shutdownStarted = FALSE /\ flushesRunning = 0 /\ wg = 0
  /\ once = "fresh"
  /\ caller = [c \in Callers |-> "out"]
  /\ result = [c \in Callers |-> {}] /\ cancelled = FALSE
  /\ stage = "none" /\ deadline = NoDeadline /\ granted = NoDeadline
  /\ running = 0 /\ helper = "none" /\ waitExpired = FALSE
  /\ idx = 1 /\ stepEnd = NoDeadline
  /\ closed = [m \in Components |-> 0]
  /\ failed = {} /\ shutdownErr = {}
  /\ flush = [f \in Flushers |-> "out"]
  /\ flushGranted = [f \in Flushers |-> NoDeadline]
  /\ flushEnd = [f \in Flushers |-> NoDeadline]
  /\ stageEnd = [f \in Flushers |-> NoDeadline]
  /\ pending = [f \in Flushers |-> {}]

\* The body of shutdownOnce.Do, other than its waiting.
BodyStep ==
  \/ MarkShutdown
  \/ BeginWait
  \/ EndWait
  \/ StartCloser
  \/ \E err \in BOOLEAN : CloserReturns(err)
  \/ FinishShutdown

FlushStep(f) ==
  \/ StartSignals(f)
  \/ \E s \in Signals : SignalReturns(f, s)
  \/ EndSignals(f)
  \/ MetricsReturns(f)
  \/ LeaveFlush(f)
  \/ DoneFlush(f)

Next ==
  \/ \E c \in Callers, d \in Budgets \cup {NoDeadline} : EnterShutdown(c, d)
  \/ CancelShutdown
  \/ BodyStep
  \/ \E c \in Callers : ReturnShutdown(c)
  \/ HelperWakes
  \/ \E f \in Flushers, d \in FlushBudgets \cup {NoDeadline} : EnterFlush(f, d)
  \/ \E f \in Flushers : FlushStep(f)
  \/ Tick
  \/ Terminated

Spec == Init /\ [][Next]_vars

(***************************************************************************)
(* Fairness.  The Go scheduler runs every goroutine that can run, time     *)
(* passes, and a closer returns at the latest when its context is done or, *)
(* without a deadline, when its own export timeout ends.  Nothing is       *)
(* assumed of a ForceFlush but where a property says so (FlushFairness).   *)
(***************************************************************************)
ShutdownFairness ==
  /\ WF_vars(BodyStep)
  /\ WF_vars(Tick)
  /\ \A c \in Callers : WF_vars(ReturnShutdown(c))

FlushFairness ==
  /\ WF_vars(HelperWakes)
  /\ \A f \in Flushers : WF_vars(FlushStep(f))

-----------------------------------------------------------------------------
(***************************************************************************)
(* Properties.                                                             *)
(***************************************************************************)
Deadlines == Nat \cup {NoDeadline}

\* Every variable has its type: in particular neither flushesRunning nor the
\* WaitGroup counter is ever negative (WaitGroup.Done would panic).
TypeOK ==
  /\ cfg \in Config
  /\ now \in Nat
  /\ shutdownStarted \in BOOLEAN
  /\ flushesRunning \in Nat /\ wg \in Nat
  /\ once \in {"fresh", "running", "done"}
  /\ caller \in [Callers -> {"out", "once", "returned"}]
  /\ result \in [Callers -> SUBSET Components] /\ cancelled \in BOOLEAN
  /\ stage \in {"none", "mark", "marked", "wait", "next", "run", "done"}
  /\ deadline \in Deadlines /\ granted \in Deadlines /\ stepEnd \in Deadlines
  /\ running \in Nat
  /\ helper \in {"none", "waiting", "closed"}
  /\ waitExpired \in BOOLEAN
  /\ idx \in 1 .. NumClosers + 1
  /\ closed \in [Components -> Nat]
  /\ failed \subseteq Components /\ shutdownErr \subseteq Components
  /\ flush \in [Flushers -> {"out", "entered", "signals", "metrics", "leave",
                             "left", "returned", "refused"}]
  /\ flushGranted \in [Flushers -> Deadlines]
  /\ flushEnd \in [Flushers -> Deadlines] /\ stageEnd \in [Flushers -> Deadlines]
  /\ pending \in [Flushers -> SUBSET Signals]

\* A flush between registering and the lock of its deferred function.
Flushing(f) == flush[f] \in {"entered", "signals", "metrics", "leave"}

\* Shutdown with a deadline lets a ForceFlush that was already running finish
\* before it closes any component, unless the share for that wait ran out or the
\* caller cancelled it.  A flush that has not registered by the time the SDK is
\* marked never runs.
NoCloseUnderFlush ==
  (stage \in {"next", "run", "done"} /\ deadline # NoDeadline /\ ~waitExpired)
    => \A f \in Flushers : ~Flushing(f)

\* sync.WaitGroup's rule: once waitFlushes waits on the group no ForceFlush
\* adds to it, so the counter it saw cannot rise again.
NoAddDuringWait == [][helper # "none" => wg' <= wg]_vars

\* Closers are run in the order of s.shutdowns, each exactly once however many
\* goroutines call Shutdown.
ClosedInOrder ==
  \A m \in Components :
    closed[m] = Cardinality({i \in 1 .. idx - 1 : cfg.shutdowns[i] = m})

\* No Shutdown call, first or later, returns before every closer has, and all
\* of them return the same joined error.
CallersSeeOutcome ==
  \A c \in Callers : caller[c] = "returned" =>
    idx = NumClosers + 1 /\ result[c] = failed

\* However many goroutines call Shutdown, the closers run once, in order, and
\* every caller waits for all of them and gets their one joined error.
OneOutcome == ClosedInOrder /\ CallersSeeOutcome

\* The deadline is shared out: when it allowed a tick per closer and one for
\* the wait, the closers still to run always have one each, however slow the
\* wait and the closers before them were.
EveryCloserGetsAShare ==
  granted > NumClosers =>
    /\ stage = "next" => deadline - now >= NumClosers - idx + 1
    /\ stage = "run"  => /\ stepEnd > NoDeadline
                         /\ stepEnd <= deadline - (NumClosers - idx)

\* Shutdown never works past its deadline.
ShutdownMeetsDeadline ==
  (stage \notin {"none", "done"} /\ deadline # NoDeadline) => now <= deadline

\* A slow wait or closer takes neither the others' time nor any past the deadline.
TimeShared == EveryCloserGetsAShare /\ ShutdownMeetsDeadline

\* The metrics stage of a ForceFlush with two ticks or more starts before the
\* call's deadline, however slow stage one was.  Of a flusher that ignores its
\* context nothing can be said.
MetricsStageHasTime ==
  [][\A f \in Flushers :
       FlushHonoursCtx /\ flush[f] = "signals" /\ flush'[f] = "metrics"
         /\ flushGranted[f] >= 2
       => now < flushEnd[f]]_vars

\* Every Shutdown call returns, even if no ForceFlush ever does and whenever its
\* context is cancelled.
ShutdownReturns ==
  \A c \in Callers : caller[c] = "once" ~> caller[c] = "returned"

\* When its flushers return, so does every ForceFlush that registered, whatever
\* Shutdown does meanwhile; and the goroutine of waitFlushes, which an expired
\* wait leaves behind, is gone after the flushes.
FlushReturns ==
  FlushFairness =>
    /\ \A f \in Flushers : flush[f] = "entered" ~> flush[f] = "returned"
    /\ helper = "waiting" ~> helper = "closed"
=============================================================================
