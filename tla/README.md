# A verification model of o11y

`o11y` is a Go library that gives a service its OpenTelemetry traces, metrics and
logs, its profiles, and instrumented clients for the stores and brokers it talks to.
This directory holds TLA+ models of the parts of it that are hard to test, TLC
configurations that check them on small instances, and TLAPS proofs of what can be
proved for instances of any size. `PROJECT.json` is the index: components, runs,
the source lines behind every definition, hazards, findings, theorems, and for every
property a mutation of the code that violates it.

    tlc -config SdkShutdown.cfg MCSdkShutdown     # a run
    tlapm LifecycleProofs.tla                     # the proofs of a module

## 1. The system

### Core

| Part | State | Operations | Who calls whom |
|---|---|---|---|
| SDK life cycle (`o11y.go` 64-421) | `shutdownOnce`, `shutdownErr`, `flushMu`, `shutdownStarted`, `flushesRunning`, the WaitGroup `flushing`, the closers and flushers Init left | `Shutdown`, `ForceFlush`, `waitFlushes`, `flushConcurrently`, `shutdownBudget` | applications, from any goroutine; it calls every pillar's closer and flusher |
| SDK assembly (`o11y.go` 448-790) | what is built so far; process-wide: the profiler slot, the scrape address | `Init`, `closeAll`, `shutdownSequence` | calls the pillars below in order and undoes them on an error |
| Options and environment (`options.go`, `endpoint.go`, `diagnostics.go`) | the `Config`, the Resource, the endpoints resolved once | options in the caller's order, precedence, validation, the whitelist of baggage keys | Init; the exporters read the same variables again |
| Metrics pipeline (`internal/metrics`, `internal/views`) | the listener and its Serve goroutine; views are immutable | `InitMeter`, the scrape handler, views and overrides, reserved keys, scope guard | Init; Prometheus through HTTP |
| Metrics cap (`internal/metricscap`) | one bucket of seen values per budget, under a mutex | `observe`, `Gather`, `Export`, merging of points | every collection, concurrently |
| Export failures (`internal/exportstats`) | atomic counters per signal | the exporters' wrappers add, an observable callback reads | the batchers' and the reader's goroutines |
| Repeat suppressor (`internal/repeat`) | a table from message to the time it was logged | `SuppressedAt` | the OTel error handler, the logr sink, the scrape logger |
| Profiling (`internal/profiling`) | `profilerStarted` under a mutex | `Start`, the closer and the goroutine it leaves | Init |
| Log handlers (`internal/log`) | handlers derived from handlers, slices that share arrays | `Handle`, `WithAttrs`, `WithGroup`, fan-out | every log record |
| Baggage (`internal/baggageattrs`) | none beyond the context | set and remove members, put whitelisted ones on spans and records | every request, span and record |
| Trace provider, redaction (`internal/trace`, `internal/redact`) | immutable values | pure functions | every span, every message |

### Integrations

| Part | State | Hard behaviour |
|---|---|---|
| `mongo` pool metrics | a `poolState` per address: live and checked-out connections, pending requests, sizes | events of several pools at one address, in the driver's order; gauges that must return to zero |
| `mongo` monitors | monitors composed on `ClientOptions`; otelmongo's map of open spans | commands in flight on several connections whose identifiers are normalised |
| `redis` Wrap | a map from address to entry with a mutex each, weak references, pool names | concurrent Wrap and Unwrap, failure half way, addresses reused before a cleanup has run |
| `redis` hook and pool | per call only; the pool is go-redis's | pipelines with filtered, failing and Nil commands; a pool that moves during a scrape |
| `nats` JetStream batches | two channels, a goroutine, a derived context, `stopOnce` | a reader that leaves, Stop against Error, a context that ends early |
| `nats` connection | a tracing switch that may move | whose time ran out; headers of two spellings; baggage for a handler |
| `resty` | the state of one attempt in the request's context; the table of wrapped clients | retries, panics and errors that end an attempt through different hooks; reused addresses |
| `cassandra` | the table of session observers; the caller's `ClusterConfig` | reused addresses, a session that fails half way, batches over several tables |
| `minio` | the goroutine of a listing, object handles | a reader that leaves; two names of one failure |
| `elasticsearch` | the state of one request in its context | retries, and two APIs that disagree on what a failure is |
| `gin` | keys on the gin context | nested chains, a context replaced on the way |
| `http`, `obsctx` | none | none of their own |

What makes the core correct: nothing closes under a flush, everything that was built
is closed exactly once and in an order that loses no data, one slow component does
not take the time of the others, whatever is shared in the process is given back, and
no metric is wrong because two goroutines met. What makes an integration correct: an
operation has one span and one sample that say what its caller saw, whatever order the
driver's callbacks come in, and what outlives a call is released. The hazards in
`PROJECT.json` say at which line each of these could go wrong.

## 2. Modules

One module per component; an `MC` module that puts the components of a run next to each
other, states the run's properties and ends with the values the run gives the constants; one
`.cfg` per run; a `Proofs` module that extends the same `MC` module, so that the theorems are
about the formulas the run checks. No theorem mentions the run's values. The properties of
the `shutdown` run are SdkShutdown's own, and are proved where MCLifecycle extends it.

    SdkComponents  <-  SdkInit, ExportFailures, MCSdkShutdown, MCLifecycle
    PromLabels     <-  SdkOptions, MetricViews
    ErrorTypes     <-  EsOperation, MinioClient, RedisHook, CassandraOps
    ClientOp       <-  the same four, as the specification they implement

    MCSdkShutdown  SdkShutdown                                        (with the next)
    MCLifecycle    SdkShutdown, SdkInit                               LifecycleProofs
    MCMetrics      MetricsCap, ExportFailures                         MetricsProofs
    MCCallbacks    RestyHook, MongoPool                               CallbacksProofs
    MCSignals      Suppressor, LogHandlers, BaggageContext, GinChain  SignalsProofs
    MCRegistries   RedisWrap, CassandraSession, RedisPoolStats        RegistriesProofs
    MCOperations   EsOperation, MinioClient, RedisHook, CassandraOps,
                   RestyWrap, MongoMonitor                            OperationsProofs
    MCNats         NatsFetch, NatsRequest, NatsPropagation            NatsProofs
    MCConfig       SdkOptions, SdkEnv, MetricViews                    ConfigProofs

Components that share an `MC` module without acting on each other are checked side by
side: a variable `which` is chosen in the initial state and only that component moves,
the others staying in one initial state. A property of such a module is the conjunction
of the components' own, and holds of a component at rest. Where components do interact,
one specification has both: Shutdown with ForceFlush, Init with closers, profiler and
listener, the export counters with readers and batchers, streams with a shared budget,
the Config with the environment the exporters read behind it.

### The core

**SdkComponents** states, as a function of the enabled pillars, which closers Init
registers and in which order, so that the shutdown, assembly and export-failure models
all run on the sequence the code really builds.

**SdkShutdown.** Shutdown and ForceFlush step by step: entering the once, marking the
SDK under `flushMu`, waiting for the flushes with the helper goroutine, each closer,
the return of every caller; registering a flush, its two stages, and the two halves of
its deferred function. A component is external: it returns when and with what the
environment chooses, at the latest (closers) when its context is done. The caller may
cancel Shutdown's context at any time while its body runs, which ends the wait too; a flush
or a closer that returns early because of a cancellation is one that returns early. Time
counts ticks; `shutdownBudget` is the integer division the code does.

**SdkInit.** Several Init calls in one process. `pc` walks the pillars in the code's
order; each step may fail and then `todo` lists what that return statement closes.
`port` and `serve` are the listener and the Serve goroutine, which may start after the
server was shut down; `slot` is `profilerStarted`, released by a goroutine that may
outlive the closer.

**SdkOptions.** A caller gives options one by one; each is an operator from a Config to a
Config, named as in `options.go`. Then Init's checks, the Resource, its guarded keys and
the baggage whitelist. A caller chooses from options that have something to do with each
other. `given` remembers the options, so that the Config can be compared with what the
whole sequence asks for.

**PromLabels.** Keys are short sequences of characters and labels what the translator
makes of them, so that two keys really can meet in one label. The SDK's own keys are
shortened to their initials. The loops over a key's characters and over sorted keys are
recursive functions of the position, one step operator each (`CollapseStep`, `MatchStep`,
`KeepStep`), and the recursion on keys in double underscores is the depth it reaches; so the
same definitions can be run and reasoned about.

**SdkEnv.** The environment as a function from variables to values, a value being what the
parsers make of it (good, bad, zero, with or without surrounding whitespace). Init
resolves and validates, the exporters read by rules of their own (external) and echo
what they cannot parse. While Init runs, other code in the process may set a variable or
unset it (`Setenv`, over the constant `Changes`); `touched` remembers which. A variable that
is made unreadable after its check is echoed, and so is one that the check passed over because
another shadowed it, once that one is unset: the code reads the environment twice and cannot
prevent it. The property says that there is no other way.

**MetricViews.** The views are data, translated one by one; a measurement of any
instrument, in a scope, of a kind and with a unit, gets the streams the OTel SDK (external)
gives it. Of several matching views the SDK keeps the first one's stream
(`internal/views/rpc.go` 29-31, `mongo/client_test.go` 796-797); `OneStream` asks for at most
one, so that it does not depend on which wins. The scope guard is the second action; like
Init it is for the Prometheus exporter only.

**ExportFailures.** The counters together with what decides whether a count still gets
out: batchers that drain, a reader that collects on schedule, for a flush and at its
shutdown, and the order ForceFlush and Shutdown use them in.

**MetricsCap.** Streams that share a budget, collections that run concurrently and take
the bucket's mutex once per series, and the merge of what collapsed. Series differ in
the capped attribute only.

**Suppressor.** Reporters read the clock before they take the lock, so a reading may be
older than the table. `lastLog` and `decision` are history: when a message was really
let through, and what the last call decided; `latest` tells whether readings have come in
order so far.

**LogHandlers.** Loggers derived from one another; a slice is an array and a length, so
that an append may or may not write into an array another logger holds. Every record
leaves what stdout and the OTLP bridge got, to be compared with what slog promises of
the logger's derivations; an attribute carries the derivation it came with and its number
there, so that two equal ones are told apart. **BaggageContext.** Contexts derived from one another, with
members that have a raw and an encoded length. **GinChain.** One request through two
nested chains.

### The integrations

**ClientOp** is the abstract specification of an instrumented operation: it is left alone,
or has one span that ends once, and one sample taken with it that agrees on whether the
operation failed. EsOperation, MinioClient, RedisHook and CassandraOps each give their
refinement mapping (`Op == INSTANCE ClientOp WITH ...`), and `OperationsReport` checks that
all four implement it. RestyHook does not, by the finding below, and has properties of
its own.

**EsOperation** has an action per callback of the instrumentation and keeps beside it what
the caller takes for a failure. **MinioClient** has the calls between `begin` and `finish`,
and a listing as three processes (producer, forwarding goroutine, reader) and a context.
**RedisHook** has a command, a pipeline or a dial. **CassandraOps** has a query attempt or a
batch; a statement is a sequence of fields and of a name that may be quoted, with a dot or a
space inside. `TableReadable` and `KeyspaceReadable` say of which statements the parser can tell
the table or the keyspace; of the others it must claim no table. **ErrorTypes** is how the packages name an error:
an error is the chain of its types and the set of what `errors.Is` finds.

**RedisWrap**, **RestyWrap** and **CassandraSession** have the three tables that are keyed by
address, with the garbage collector: a client may be collected whenever nobody holds it,
its cleanup runs later, and another client may have its address by then. **RedisPoolStats**
is a scrape that reads a pool in two steps; its counters have the width the code's have,
scaled down, and the three limits of a pool are chosen independently of each other.

**MongoPool.** The driver's pools (`pool`, `conn`, `waiting`) next to the tracker's
`state` and the `gauge`s; every event is one action that changes both. `shared` puts
both pools behind one address with the same connection numbers, which is what two
clients built from one options value do. **MongoMonitor** composes monitors and follows
commands in flight; identifiers are sequences of words.

**NatsFetch.** One batch: the Fetch call with its fallback, the native pull, the
forwarding goroutine's two selects and its deferred calls, and an application that
reads or leaves, calls Error and calls Stop from several goroutines. Messages are
counted. **NatsRequest** is a caller that asks again on `ErrTimeout` while its context
lasts, with timers that may fire late. **NatsPropagation** is a message over several hops,
each in either spelling of the headers and with or without baggage, in any order, and the
tracing switch, which upstream and this package evaluate at different times. `injected` is the
history of the hops. An older SDK that sends on a message this package has written is not seen:
the verbatim spelling is read first (`nats/middleware.go` 31-45), and the property says so.

**RestyHook.** One request. `pc` walks resty's own steps, which are external: the hooks
before sending, the send, the retry decision, the retry hooks, the wait, the final hooks;
a panic is possible at each. `span[n]` is attempt n's `requestState` with the span in it,
`ctx` says whose state the request's context carries. The application's hooks may be
registered ahead of the wrapper's or behind them. A `Request` is executed once. `gaveUp`
and `unheard` are history.

Definitions that end in a description of a fault, under a comment "Faulty variant",
are the mutations `PROJECT.json` names; no specification uses them.

## 3. Runs

| Run | Instance | Shows |
|---|---|---|
| `shutdown` | 2 Shutdown and 2 ForceFlush callers, three SDK configurations, deadlines from passed to ample, contexts that are cancelled | a running flush is waited for, the WaitGroup's rule, closers once, in order and each with its share, one outcome for all, no work past the deadline, time for the metrics stage of a flush |
| `lifecycle` | the same callers on one configuration; 2 Init calls, the first with every combination of pillars, the second competing for the address or the profiler | nothing leaks from any error path, one profiler, no scrape of a provider that is shut down; Shutdown returns with nothing assumed of a flush, ForceFlush and the waiting goroutine do if flushers do; port and slot are given back |
| `metrics` | two streams on one budget of one value, one without a rule, two collections; all pillars with pushed metrics | the cap holds, streams agree, cumulative sums never go back; failures counted by a drain leave with the metrics |
| `callbacks` | budgets of 0, 1 and 2 retries, seven errors, every kind of URL; one client's pool, recreated, or two pools at one address | one end and one sample per span, siblings, the caller's context back, the retry marker, the error's and the server's name; the one client's gauges are exact, pending is exact for both and the last close clears |
| `signals` | 2 reporters, 3 messages, a table of 2; up to 5 loggers; 4 contexts; 2 chains and 3 errors | the table is bounded, nothing is silenced beyond the window, only a full table lets a repeat through; records, baggage and errors end up where they belong |
| `registries` | 2 goroutines, 3 calls, 2 Redis clients at one address and one at another; 4 sessions at 2 addresses; a pool of 2 with every combination of limits | Wrap takes effect, one live hook, nothing stranded, names; a batch finds its own session's observer; counts add up and keep to the limits beside them; Wrap, Unwrap and cleanups end |
| `operations` | up to 3 tries, 3 commands or 3 statements, 2 listed items, 3 clients at one address, 3 commands in flight | spans and samples say what the caller saw, hidden commands stay hidden, nothing is mislabelled, listings and Wrap end; the refinement of ClientOp |
| `nats` | five kinds of request of three messages, 2 Stop calls, a FetchBytes channel of one; a budget of up to 4 ticks; 3 hops | no blocking, no loss, Error and Stop, no leaked context; a timeout is the request's own; the context this package, or else an older SDK, wrote last arrives, with its baggage; batches, pulls and retry loops end |
| `config` | sequences of up to 3 options; every variable alone and with the ones it interacts with, and up to 2 of 6 changes meanwhile; every instrument and every set of up to 3 scope attributes | the last option that says something decides; labels are distinct; baggage shadows nothing; one endpoint is validated, used and redacted and nothing is echoed that was not set meanwhile; one stream per instrument |
| `mongo_heals`, `resty_ends`, `cassandra_stale` | the instances of `callbacks` (fewer errors) and `registries` | violations, see below |

Bounds. Two callers of an operation are what a race needs; in RedisWrap
the cleanups are further goroutines that wait on the same entries. Two retries are an
attempt in the middle, neither the first nor the last of the budget. A budget of
one value is the boundary of the cap with one value to overflow and the application's
own "other". Three messages and a channel of one make a FetchBytes channel overflow
by more than one. Two connection numbers are one that is misattributed and one that is
not. Three clients at an address are one that is collected, one that finds its entry and
one that meets the late cleanup of either. Three statements or commands are a majority and
an exception. Three hops are a message with one spelling, the other and the first again. A pool of
two connections has a limit below, at and beyond what it holds. Two changes are a variable
that no longer shadows another and the other. Two
of the limits of baggage are small enough for each to be the one that is exceeded.
`MaxTime`, `MaxTotal`, `MaxFails`, `MaxWaiting`, `MaxIdle`, `MaxName`, `MaxCalls`,
`MaxClients`, `MaxSessions`, `MaxItems`, `MaxHops`, `MaxChanges` and their like cap the counters and are
named in the guards they stand in. Symmetry is used over goroutines, pools, messages and
other interchangeable values, and in no run that checks liveness.

SdkShutdown, SdkInit, MetricsCap, ExportFailures, RestyHook and MongoPool have a step
`Terminated` or its like where a process may be at rest for good, so that every other
deadlock is an error. In `signals`, `registries`, `operations`, `nats` and `config` a
behaviour ends when its one request, message or configuration is done or a bound is
reached; deadlock is not checked there and that nothing hangs is stated as liveness where
there is anything to wait for (`CallsReturn`, `CallsEnd`, `NatsEnds`).

Fairness. Goroutines that can run do run. A closer returns when its context is done, or
without one when its component's own timeout ends; the profiler's Stop ends with its
upload's timeout; the runtime runs queued cleanups. A native pull reacts to its context
and ends by itself when it does not wait or was given FetchMaxWait. minio-go's producer
reacts to its context. The clock ticks and timers fire, at their time or later. Nothing is
assumed of the application, and nothing of a flush where `lifecycle` asks for Shutdown: that
its bounded wait does not need it is what the run shows. `FlushReturns` states the fairness
of the flushers as its hypothesis, `ListingEnds` that the reader stays or the context ends.
The restart loops of both Wraps need only weak fairness of each goroutine: an entry one
finds stale is gone when it looks again.

### Findings

With two pools behind one `poolState` (two clients from the same options, at one
address), `mongo/pool_metrics.go` 329-332 says that a close booked on the wrong pool
stays within one connection and heals as the pools drain. `mongo_heals` ends with every
connection closed and an idle gauge that is not zero. The cause: `checkOutConnection` leaves
the idle gauge alone when the ready count does not exceed the checked-out count, and
`checkInConnection` always adds to it, so each further checkout and checkin adds one.

`resty/hook.go` 206 returns when the retry hook is given no response. resty has none for an
attempt that fails after `beforeRequest` and before it is sent, and announces its retry all
the same when a retry condition accepts the error; the span stays open and its sample is
not recorded, where `resty/client_test.go` 785 asks that "every attempt must produce an ended
span". `resty_ends` shows it; `AttemptsSound`, checked and proved, says that no other span is
lost. How resty calls the hooks is taken from the hooks' signatures and nil checks and from
ADR 0011, its source not being part of the repository.

`cassandra/batch.go` 60-61 says that a batch on a session NewSession did not make runs
without instrumentation. The table is keyed by address and an entry stays until the cleanup
of its collected session runs; a session made by gocql at that address before then is
recorded by the old session's observer. `cassandra_stale` shows it; for sessions made by
NewSession, which replace the entry, `OwnObserver` holds. The wrappers of `redis` and `resty`
compare a weak pointer and do not have this window.

In two more places the code does less than its comments say; there is no run of its own for
these, and the properties state how far the promise holds.

`cassandra/observer.go` 105-109 says that `db.namespace` is the keyspace actually addressed and
that the session's stands in only for an unqualified statement. `ObserveQuery` takes the
session's whenever the parser returned none, and the parser returns none also for a qualified
name it cannot read: `normalizeTable` cuts `b."x.y"` at its last dot, so that a statement on
keyspace b in a session on a is recorded under a. `NothingMislabelled`, checked and proved,
says that it does not happen where the parser can read the keyspace (`KeyspaceReadable`), and
never to a table.

`options.go` 675-686 says that `WithExtraHTTPServerAttributeKeys` drops, with a warning, a key
that normalises to the empty string. Only the empty key does, and 704-706 pass over it in
silence, as `options_test.go` 260-267 has it. For every other key that is dropped
`LabelsDistinct`, checked and proved, includes the warning.

## 4. Proofs

Every theorem is about a component's own `Spec`, or that of an `MC` module with its constants
left open, and so about any number of callers, clients, sessions, statements, options, retries
or messages and any deadlines and limits. `PROJECT.json`
lists them with what each says; the names in brackets are theorems they combine.

| Module | Theorems |
|---|---|
| `LifecycleProofs` | `TypeCorrect`, `FlushFinishesFirst`, `WaitGroupRule`, `OneOutcomeTheorem` (`ClosersOnce`, `SameOutcome`), `TimeTheorem` (`ShareTheorem`, `DeadlineTheorem`), `StageTheorem`, `UnwindTheorem` |
| `MetricsProofs` | `BudgetTheorem` (`CapHolds`, `OneAnswer`), `CumulativeTheorem`, `ShippedTheorem` |
| `CallbacksProofs` | `AttemptsTheorem` (`AttemptsEnd`, `AllSiblings`), `OutcomeTheorem`, `PoolTheorem` |
| `SignalsProofs` | `SafeTheorem` (`Bounded`, `NeverSilenced`), `FullTheorem`, `BaggageTheorem`, `ErrorsTheorem`, `LoggedTheorem` |
| `RegistriesProofs` | `WrapTheorem`, `FreshNameTheorem`, `ObserverTheorem`, `CountsTheorem` |
| `OperationsProofs` | `OperationsTheorem`, `FailureTheorem`, `OutlivesTheorem`, `PipelineTheorem`, `MislabelTheorem`, `HookedTheorem`, `CommandsTheorem` |
| `NatsProofs` | `BatchTheorem` (`NeverWaits`, `AllForwarded`, `StopIsNoError`, `ContextFreed`), `TimeoutTheorem`, `ContextTheorem` |
| `ConfigProofs` | `OptionsSafe`, `LabelsSafe`, `ReservedKeysExact`, `BaggageKeysSafe`, `EnvironmentSafe`, `EnvironmentAgreed`, `StreamsSafe` |

The assumptions are the named ASSUMEs of the modules, which the runs evaluate too: sets of
callers and keys are finite, deadlines, caps and bounds are natural numbers, requests are
well formed, an option has a value of its kind, a change gives a variable a value there is, keys are words over the model's alphabet, an
error has a type and none has the empty name, what a logger is given is a sequence of attributes
of the kinds slog has, the pushed pillars are those whose failures are
shipped. They say nothing about how many there are of anything.

### The arguments

*Shutdown.* None of the safety properties is inductive. `Inv` adds that
`flushesRunning` and the WaitGroup count the flushes in the phases they should
(`Counted`, with cardinalities of the sets of flushes), that the body's stage determines
the once, the mark and the helper (`Phases`), that a count read under the lock bounds the
flushes still running because none can register after the mark (`Drained`), and two
arithmetic parts: the current step's context ends by the deadline (`OnTime`) and leaves a
tick for each closer to come (`Shared`). The last rests on lemmas about integer division.
`StageTime` adds for ForceFlush that a first stage with two ticks or more has a context that
ends strictly before the call's.

*Assembly.* `LifeInv` says of every instance what is running at each program point of Init
(`Built`), that the list of what is left to close names exactly that, without repetition and
the server before the meter (`InOrder`), that the address belongs to the one server not yet
closed (`Scrapes`), and that the profiler's slot is held by the one that runs or stops (`Slot`).

*Cap and sums.* A bucket only grows and never beyond its cap; an answer given with the bucket
full stays right because nothing joins it afterwards. Every exported series has the label its
budget answered (`Labelled`), so of two collections the one with the later snapshot has under
a label all measurements of the other. A sum is the size of the set of the measurements
summed, which makes it monotonic without an induction.

*Export failures.* Counts only grow and a snapshot is of the past (`Counts`); a batcher whose
closer has run is drained unless a drain took too long (`Quiet`); the meter's closer is the
last of the list (`Tidy`, from the order SdkComponents states); so the last collection has
everything (`Final`), and the collection of a flush what its flushers counted (`Flushed`).

*Attempts.* The state in the context is never a finished one (`CtxInv`), so a hook that finds
one always ends it, and every span that has not ended is the one in the context or was lost
(`Owned`). `Replaceable` says that when the next attempt starts, only a lost one can be
replaced. The lemmas `LastHooks` and `RetryHook` say what each hook may leave undone.
`OutcomeTheorem` follows through the same steps which attempt is the last of the budget.

*MongoDB pools.* What the tracker has told the gauges is what its state holds (`Sound`), kept by
every event whatever the connection numbers say; with one client the state in turn counts the
driver's connections, number by number (`Alone`). With two behind one address only the first
part is left, which is why idle is not exact there.

*Suppressor.* A table entry is the time its message was last let through, and eviction removes
one entry from a full table. `Displaced`: a message dropped inside its window has as many
younger ones as the table has room for.

*Baggage, Gin.* What is sent on from any derived context is within the limits, or has no more
members than came in (`Kept`); sizes are cardinalities of sets of bytes. Of a gin request
`PathInv` says which span the context and the keys hold on the way down each chain, `OwnOK`
which errors a chain's span has, once and in order.

*Loggers.* `LogInv` relates the two sinks of every logger to its derivations. What the OTLP
handler holds is what they gave, each attribute once and within the logger's groups (`Agrees`);
what stdout holds, its base and then the slice of each open group, is the same sequence
(`StdoutKept`), although it is formatted only when a record comes; and the keys the baggage
handler remembers are those given at the innermost level (`PresetOK`). A clipped append makes a
new array, so the slices of every other logger are as they were; without the clip the run finds
a logger with a sibling's attributes. `FlattenSeq` over the groups is reasoned about as a pass
that appends one slice at a time, and the bridge's selection is one too (see *Passes*).

*Redis clients.* `RedisInv` has seventeen parts. The heart: an entry is in the map until it is
disabled (`InMap`); a disabled one holds nothing, a committed one everything, and one in between
what its Wrap has got so far (`EntryStatus`, `WrapStatus`), by the mutex (`MutexInv`); and
somebody is still to commit or discard what is neither (`CommitDue`, `CleanupDue`).

*Sessions and Resty clients.* Both tables are keyed by address. In Cassandra's the entry of a
live session is its own because NewSession replaces it and a cleanup compares before it
deletes (`RegistryInv`); in Resty's a hook is installed once because an entry that names
another client is never taken for this one (`Owned`, `Kept`).

*Operations.* Each client's invariant relates the program point to what span and sample have
said; with it every step maps to a step of ClientOp or a stutter. For failures the invariants
follow the error from the place it appears to the one where it is named (`InnerName`,
`OuterName`, `KindOfError`), for the listing who may still send to whom.

*Cassandra statements.* The parser reads of a statement what it addresses or no table (`Reads`,
shape by shape), and of a readable qualifier the keyspace. The pass over a batch is a recursive function; that it exists, and that after n
statements it holds what those share (`PassKeeps`), are inductions on n, done with a least
counterexample (`LeastNumber`). A table that survives the pass is then every statement's.

*MongoDB commands.* A command's span is found by its key; keys of commands in flight differ
because normalising an identifier keeps the parts that make it unique (`ServerNames`).

*Batches.* `Counted` orders the four message counters and says the goroutine holds one
message exactly while it sends, which with a channel as large as the batch is why it finds
room. `DoneFirst` says everything Stop does comes after done is closed, so that a
cancellation Stop causes is always recognised (`Blame`); `LeavesLast` that without Stop the
goroutine leaves only an exhausted pull; `WhoCancels` who may have cancelled and who has.

*Requests and messages.* A call with time left was made before its deadline and only such a
call sends (`TimeLeft`), so a deadline that ends it is its own (`Returned`). Of a header
each spelling holds the last injection that used it (`LastWritten`), from which what `Get` finds
follows (`GetFinds`); a delivery under way remembers what the switch said (`Decided`).

*Options.* A Config is a function of the options given so far, setting by setting:
`EndpointAgrees`, `HeadersAgree` and their like say that a field has what the last place in the
list that says something about it asks for (`LastIn`), or the default. Appending an option either is such a place, and then the last, or
leaves the places as they were. `OptInv` carries this through Init's checks.

*Environment.* `EnvInv` says that what was resolved passed the checks, and that until Init has
read it a variable a reader would refuse is read with one that was set meanwhile. The lemmas go through the readers one by
one: the alternatives a check walks are the ones the reader tries, in its order and with its
trimming, so a check fails exactly if the reader would echo; and whether one would depends on the
variables of `ReadWith` only (`EchoDepends`). A Setenv by somebody else does not touch the
endpoints, which are resolved once. Changes are any variable to any value, in any number.

*Views.* A name and a scope determine a view of those configured (`OneView`, from `Fits` and
`Apart`), so that at most one matches an instrument and it is the first; the override's view and
the catch-all step back where one does.

*Redis pool.* The idle connections never exceed the pool's, nor either its own limit, and what was
read of both was so at one time each; capping the second reading by the first keeps all of it.

*Keys in order.* `Before` is a strict total order on keys of any length; a key's place in the
sorted sequence is then the number of keys before it, and every key has one (`Places`, `SortedAll`).

*Passes.* A loop is a recursive function on positions. That there is one is shown for any step
operator once (`WalkExists`), that what every step keeps holds of all of it too (`UpTo`): both by
a least counterexample, the place of an induction the provers do not do. On these rest what
KeepFirst keeps (the first key of every label, so labels are distinct and none is lost), what
Collapse makes (an underscore for each run of other characters), and that the matcher has
matched, at every position, as much of the wanted label as Collapse would have written. From
the last: `ReservedKeysExact`.

*Labels.* `LabelInv` says which keys the options' attributes and the promoted keys have left, each
with a label nobody else owns; that the environment's keys that are kept are the SDK's own or
nobody's, one per label; and that the Resource is made of exactly these and the detectors'
(`ResourceBuilt`). Distinct labels and the keys that are dropped are read off this.

*Baggage keys.* The Config holds the valid keys asked for (`BaggageAgrees`), as a set independent of their
order; the clash with the Resource and the limit are questions about that set, and the loop that
builds the whitelist leaves out what it warns of.

### Only model-checked

- Liveness (`LifeEnds`, `CallsReturn`, `CallsEnd`, `NatsEnds`): fairness and ENABLED are outside
  the prover.
- The findings, which are counterexamples.

## 5. Not modelled

- `internal/redact`: rewriting of text, character by character. A model of it would be the
  program again; where it is called is visible in SdkEnv's `redacted` and `echoed`.
- The syntax of variables, CQL statements, URLs and command documents: a text is
  represented by what its parser makes of it. The names of MongoDB spans and the collection
  a command document names are such texts.
- `internal/trace`, `internal/log/provider.go`, `internal/metrics/resourceexporter.go` and the
  HTTP facade configure the OTel SDK and otelhttp; they keep no state of their own.
- `internal/log/logr.go`, `internal/metrics/scrapelog.go` and the error handler of
  `diagnostics.go` ask the suppressor and write a line; the asking is modelled.
- `obsctx` is three calls of the context package.
- `nats`: Consume, Next, Publish and the other methods that hand their call to otel-nats;
  `redis`: the hooks of a cluster's or ring's shards, which repeat those of the client.
- `internal/baggageattrs/semconv_reserved_gen.go` and `attributes.go` are tables; the first is
  generated.
- Scripts, examples, test support and manifests are not what an application runs.

Of the external libraries only what this code relies on is modelled: how a component may
return, which events a driver may send, what the garbage collector may do. The wall clock
is assumed monotonic, as Go's is.

## 6. Plan

Every component of section 2 is modelled and checked as far as its note in `PROJECT.json` says,
and every invariant and action property the runs check is proved but for what section 4 leaves to
TLC. What would come next: the hooks of a Redis cluster's shards beside those of a client, and the
suppressor's users as processes of their own.
