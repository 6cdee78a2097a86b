------------------------------ MODULE MongoPool ------------------------------
(***************************************************************************)
(* poolTracker of mongo/pool_metrics.go: how one instrumented              *)
(* ClientOptions turns the driver's pool events at one server address into *)
(* gauges.                                                                 *)
(*                                                                         *)
(* The driver is external.  It numbers the connections of each pool from 1 *)
(* and reports what happens to them; an event names the connection and the *)
(* address, never the pool.  A handshake that fails gives a Closed with no *)
(* Ready; the Closed of the connections a closing pool drops come after    *)
(* its PoolClosed.  Each step below is one driver event with the whole of  *)
(* poolTracker.handle, which runs it under the tracker's mutex.            *)
(***************************************************************************)
EXTENDS Integers, FiniteSets

CONSTANTS
  Pools,        \* the pools the driver may open at the address
  IDs,          \* connection IDs, the same in every pool
  Sizes,        \* pool sizes an event may carry: records [min, max]
  MaxWaiting,   \* bound on the checkouts waiting in a pool
  MaxIdle,      \* bound on the idle gauge, which shared pools drive up
  Sharing       \* whether clients may share the options: a set of Booleans

VARIABLES
  shared,    \* several clients share the options, pools may be open at once
  pool,      \* driver: "new", "open" or "closed", per pool
  conn,      \* driver: what became of each connection of each pool
  waiting,   \* driver: checkouts started and not finished, per pool
  state,     \* tracker: the poolState of the address, or None
  gauge,     \* what was added up on each gauge
  disabled   \* tracker: cleanup has run

driver == <<pool, conn, waiting>>
vars == <<shared, driver, state, gauge, disabled>>

None == [none |-> TRUE]

\* The tracker's state and the gauges it feeds.
Tracker == [s |-> state, g |-> gauge]
-----------------------------------------------------------------------------
(***************************************************************************)
(* liveConnections: a count per connection ID, and the total.              *)
(***************************************************************************)
NoneLive == [byID |-> [n \in IDs |-> 0], total |-> 0]

AddLive(l, n) == [byID |-> [l.byID EXCEPT ![n] = @ + 1], total |-> l.total + 1]

HasLive(l, n) == l.byID[n] > 0

RemoveLive(l, n) ==
  IF HasLive(l, n)
    THEN [byID |-> [l.byID EXCEPT ![n] = @ - 1], total |-> l.total - 1]
    ELSE l

(***************************************************************************)
(* poolState.                                                              *)
(***************************************************************************)
NewState == [ready |-> NoneLive, checkedOut |-> NoneLive, livePools |-> 0, pending |-> 0,
             emittedMin |-> 0, emittedMax |-> 0, seenCreated |-> FALSE,
             created |-> [min |-> 0, max |-> 0]]

\* state(address): created on first sight.
StateOf(t) == [t EXCEPT !.s = IF @ = None THEN NewState ELSE @]

\* Moves both size gauges to sz; a size of zero is no limit and takes the max
\* gauge back to zero.
EmitSizes(t, sz) ==
  [t EXCEPT !.g.min = @ + (sz.min - t.s.emittedMin), !.s.emittedMin = sz.min,
            !.g.max = @ + (sz.max - t.s.emittedMax), !.s.emittedMax = sz.max]

\* setOptions with the sizes of the event, and with none: the sizes of the
\* last ConnectionPoolCreated again.
SetOptions(t, sz) ==
  EmitSizes([t EXCEPT !.s.seenCreated = TRUE, !.s.created = sz], sz)

RestateOptions(t) == IF t.s.seenCreated THEN EmitSizes(t, t.s.created) ELSE t

ReadyConnection(t, n) == [t EXCEPT !.s.ready = AddLive(@, n), !.g.idle = @ + 1]

\* The idle side moves only when there was an idle connection to move.
CheckOutConnection(t, n) ==
  LET wasIdle == t.s.ready.total > t.s.checkedOut.total
  IN  [t EXCEPT !.s.checkedOut = AddLive(@, n),
                !.g.used = @ + 1,
                !.g.idle = IF wasIdle THEN @ - 1 ELSE @]

CheckInConnection(t, n) ==
  IF HasLive(t.s.checkedOut, n)
    THEN [t EXCEPT !.s.checkedOut = RemoveLive(@, n), !.g.used = @ - 1, !.g.idle = @ + 1]
    ELSE t

\* Faulty variant: a connection that never became ready is taken off as well.
CloseConnectionAlways(t, n) ==
  LET u == [t EXCEPT !.s.ready = RemoveLive(@, n)]
  IN  IF HasLive(t.s.checkedOut, n)
        THEN [u EXCEPT !.s.checkedOut = RemoveLive(@, n), !.g.used = @ - 1]
        ELSE [u EXCEPT !.g.idle = @ - 1]

\* A connection that never became ready was never counted.
CloseConnection(t, n) ==
  LET u == [t EXCEPT !.s.ready = RemoveLive(@, n)]
  IN  IF ~HasLive(t.s.ready, n) THEN t
      ELSE IF HasLive(t.s.checkedOut, n)
        THEN [u EXCEPT !.s.checkedOut = RemoveLive(@, n), !.g.used = @ - 1]
        ELSE [u EXCEPT !.g.idle = @ - 1]

StartPending(t) == [t EXCEPT !.s.pending = @ + 1, !.g.pending = @ + 1]

DecrementPending(t) ==
  IF t.s.pending = 0 THEN t
  ELSE [t EXCEPT !.s.pending = @ - 1, !.g.pending = @ - 1]

\* Faulty variant: used connections stay on the gauge.
ClosePoolIdleOnly(t) ==
  [t EXCEPT !.g.idle    = @ - t.s.ready.total,
            !.g.pending = @ - t.s.pending,
            !.g.min     = @ - t.s.emittedMin,
            !.g.max     = @ - t.s.emittedMax]

\* Takes everything this state has on the gauges off them.
ClosePool(t) ==
  LET used == t.s.checkedOut.total
      idle == t.s.ready.total - used
  IN  [t EXCEPT !.g.used    = @ - used,
                !.g.idle    = IF idle > 0 THEN @ - idle ELSE @,
                !.g.pending = @ - t.s.pending,
                !.g.min     = @ - t.s.emittedMin,
                !.g.max     = @ - t.s.emittedMax]

\* Faulty variant: the first of the pools to close takes the state with it.
PoolClosedFirst(t) == [ClosePool(t) EXCEPT !.s = None]

\* ConnectionPoolClosed: poolClosed() counts the pool off, and the last one
\* unwinds the gauges and drops the state.
PoolClosed(t) ==
  LET u == [t EXCEPT !.s.livePools = IF @ > 0 THEN @ - 1 ELSE @]
  IN  IF u.s.livePools = 0 THEN [ClosePool(u) EXCEPT !.s = None] ELSE u
-----------------------------------------------------------------------------
\* handle(evt): nothing once cleanup has run; otherwise t is what the event
\* makes of the tracker.  A cleanup between handle's look at the flag and its
\* lock has the effect of one after the event.
Handle(t) ==
  /\ IF disabled THEN UNCHANGED <<state, gauge>>
     ELSE state' = t.s /\ gauge' = t.g
  /\ UNCHANGED <<disabled, shared>>

\* A pool may be opened while another is open only when several clients share
\* the options.  None is opened at the address while the last one still has
\* events to come.
MayOpen(p) ==
  /\ pool[p] = "new"
  /\ \/ shared /\ \E q \in Pools : pool[q] = "open"
     \/ \A q \in Pools \ {p} :
          \/ pool[q] = "new"
          \/ /\ pool[q] = "closed" /\ waiting[q] = 0
             /\ \A n \in IDs : conn[q][n] \in {"none", "gone"}

Created(p, sz) ==
  /\ MayOpen(p)
  /\ pool' = [pool EXCEPT ![p] = "open"]
  /\ UNCHANGED <<conn, waiting>>
  /\ LET t == [StateOf(Tracker) EXCEPT !.s.livePools = @ + 1]
     IN  Handle(SetOptions(t, sz))

\* ConnectionPoolReady, which carries no options; a driver repeats it after
\* every clear.
Ready(p) ==
  /\ pool[p] = "open"
  /\ UNCHANGED driver
  /\ Handle(RestateOptions(StateOf(Tracker)))

\* ConnectionCreated, which the tracker has no case for.
ConnectionCreated(p, n) ==
  /\ pool[p] = "open"
  /\ conn[p][n] = "none"
  /\ conn' = [conn EXCEPT ![p][n] = "created"]
  /\ UNCHANGED <<pool, waiting>>
  /\ Handle(StateOf(Tracker))

ConnectionReady(p, n) ==
  /\ pool[p] = "open"
  /\ conn[p][n] = "created"
  /\ conn' = [conn EXCEPT ![p][n] = "ready"]
  /\ UNCHANGED <<pool, waiting>>
  /\ Handle(ReadyConnection(StateOf(Tracker), n))

\* The connection is closed: its handshake failed, it went idle too long, it
\* broke while in use, the pool was cleared or closed.
ConnectionClosed(p, n) ==
  /\ conn[p][n] \in {"created", "ready", "out"}
  /\ conn' = [conn EXCEPT ![p][n] = "gone"]
  /\ UNCHANGED <<pool, waiting>>
  /\ Handle(CloseConnection(StateOf(Tracker), n))

CheckOutStarted(p) ==
  /\ pool[p] = "open"
  /\ waiting[p] < MaxWaiting
  /\ waiting' = [waiting EXCEPT ![p] = @ + 1]
  /\ UNCHANGED <<pool, conn>>
  /\ Handle(StartPending(StateOf(Tracker)))

CheckedOut(p, n) ==
  /\ pool[p] = "open"
  /\ waiting[p] > 0
  /\ conn[p][n] = "ready"
  /\ waiting' = [waiting EXCEPT ![p] = @ - 1]
  /\ conn' = [conn EXCEPT ![p][n] = "out"]
  /\ UNCHANGED pool
  /\ Handle(CheckOutConnection(DecrementPending(StateOf(Tracker)), n))

\* The timeout counter a timed-out checkout adds to is left out.
CheckOutFailed(p) ==
  /\ waiting[p] > 0
  /\ waiting' = [waiting EXCEPT ![p] = @ - 1]
  /\ UNCHANGED <<pool, conn>>
  /\ Handle(DecrementPending(StateOf(Tracker)))

CheckedIn(p, n) ==
  /\ conn[p][n] = "out"
  /\ gauge.idle < MaxIdle
  /\ conn' = [conn EXCEPT ![p][n] = "ready"]
  /\ UNCHANGED <<pool, waiting>>
  /\ Handle(CheckInConnection(StateOf(Tracker), n))

\* ConnectionPoolCleared: the Closed events that follow reconcile the counts.
Cleared(p) ==
  /\ pool[p] = "open"
  /\ UNCHANGED driver
  /\ Handle(StateOf(Tracker))

Closed(p) ==
  /\ pool[p] = "open"
  /\ pool' = [pool EXCEPT ![p] = "closed"]
  /\ UNCHANGED <<conn, waiting>>
  /\ Handle(PoolClosed(StateOf(Tracker)))

\* cleanup(): the tracker ignores every event from now on.
Cleanup ==
  /\ ~disabled
  /\ disabled' = TRUE
  /\ UNCHANGED <<shared, driver, state, gauge>>

\* Every pool the instance has is used up.
Terminated ==
  /\ disabled
  /\ \A p \in Pools : /\ pool[p] = "closed" /\ waiting[p] = 0
                       /\ \A n \in IDs : conn[p][n] \in {"none", "gone"}
  /\ UNCHANGED vars
-----------------------------------------------------------------------------
Init ==
  /\ shared \in Sharing
  /\ pool = [p \in Pools |-> "new"]
  /\ conn = [p \in Pools |-> [n \in IDs |-> "none"]]
  /\ waiting = [p \in Pools |-> 0]
  /\ state = None
  /\ gauge = [idle |-> 0, used |-> 0, pending |-> 0, min |-> 0, max |-> 0]
  /\ disabled = FALSE

PoolStep(p) ==
  \/ \E sz \in Sizes : Created(p, sz)
  \/ Ready(p)
  \/ Cleared(p)
  \/ Closed(p)
  \/ CheckOutStarted(p)
  \/ CheckOutFailed(p)

ConnectionStep(p, n) ==
  \/ ConnectionCreated(p, n)
  \/ ConnectionReady(p, n)
  \/ ConnectionClosed(p, n)
  \/ CheckedOut(p, n)
  \/ CheckedIn(p, n)

Next ==
  \/ \E p \in Pools : PoolStep(p)
  \/ \E p \in Pools, n \in IDs : ConnectionStep(p, n)
  \/ Cleanup
  \/ Terminated

Spec == Init /\ [][Next]_vars
-----------------------------------------------------------------------------
(***************************************************************************)
(* Properties.                                                             *)
(***************************************************************************)
OpenPools == {p \in Pools : pool[p] = "open"}

InState(c) == {x \in OpenPools \X IDs : conn[x[1]][x[2]] = c}

\* The checkouts that wait, those of a pool numbered from 1.
Checkouts == UNION {{p} \X (1..waiting[p]) : p \in Pools}

\* The truth about one client: every gauge shows what its open pool holds, and
\* nothing once the pool is closed, late Closed events notwithstanding.
GaugesMatchPool ==
  ~disabled /\ ~shared => /\ gauge.idle = Cardinality(InState("ready"))
                          /\ gauge.used = Cardinality(InState("out"))

\* Pending requests are counted exactly as long as a pool is open, also when
\* pools share the state, and one pool closing takes only its own off.  Nothing
\* takes them, the used connections or the sizes below zero; the idle gauge of
\* pools that share the state may get there.
PendingExact ==
  /\ (~disabled /\ OpenPools # {}) => gauge.pending = Cardinality(Checkouts)
  /\ gauge.used >= 0 /\ gauge.pending >= 0 /\ gauge.min >= 0 /\ gauge.max >= 0

\* When the last of the pools has closed nothing is left on the used, pending
\* and size gauges.
LastCloseClears ==
  (~disabled /\ OpenPools = {}) =>
    gauge.used = 0 /\ gauge.pending = 0 /\ gauge.min = 0 /\ gauge.max = 0

\* What the comment on liveConnections says of pools that share the options: a
\* misattribution heals as the pools drain, so once every pool and every
\* connection is closed nothing is left on the idle gauge either.
HealsWhenDrained ==
  ( /\ ~disabled
    /\ \A p \in Pools : pool[p] = "closed"
    /\ \A p \in Pools, n \in IDs : conn[p][n] \in {"none", "gone"} )
  => gauge.idle = 0
=============================================================================
