--------------------------- MODULE RedisPoolStats ----------------------------
(***************************************************************************)
(* A scrape of a wrapped client's pool (redis/metrics.go): go-redis counts *)
(* all connections and the idle ones under two locks, and the pool moves   *)
(* between them.  Counts are uint32 in go-redis, of width Wrap here.       *)
(***************************************************************************)
EXTENDS Integers

CONSTANTS MaxConns,   \* connections of the pool, a bound of the model
          Wrap        \* 2^32, scaled down

VARIABLES
  total, idle,    \* the pool
  limits,         \* Options: MaxIdleConns and MaxActiveConns, 0 being none, and MinIdleConns
  live,           \* the weak pointer still has its client, and nobody unwrapped it
  scrape,         \* "none", "total" (TotalConns read) or "done"
  readTotal,      \* TotalConns as read
  readIdle,       \* history: IdleConns as read
  still,          \* history: the pool did not move between the two reads
  seen            \* the observations: a function of the instruments observed

vars == <<total, idle, limits, live, scrape, readTotal, readIdle, still, seen>>

\* The three limits are set independently of each other.
Init ==
  /\ total = 0 /\ idle = 0
  /\ limits \in [maxIdle : 0..MaxConns, maxActive : 0..MaxConns, minIdle : 0..MaxConns]
  /\ live = TRUE /\ scrape = "none" /\ readTotal = 0 /\ readIdle = 0 /\ still = TRUE
  /\ seen = <<>>

\* What the pool may hold, and what it may keep idle (external).
MayOpen == total < MaxConns /\ (limits.maxActive > 0 => total < limits.maxActive)
MayKeep == limits.maxIdle = 0 \/ idle < limits.maxIdle

\* The pool at work (external): a connection opened for a command, or ahead of
\* one; an idle one taken or closed; a used one given back, or closed.
PoolMoves ==
  /\ \/ MayOpen /\ total' = total + 1 /\ idle' = idle
     \/ MayOpen /\ idle < limits.minIdle /\ total' = total + 1 /\ idle' = idle + 1
     \/ idle > 0 /\ idle' = idle - 1 /\ total' \in {total, total - 1}
     \/ idle < total /\ MayKeep /\ idle' = idle + 1 /\ total' = total
     \/ idle < total /\ total' = total - 1 /\ idle' = idle
  /\ still' = (still /\ scrape # "total")
  /\ UNCHANGED <<limits, live, scrape, readTotal, readIdle, seen>>

\* Unwrap, or the collection of the client.
Gone ==
  /\ live /\ live' = FALSE
  /\ UNCHANGED <<total, idle, limits, scrape, readTotal, readIdle, still, seen>>

\* PoolStats reads TotalConns, of a client that is there.
ReadTotal ==
  /\ scrape # "total" /\ live
  /\ scrape' = "total" /\ readTotal' = total /\ still' = TRUE
  /\ UNCHANGED <<total, idle, limits, live, readIdle, seen>>

\* Faulty variant: used is the difference of the uint32 counts.
ConnectionCountsWrap(t, i) == [used |-> (t - i) % Wrap, idle |-> i]

ConnectionCounts(t, i) ==
  LET capped == IF i < t THEN i ELSE t
  IN  [used |-> t - capped, idle |-> capped]

\* An unbounded pool has no maximum to report.
MaxConnections == IF limits.maxActive > 0 THEN {limits.maxActive} ELSE {}
MaxIdleConnections == IF limits.maxIdle > 0 THEN {limits.maxIdle} ELSE {}

\* observeClient, once IdleConns is read.
ObserveClient ==
  /\ scrape = "total"
  /\ scrape' = "done" /\ readIdle' = idle
  /\ LET c == ConnectionCounts(readTotal, idle)
     IN  seen' = [used |-> c.used, idle |-> c.idle,
                  max |-> MaxConnections, idleMax |-> MaxIdleConnections]
  /\ UNCHANGED <<total, idle, limits, live, readTotal, still>>

Next == PoolMoves \/ Gone \/ ReadTotal \/ ObserveClient

Spec == Init /\ [][Next]_vars

(***************************************************************************)
(* However the pool moves between the two reads, used and idle are the     *)
(* total that was read, split in two; together they never exceed the       *)
(* maximum of connections reported beside them, and the idle ones never    *)
(* the idle maximum, unless MinIdleConns asks for more.  A pool that did   *)
(* not move is reported as it is.                                          *)
(***************************************************************************)
CountsAddUp ==
  scrape = "done" =>
    /\ seen.used + seen.idle = readTotal
    /\ seen.used >= 0 /\ seen.idle >= 0
    /\ \A m \in seen.max : seen.used + seen.idle <= m
    /\ \A m \in seen.idleMax : seen.idle <= m \/ seen.idle <= limits.minIdle
    /\ still => seen.idle = readIdle
=============================================================================
