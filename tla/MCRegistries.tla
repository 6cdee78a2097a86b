---------------------------- MODULE MCRegistries ----------------------------
(***************************************************************************)
(* The state the wrappers keep beside a driver, which outlives a call:     *)
(* Redis's map of wrapped clients and its pool names, what a scrape of a   *)
(* Redis pool reads, and Cassandra's registry of sessions.  The three do   *)
(* not meet: each has variables of its own, and in the run each moves by   *)
(* itself.                                                                 *)
(***************************************************************************)
EXTENDS Integers, Sequences, FiniteSets, TLC

CONSTANTS
  Clients, ClientAddrs, AddrOf, Threads, Entries, MaxName, Chosen, MaxCalls, Nobody,
  SessionAddrs, MaxSessions,
  MaxConns, Wrap

VARIABLES
  redisHeap, redisWrapped, entry, held, redisHooks, call, cleanup, redisCalls, sure,
  cqlMade, heap, own, layers, config, creating, pending, registry, cleanups, batches,
  total, idle, limits, poolLive, scrape, readTotal, readIdle, still, seen

redisVars == <<redisHeap, redisWrapped, entry, held, redisHooks, call, cleanup, redisCalls, sure>>
cqlVars == <<cqlMade, heap, own, layers, config, creating, pending, registry, cleanups, batches>>
poolVars == <<total, idle, limits, poolLive, scrape, readTotal, readIdle, still, seen>>

Redis == INSTANCE RedisWrap WITH
  Addrs <- ClientAddrs, None <- Nobody,
  heap <- redisHeap, wrapped <- redisWrapped, hooks <- redisHooks, calls <- redisCalls

Cql == INSTANCE CassandraSession WITH Addrs <- SessionAddrs, made <- cqlMade

Pool == INSTANCE RedisPoolStats WITH live <- poolLive

\* A pool has room for a number of connections.
ASSUME PoolAssumption == MaxConns \in Nat

\* Addresses are given, entries are neither goroutines nor many, the names
\* WithPoolName gives are names, and nil is none of all these.
ASSUME RedisAssumption ==
  /\ AddrOf \in [Clients -> ClientAddrs]
  /\ IsFiniteSet(Entries) /\ Entries \cap Threads = {}
  /\ MaxName \in Nat /\ Chosen \subseteq Redis!Names
  /\ Nobody \notin Clients \cup Entries \cup Threads \cup Redis!Names \cup Redis!EntryRec

-----------------------------------------------------------------------------

\* Redis: a Wrap that succeeded is in effect, once, and nothing else is left behind.
WrapConsistent ==
  /\ Redis!WrapTakesEffect /\ Redis!OneLiveHook
  /\ Redis!NothingStranded /\ Redis!NamesAccounted

\* Redis: a default pool name is one nobody holds.
DefaultNameFresh == Redis!DefaultNameFresh

\* Redis: Wrap returns, however often it starts again; so do Unwrap and the
\* cleanups of collected clients.
CallsReturn == Redis!CallsReturn

\* Cassandra: a batch is recorded by its session's own observer, and a session
\* has the SDK's observer at most once.
OwnObserver == Cql!BatchFindsOwn /\ Cql!OneObserverLayer

\* Cassandra: a batch on a session NewSession did not make is not instrumented.
RawRunsBare == Cql!RawRunsBare

\* Redis: a scrape of a moving pool adds up, and keeps to the limits it reports.
CountsAddUp == Pool!CountsAddUp

-----------------------------------------------------------------------------
(***************************************************************************)
(* The instance the run checks.  Two Redis clients that follow each other  *)
(* at one address and one at another, a small pool, and four Cassandra     *)
(* sessions at two addresses.                                              *)
(***************************************************************************)

CONSTANTS a1, a2, c1, c2, c3

VARIABLE which

MCAddrOf == c1 :> a1 @@ c2 :> a1 @@ c3 :> a2

\* The names WithPoolName gives: one like a default name, and one of a shard.
MCChosen == {<<1, "pool">>, <<1, "shard">>}

vars == <<which, redisVars, cqlVars, poolVars>>

Init ==
  /\ which \in {"redis", "cassandra", "pool"}
  /\ Redis!Init /\ Cql!Init /\ Pool!Init
  /\ which # "cassandra" => config = <<>>
  /\ which # "pool" => \A l \in DOMAIN limits : limits[l] = 0

Next ==
  \/ which = "redis" /\ Redis!Next /\ UNCHANGED <<which, cqlVars, poolVars>>
  \/ which = "cassandra" /\ Cql!Next /\ UNCHANGED <<which, redisVars, poolVars>>
  \/ which = "pool" /\ Pool!Next /\ UNCHANGED <<which, redisVars, cqlVars>>

\* No step its fairness asks for is enabled before a client is wrapped.
Spec == Init /\ [][Next]_vars /\ Redis!Fairness
=============================================================================
