--------------------------- MODULE CassandraSession --------------------------
(***************************************************************************)
(* The registry that leads a batch to its session's observer               *)
(* (cassandra/batch.go) and NewSession, which composes and restores the    *)
(* observers of the caller's ClusterConfig (cassandra/session.go).  The    *)
(* registry is keyed by the address of the session: the collector frees a  *)
(* session, its address is used again, and the cleanup of the old one runs *)
(* when it runs.                                                           *)
(***************************************************************************)
EXTENDS Naturals, Sequences, FiniteSets

CONSTANTS Addrs,         \* addresses of sessions
          MaxSessions    \* sessions made, a bound of the model

None == 0

VARIABLES
  made,        \* sessions made so far: the next one's number, and its observer's
  heap,        \* [Addrs -> session or None]: what lives where
  own,         \* session -> its observer, None for one gocql made by itself
  layers,      \* session -> the observers it was created with
  config,      \* the QueryObserver of the caller's ClusterConfig, a chain
  creating,    \* NewSession is in CreateSession: {} or {the caller's own chain}
  pending,     \* sessions whose NewSession has not registered them yet
  registry,    \* sessionObservers
  cleanups,    \* cleanups to run: <<address, observer>>
  batches      \* batches under way: [session, obs]

vars == <<made, heap, own, layers, config, creating, pending, registry, cleanups, batches>>

Init ==
  /\ made = 0 /\ heap = [a \in Addrs |-> None] /\ own = <<>> /\ layers = <<>>
  /\ config \in {<<>>, <<"caller">>} /\ creating = {} /\ pending = {}
  /\ registry = [a \in Addrs |-> None] /\ cleanups = {} /\ batches = {}

\* chainQueryObserver and chainConnectObserver: the caller's runs first.
Chain(existing, sdk) == Append(existing, sdk)

\* NewSession up to CreateSession.  A config is one caller's at a time.
NewSession ==
  /\ creating = {} /\ made < MaxSessions
  /\ creating' = {config}
  /\ config' = Chain(config, "sdk")
  /\ UNCHANGED <<made, heap, own, layers, pending, registry, cleanups, batches>>

\* Faulty variant: a failed CreateSession returns before the config is restored.
CreateFailsEarly ==
  /\ creating # {}
  /\ creating' = {}
  /\ UNCHANGED <<made, heap, own, layers, config, pending, registry, cleanups, batches>>

\* CreateSession fails: the caller's observers are put back all the same.
CreateFails ==
  /\ creating # {}
  /\ \E orig \in creating : config' = orig
  /\ creating' = {}
  /\ UNCHANGED <<made, heap, own, layers, pending, registry, cleanups, batches>>

\* A new session at a free address, with a copy of the config.
Allocate(a, observer) ==
  /\ heap[a] = None
  /\ made' = made + 1
  /\ heap' = [heap EXCEPT ![a] = made + 1]
  /\ own' = Append(own, observer)
  /\ layers' = Append(layers, config)

CreateSucceeds(a) ==
  /\ creating # {}
  /\ Allocate(a, made + 1)
  /\ \E orig \in creating : config' = orig
  /\ creating' = {}
  /\ pending' = pending \cup {made + 1}
  /\ UNCHANGED <<registry, cleanups, batches>>

\* registerSession, before NewSession returns.
RegisterSession(a) ==
  /\ heap[a] \in pending
  /\ registry' = [registry EXCEPT ![a] = own[heap[a]]]
  /\ pending' = pending \ {heap[a]}
  /\ UNCHANGED <<made, heap, own, layers, config, creating, cleanups, batches>>

\* A session gocql makes by itself.
RawSession(a) ==
  /\ creating = {} /\ made < MaxSessions
  /\ Allocate(a, None)
  /\ UNCHANGED <<config, creating, pending, registry, cleanups, batches>>

\* The collector frees a session nobody uses, and queues its cleanup.
Collect(a) ==
  /\ heap[a] # None /\ heap[a] \notin pending
  /\ ~\E b \in batches : b.session = heap[a]
  /\ heap' = [heap EXCEPT ![a] = None]
  /\ cleanups' = IF own[heap[a]] = None THEN cleanups ELSE cleanups \cup {<<a, own[heap[a]]>>}
  /\ UNCHANGED <<made, own, layers, config, creating, pending, registry, batches>>

\* Faulty variant: Delete instead of CompareAndDelete.
CleanupDelete(c) ==
  /\ c \in cleanups
  /\ registry' = [registry EXCEPT ![c[1]] = None]
  /\ cleanups' = cleanups \ {c}
  /\ UNCHANGED <<made, heap, own, layers, config, creating, pending, batches>>

\* CompareAndDelete(key, prev).
Cleanup(c) ==
  /\ c \in cleanups
  /\ registry' = [registry EXCEPT ![c[1]] = IF @ = c[2] THEN None ELSE @]
  /\ cleanups' = cleanups \ {c}
  /\ UNCHANGED <<made, heap, own, layers, config, creating, pending, batches>>

\* instrumentBatch up to the driver's call: lookupObserver.  The session is
\* one the caller has.
InstrumentBatch(a) ==
  /\ heap[a] # None /\ heap[a] \notin pending
  /\ batches' = batches \cup {[session |-> heap[a], obs |-> registry[a]]}
  /\ UNCHANGED <<made, heap, own, layers, config, creating, pending, registry, cleanups>>

\* The batch is recorded with the observer found, or not at all.
BatchEnds(b) ==
  /\ b \in batches
  /\ batches' = batches \ {b}
  /\ UNCHANGED <<made, heap, own, layers, config, creating, pending, registry, cleanups>>

Next ==
  \/ NewSession \/ CreateFails
  \/ \E a \in Addrs : \/ CreateSucceeds(a) \/ RegisterSession(a) \/ RawSession(a)
                      \/ Collect(a) \/ InstrumentBatch(a)
  \/ \E c \in cleanups : Cleanup(c)
  \/ \E b \in batches : BatchEnds(b)

Spec == Init /\ [][Next]_vars

-----------------------------------------------------------------------------

(***************************************************************************)
(* A batch on a session NewSession made is recorded by that session's own  *)
(* observer: an older session's cleanup, running late, takes nothing away, *)
(* and no other session's tracer or meter gets the batch.                  *)
(***************************************************************************)
BatchFindsOwn ==
  \A b \in batches : own[b.session] # None => b.obs = own[b.session]

(***************************************************************************)
(* However many sessions one ClusterConfig gives, and however many         *)
(* attempts failed on it, a session of NewSession has the SDK's observer   *)
(* once, after the caller's, and one made without the SDK has none: no     *)
(* query is counted twice.                                                 *)
(***************************************************************************)
OneObserverLayer ==
  \A s \in 1..made :
    Cardinality({i \in DOMAIN layers[s] : layers[s][i] = "sdk"}) = IF own[s] = None THEN 0 ELSE 1

(***************************************************************************)
(* What ExecuteBatch says of a session NewSession did not make: its        *)
(* batches run without instrumentation.                                    *)
(***************************************************************************)
RawRunsBare == \A b \in batches : own[b.session] = None => b.obs = None
=============================================================================
