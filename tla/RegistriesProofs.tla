-------------------------- MODULE RegistriesProofs ---------------------------
(***************************************************************************)
(* Proofs about the registries, each for every behaviour of its component. *)
(***************************************************************************)
EXTENDS MCRegistries, FiniteSetTheorems, WellFoundedInduction, TLAPS

-----------------------------------------------------------------------------
(***************************************************************************)
(* The scrape of a Redis pool.                                             *)
(***************************************************************************)

\* The pool's own arithmetic under its limits, and that what was read is a count
\* of the pool, the present one as long as the pool has not moved.
PoolInv ==
  /\ total \in 0..MaxConns /\ idle \in 0..MaxConns /\ idle <= total
  /\ limits \in [maxIdle : 0..MaxConns, maxActive : 0..MaxConns, minIdle : 0..MaxConns]
  /\ limits.maxActive > 0 => total <= limits.maxActive
  /\ limits.maxIdle > 0 => idle <= limits.maxIdle \/ idle <= limits.minIdle
  /\ readTotal \in 0..MaxConns
  /\ limits.maxActive > 0 => readTotal <= limits.maxActive
  /\ scrape = "total" /\ still => readTotal = total
  /\ CountsAddUp

\* A scrape of a Redis pool adds up and keeps to the limits reported beside it,
\* for every size of the pool and all its limits, however it moves between the
\* two reads of go-redis's PoolStats.
THEOREM CountsTheorem == Pool!Spec => []CountsAddUp
<1>1. Pool!Init => PoolInv
  BY PoolAssumption DEF Pool!Init, PoolInv, CountsAddUp, Pool!CountsAddUp
<1>2. PoolInv /\ [Pool!Next]_Pool!vars => PoolInv'
  <2> SUFFICES ASSUME PoolInv, [Pool!Next]_Pool!vars PROVE PoolInv'
    OBVIOUS
  <2>. USE PoolAssumption DEF PoolInv, CountsAddUp, Pool!CountsAddUp
  <2>1. CASE Pool!PoolMoves
    <3>. USE DEF Pool!PoolMoves, Pool!MayOpen, Pool!MayKeep
    <3>1. /\ limits' = limits /\ readTotal' = readTotal /\ seen' = seen /\ scrape' = scrape
          /\ readIdle' = readIdle
      BY <2>1
    <3>2. still' = (still /\ scrape # "total")
      BY <2>1
    <3>3. /\ total' \in 0..MaxConns /\ idle' \in 0..MaxConns /\ idle' <= total'
          /\ limits.maxActive > 0 => total' <= limits.maxActive
      BY <2>1
    <3>4. limits.maxIdle > 0 => idle' <= limits.maxIdle \/ idle' <= limits.minIdle
      BY <2>1
    <3>5. CountsAddUp'
      BY <3>1, <3>2
    <3>. QED
      BY <3>1, <3>2, <3>3, <3>4, <3>5
  <2>2. CASE Pool!Gone
    BY <2>2 DEF Pool!Gone
  <2>3. CASE Pool!ReadTotal
    BY <2>3 DEF Pool!ReadTotal
  <2>4. CASE Pool!ObserveClient
    BY <2>4 DEF Pool!ObserveClient, Pool!ConnectionCounts, Pool!MaxConnections,
                Pool!MaxIdleConnections
  <2>5. CASE UNCHANGED Pool!vars
    BY <2>5 DEF Pool!vars
  <2>. QED
    BY <2>1, <2>2, <2>3, <2>4, <2>5 DEF Pool!Next
<1>3. PoolInv => CountsAddUp
  BY DEF PoolInv
<1>. QED
  BY <1>1, <1>2, <1>3, PTL DEF Pool!Spec

-----------------------------------------------------------------------------
(***************************************************************************)
(* Cassandra's sessions.                                                   *)
(***************************************************************************)

Callers == {<<>>, <<"caller">>}
Instrumented == {Append(orig, "sdk") : orig \in Callers}

\* A session's number is its observer's; the registry has the one of every
\* session its caller holds; a cleanup still due is of a session that is gone.
RegistryInv ==
  /\ cqlMade \in Nat
  /\ heap \in [SessionAddrs -> 0..cqlMade]
  /\ \A a, b \in SessionAddrs : heap[a] # 0 /\ heap[a] = heap[b] => a = b
  /\ own \in Seq(Nat) /\ Len(own) = cqlMade
  /\ \A s \in 1..cqlMade : own[s] \in {0, s}
  /\ pending \subseteq 1..cqlMade
  /\ registry \in [SessionAddrs -> Nat]
  /\ \A a \in SessionAddrs :
       heap[a] # 0 /\ heap[a] \notin pending /\ own[heap[a]] # 0 => registry[a] = own[heap[a]]
  /\ \A c \in cleanups : c[2] \in 1..cqlMade /\ \A a \in SessionAddrs : heap[a] # c[2]
  /\ \A b \in batches : b.session \in 1..cqlMade
  /\ Cql!BatchFindsOwn

\* The caller's config holds the SDK's observer exactly while CreateSession runs.
LayerInv ==
  /\ cqlMade \in Nat
  /\ own \in Seq(Nat) /\ Len(own) = cqlMade
  /\ DOMAIN layers = 1..cqlMade /\ layers \in Seq(Callers \cup Instrumented)
  /\ creating = {} => config \in Callers
  /\ creating # {} => \E orig \in Callers : creating = {orig} /\ config = Append(orig, "sdk")
  /\ \A s \in 1..cqlMade : layers[s] \in IF own[s] = 0 THEN Callers ELSE Instrumented

\* The registry starts right.
LEMMA RegistryInit == Cql!Init => RegistryInv
  BY DEF Cql!Init, RegistryInv, Cql!BatchFindsOwn, Cql!None

\* Every step keeps the registry right.
LEMMA RegistryStep == RegistryInv /\ [Cql!Next]_Cql!vars => RegistryInv'
<1> SUFFICES ASSUME RegistryInv, [Cql!Next]_Cql!vars PROVE RegistryInv'
  OBVIOUS
<1>. USE DEF RegistryInv, Cql!BatchFindsOwn, Cql!None
<1>1. CASE Cql!NewSession
  BY <1>1 DEF Cql!NewSession
<1>2. CASE Cql!CreateFails
  BY <1>2 DEF Cql!CreateFails
<1>3. ASSUME NEW a \in SessionAddrs, Cql!CreateSucceeds(a) PROVE RegistryInv'
  BY <1>3 DEF Cql!CreateSucceeds, Cql!Allocate
<1>4. ASSUME NEW a \in SessionAddrs, Cql!RegisterSession(a) PROVE RegistryInv'
  <2>1. heap[a] \in 1..cqlMade /\ own[heap[a]] \in Nat
    BY <1>4 DEF Cql!RegisterSession
  <2>2. registry' \in [SessionAddrs -> Nat]
    BY <1>4, <2>1 DEF Cql!RegisterSession
  <2>3. ASSUME NEW b \in SessionAddrs,
               heap[b] # 0, heap[b] \notin pending', own[heap[b]] # 0
        PROVE  registry'[b] = own[heap[b]]
    BY <1>4, <2>3 DEF Cql!RegisterSession
  <2>. QED
    BY <1>4, <2>1, <2>2, <2>3 DEF Cql!RegisterSession
<1>5. ASSUME NEW a \in SessionAddrs, Cql!RawSession(a) PROVE RegistryInv'
  BY <1>5 DEF Cql!RawSession, Cql!Allocate
<1>6. ASSUME NEW a \in SessionAddrs, Cql!Collect(a) PROVE RegistryInv'
  BY <1>6 DEF Cql!Collect
<1>7. ASSUME NEW a \in SessionAddrs, Cql!InstrumentBatch(a) PROVE RegistryInv'
  BY <1>7 DEF Cql!InstrumentBatch
<1>8. ASSUME NEW c \in cleanups, Cql!Cleanup(c) PROVE RegistryInv'
  <2>1. registry' \in [SessionAddrs -> Nat]
    BY <1>8 DEF Cql!Cleanup
  <2>2. ASSUME NEW b \in SessionAddrs,
               heap[b] # 0, heap[b] \notin pending, own[heap[b]] # 0
        PROVE  registry'[b] = own[heap[b]]
    <3>1. own[heap[b]] = heap[b] /\ registry[b] = heap[b] /\ c[2] # heap[b]
      BY <1>8, <2>2
    <3>. QED
      BY <1>8, <3>1 DEF Cql!Cleanup
  <2>. QED
    BY <1>8, <2>1, <2>2 DEF Cql!Cleanup
<1>9. ASSUME NEW b \in batches, Cql!BatchEnds(b) PROVE RegistryInv'
  BY <1>9 DEF Cql!BatchEnds
<1>10. CASE UNCHANGED Cql!vars
  BY <1>10 DEF Cql!vars
<1>. QED
  BY <1>1, <1>2, <1>3, <1>4, <1>5, <1>6, <1>7, <1>8, <1>9, <1>10 DEF Cql!Next

\* No session has a layer at first.
LEMMA LayerInit == Cql!Init => LayerInv
  BY DEF Cql!Init, LayerInv, Callers

\* Every step restores or extends the layers as NewSession means.
LEMMA LayerStep == LayerInv /\ [Cql!Next]_Cql!vars => LayerInv'
<1> SUFFICES ASSUME LayerInv, [Cql!Next]_Cql!vars PROVE LayerInv'
  OBVIOUS
<1>. USE DEF LayerInv, Cql!None
<1>1. CASE Cql!NewSession
  BY <1>1 DEF Cql!NewSession, Cql!Chain
<1>2. CASE Cql!CreateFails
  BY <1>2 DEF Cql!CreateFails
<1>3. ASSUME NEW a \in SessionAddrs, Cql!CreateSucceeds(a) PROVE LayerInv'
  <2>1. config \in Instrumented /\ config' \in Callers /\ creating' = {}
    BY <1>3 DEF Cql!CreateSucceeds, Instrumented
  <2>. QED
    BY <1>3, <2>1 DEF Cql!CreateSucceeds, Cql!Allocate
<1>4. ASSUME NEW a \in SessionAddrs, Cql!RegisterSession(a) PROVE LayerInv'
  BY <1>4 DEF Cql!RegisterSession
<1>5. ASSUME NEW a \in SessionAddrs, Cql!RawSession(a) PROVE LayerInv'
  BY <1>5 DEF Cql!RawSession, Cql!Allocate
<1>6. ASSUME NEW a \in SessionAddrs, Cql!Collect(a) PROVE LayerInv'
  BY <1>6 DEF Cql!Collect
<1>7. ASSUME NEW a \in SessionAddrs, Cql!InstrumentBatch(a) PROVE LayerInv'
  BY <1>7 DEF Cql!InstrumentBatch
<1>8. ASSUME NEW c \in cleanups, Cql!Cleanup(c) PROVE LayerInv'
  BY <1>8 DEF Cql!Cleanup
<1>9. ASSUME NEW b \in batches, Cql!BatchEnds(b) PROVE LayerInv'
  BY <1>9 DEF Cql!BatchEnds
<1>10. CASE UNCHANGED Cql!vars
  BY <1>10 DEF Cql!vars
<1>. QED
  BY <1>1, <1>2, <1>3, <1>4, <1>5, <1>6, <1>7, <1>8, <1>9, <1>10 DEF Cql!Next

\* The component's Cardinality is the library's.
LEMMA CqlCardinality == ASSUME NEW S PROVE Cql!Cardinality(S) = Cardinality(S)
  BY DEF Cql!Cardinality, Cardinality

\* A session's layers hold the SDK's observer as often as they should.
LEMMA LayerCount == LayerInv => Cql!OneObserverLayer
<1> SUFFICES ASSUME LayerInv, NEW s \in 1..cqlMade
             PROVE  Cardinality({i \in DOMAIN layers[s] : layers[s][i] = "sdk"})
                      = IF own[s] = 0 THEN 0 ELSE 1
  BY CqlCardinality DEF Cql!OneObserverLayer, Cql!None
<1>. DEFINE At == {i \in DOMAIN layers[s] : layers[s][i] = "sdk"}
<1>1. CASE own[s] = 0
  <2>1. layers[s] \in Callers
    BY <1>1 DEF LayerInv
  <2>2. At = {}
    BY <2>1 DEF Callers
  <2>. QED
    BY <1>1, <2>2, FS_EmptySet
<1>2. CASE own[s] # 0
  <2>1. layers[s] \in Instrumented
    BY <1>2 DEF LayerInv
  <2>2. \E i \in Nat : At = {i}
    <3>1. PICK orig \in Callers : layers[s] = Append(orig, "sdk")
      BY <2>1 DEF Instrumented
    <3>2. At = {Len(orig) + 1}
      BY <3>1 DEF Callers
    <3>3. Len(orig) + 1 \in Nat
      BY DEF Callers
    <3>. QED  BY <3>2, <3>3
  <2>. QED
    BY <1>2, <2>2, FS_Singleton
<1>. QED  BY <1>1, <1>2

\* A batch is recorded by its session's own observer whatever addresses the
\* collector frees and the runtime uses again, and however late a cleanup runs;
\* and no session has the SDK's observer twice.
THEOREM ObserverTheorem == Cql!Spec => []OwnObserver
<1>1. RegistryInv => Cql!BatchFindsOwn
  BY DEF RegistryInv
<1>. QED
  BY <1>1, RegistryInit, RegistryStep, LayerInit, LayerStep, LayerCount, PTL
  DEF Cql!Spec, OwnObserver

-----------------------------------------------------------------------------
(***************************************************************************)
(* Redis: Wrap, Unwrap and the cleanups.                                   *)
(***************************************************************************)

Holding == {"locked", "name", "register", "install", "commit"}

CallRec ==
  [op : {"none", "wrap", "unwrap"}, client : Clients \cup {Nobody},
   name : Chosen \cup {Nobody}, pc : {"idle", "load", "lock"} \cup Holding,
   entry : Entries \cup {Nobody}, alone : BOOLEAN]

CleanupRec == [pc : {"none", "load", "lock", "locked", "done"}, entry : Entries \cup {Nobody}]

RedisType ==
  /\ redisHeap \in [Clients -> {"free", "live", "dead"}]
  /\ redisWrapped \in [ClientAddrs -> Entries \cup {Nobody}]
  /\ entry \in [Entries -> Redis!EntryRec \cup {Nobody}]
  /\ held \in [Redis!Names -> Int]
  /\ redisHooks \in [Clients -> SUBSET Entries]
  /\ call \in [Threads -> CallRec]
  /\ cleanup \in [Entries -> CleanupRec]
  /\ redisCalls \in Nat
  /\ sure \subseteq Clients

\* At an address lives one client at a time.
OneAtAddress ==
  \A c, d \in Clients :
    redisHeap[c] = "live" /\ redisHeap[d] = "live" /\ AddrOf[c] = AddrOf[d] => c = d

\* A call keeps its client from the collector.
CallsLive ==
  \A t \in Threads :
    /\ call[t].op = "none" => call[t] = Redis!NoCall
    /\ call[t].op # "none" =>
         call[t].pc # "idle" /\ call[t].client \in Clients /\ redisHeap[call[t].client] = "live"

\* Only Wrap goes on once it has looked at the entry.
UnwrapShort ==
  \A t \in Threads : call[t].op = "unwrap" => call[t].pc \in {"load", "lock", "locked"}

\* The client of an entry was allocated, and is gone when its cleanup is queued.
EntryClients ==
  /\ \A e \in Redis!Used : redisHeap[entry[e].client] # "free"
  /\ \A e \in Entries :
       cleanup[e].pc # "none" => e \in Redis!Used /\ redisHeap[entry[e].client] = "dead"

\* Whatever refers to an entry refers to one that was allocated: the map and a
\* call to one for a client at their address, ...
MapRefs ==
  \A a \in ClientAddrs :
    redisWrapped[a] # Nobody =>
      redisWrapped[a] \in Redis!Used /\ AddrOf[entry[redisWrapped[a]].client] = a
CallRefs ==
  \A t \in Threads :
    call[t].pc \notin {"idle", "load"} =>
      /\ call[t].entry \in Redis!Used
      /\ AddrOf[entry[call[t].entry].client] = AddrOf[call[t].client]
\* ... a cleanup, and a hook to one for its own client.
OtherRefs ==
  /\ \A e \in Entries : cleanup[e].pc \in {"lock", "locked"} => cleanup[e].entry \in Redis!Used
  /\ \A c \in Clients : \A e \in redisHooks[c] : e \in Redis!Used /\ entry[e].client = c

\* The mutex of an entry is whose the program counters say.
MutexInv ==
  /\ \A t \in Threads : call[t].pc \in Holding => entry[call[t].entry].mu = t
  /\ \A e \in Entries : cleanup[e].pc = "locked" => entry[cleanup[e].entry].mu = e

\* An entry is in the map until it is disabled.
InMap ==
  \A e \in Redis!Used : entry[e].disabled <=> redisWrapped[AddrOf[entry[e].client]] # e

\* One that is disabled holds nothing; one that is committed has everything; and
\* one nobody works on that is neither has nothing yet.
EntryStatus ==
  \A e \in Redis!Used :
    /\ entry[e].disabled => ~entry[e].reg /\ entry[e].poolName = Nobody
    /\ entry[e].done /\ ~entry[e].disabled =>
         entry[e].reg /\ entry[e].gc = "armed" /\ e \in redisHooks[entry[e].client]
    /\ ~entry[e].done /\ entry[e].mu \notin Threads =>
         ~entry[e].reg /\ entry[e].poolName = Nobody

\* In between it has what its Wrap has got for it.
WrapStatus ==
  \A t \in Threads :
    LET x == entry[call[t].entry]
    IN  /\ call[t].pc \in Holding \ {"locked"} =>
             ~x.disabled /\ ~x.done /\ x.client = call[t].client
        /\ call[t].pc \in {"name", "locked"} /\ ~x.done => x.poolName = Nobody
        /\ call[t].pc \in {"name", "register", "locked"} /\ ~x.done => ~x.reg
        /\ call[t].pc \in {"install", "commit"} => x.reg
        /\ call[t].pc = "commit" => call[t].entry \in redisHooks[call[t].client]

\* A client in sure is wrapped, and no Unwrap of it is under way, nor of the
\* client of a Wrap that is still alone.
SureWrapped ==
  \A c \in sure :
    LET e == redisWrapped[AddrOf[c]]
    IN  e # Nobody /\ Redis!Matches(e, c) /\ entry[e].done
SureAlone ==
  \A t, u \in Threads :
    call[t].op = "unwrap" =>
      /\ call[t].client \notin sure
      /\ call[u].op = "wrap" /\ call[u].client = call[t].client => ~call[u].alone

\* Somebody is still to commit or discard an entry in the map that is not
\* committed; and a cleanup to discard one whose client is gone.
CommitDue ==
  \A e \in Redis!Used :
    ~entry[e].disabled /\ ~entry[e].done =>
      \E t \in Threads :
        call[t].op = "wrap" /\ call[t].entry = e /\ call[t].pc \in {"lock"} \cup Holding
CleanupDue ==
  \A e \in Redis!Used :
    ~entry[e].disabled /\ redisHeap[entry[e].client] = "dead" =>
      \/ cleanup[e].pc = "load"
      \/ cleanup[e].pc \in {"lock", "locked"} /\ cleanup[e].entry = e

RedisInv ==
  /\ RedisType
  /\ OneAtAddress /\ CallsLive /\ UnwrapShort /\ EntryClients
  /\ MapRefs /\ CallRefs /\ OtherRefs
  /\ MutexInv /\ InMap /\ EntryStatus /\ WrapStatus
  /\ SureWrapped /\ SureAlone
  /\ CommitDue /\ CleanupDue
  /\ Redis!NamesAccounted

\* The initial state has its types.
LEMMA RedisInitType == Redis!Init => RedisType
  BY RedisAssumption DEF Redis!Init, RedisType, CallRec, CleanupRec, Redis!NoCall

\* The component's Cardinality is the library's.
LEMMA RedisCardinality == ASSUME NEW S PROVE Redis!Cardinality(S) = Cardinality(S)
  BY DEF Redis!Cardinality, Cardinality

\* A step that gives no name and takes none back keeps the account of the names;
\* an entry it makes has no name yet.
LEMMA NamesKept ==
  ASSUME Redis!NamesAccounted, held' = held, Redis!Used \subseteq Redis!Used',
         \A e \in Redis!Used : entry'[e].poolName = entry[e].poolName,
         \A e \in Redis!Used' \ Redis!Used : entry'[e].poolName = Nobody
  PROVE  Redis!NamesAccounted'
<1>1. \A n \in Redis!Names :
        {e \in Redis!Used' : entry'[e].poolName = n} = {e \in Redis!Used : entry[e].poolName = n}
  BY RedisAssumption
<1>. QED
  BY <1>1 DEF Redis!NamesAccounted

\* What detach, CompareAndDelete and Unlock do to the entry and to the map.
LEMMA DiscardType ==
  ASSUME RedisType, NEW e \in Redis!Used, Redis!Discard(e)
  PROVE  /\ entry' \in [Entries -> Redis!EntryRec \cup {Nobody}]
         /\ redisWrapped' \in [ClientAddrs -> Entries \cup {Nobody}]
         /\ held' \in [Redis!Names -> Int]
         /\ Redis!Used' = Redis!Used
         /\ \A f \in Entries \ {e} : entry'[f] = entry[f]
         /\ entry'[e].client = entry[e].client /\ entry'[e].done = entry[e].done
         /\ entry'[e].disabled /\ ~entry'[e].reg /\ entry'[e].poolName = Nobody
         /\ entry'[e].mu = Nobody
         /\ \A a \in ClientAddrs :
              redisWrapped'[a] = IF a = AddrOf[entry[e].client] /\ redisWrapped[a] = e
                                 THEN Nobody ELSE redisWrapped[a]
<1>. DEFINE x == entry[e]
            y == [Redis!Detach(x) EXCEPT !.mu = Nobody]
<1>1. e \in Entries /\ x \in Redis!EntryRec
  BY DEF RedisType, Redis!Used, Redis!Unused
<1>2. y \in Redis!EntryRec /\ y.client = x.client /\ y.done = x.done
      /\ y.disabled /\ ~y.reg /\ y.poolName = Nobody /\ y.mu = Nobody
  BY <1>1 DEF Redis!Detach, Redis!EntryRec
<1>3. entry' = [entry EXCEPT ![e] = y]
  BY DEF Redis!Discard
<1>. HIDE DEF y
<1>4. entry' \in [Entries -> Redis!EntryRec \cup {Nobody}]
      /\ entry'[e] = y /\ \A f \in Entries \ {e} : entry'[f] = entry[f]
  BY <1>1, <1>2, <1>3 DEF RedisType
<1>5. Redis!Used' = Redis!Used
  BY <1>1, <1>2, <1>4, RedisAssumption DEF Redis!Used, Redis!Unused
<1>6. AddrOf[x.client] \in ClientAddrs
  BY <1>1, RedisAssumption DEF Redis!EntryRec
<1>7. redisWrapped' = IF redisWrapped[AddrOf[x.client]] = e
                      THEN [redisWrapped EXCEPT ![AddrOf[x.client]] = Nobody] ELSE redisWrapped
  BY DEF Redis!Discard
<1>8. held' \in [Redis!Names -> Int]
  BY <1>1 DEF Redis!Discard, Redis!Release, RedisType, Redis!EntryRec
<1>. QED
  BY <1>1, <1>2, <1>4, <1>5, <1>6, <1>7, <1>8 DEF RedisType

\* An entry that was allocated is a wrapEntry, of a client with an address.
LEMMA UsedEntry ==
  ASSUME RedisType, NEW e \in Redis!Used
  PROVE  e \in Entries /\ entry[e] \in Redis!EntryRec /\ AddrOf[entry[e].client] \in ClientAddrs
  BY RedisAssumption DEF RedisType, Redis!Used, Redis!Unused, Redis!EntryRec

PCs == {"idle", "load", "lock"} \cup Holding

\* The effect of a step on the calls: goroutine t goes to p, with entry e; or returns.
Moves(t, p, e) ==
  /\ call' \in [Threads -> CallRec]
  /\ call'[t].op = call[t].op /\ call'[t].client = call[t].client
  /\ call'[t].name = call[t].name /\ call'[t].alone = call[t].alone
  /\ call'[t].pc = p /\ call'[t].entry = e
  /\ \A u \in Threads \ {t} : call'[u] = call[u]

Returns(t) ==
  /\ call' \in [Threads -> CallRec]
  /\ call'[t] = Redis!NoCall
  /\ \A u \in Threads \ {t} : call'[u] = call[u]

\* Names are counted over finite sets.
LEMMA NamedFinite == ASSUME NEW n PROVE IsFiniteSet({e \in Redis!Used : entry[e].poolName = n})
<1>1. {e \in Redis!Used : entry[e].poolName = n} \subseteq Entries
  BY DEF Redis!Used
<1>. QED
  BY <1>1, FS_Subset, RedisAssumption

\* Every set of numbers has a least one.
LEMMA LeastNumber ==
  ASSUME NEW S, S \subseteq Nat, S # {} PROVE \E m \in S : \A k \in S : m <= k
<1>1. \A k, m \in Nat : k < m => <<k, m>> \in OpToRel(<, Nat)
  BY Zenon DEF OpToRel
<1>2. PICK m \in S : \A k \in S : <<k, m>> \notin OpToRel(<, Nat)
  BY NatLessThanWellFounded, WFMin, Zenon
<1>3. \A k \in S : ~(k < m)
  BY <1>1, <1>2, Zenon
<1>. QED
  BY <1>3

\* The lowest free number is free.
LEMMA AcquireFree ==
  ASSUME NEW n \in 1..MaxName, Redis!Free(n)
  PROVE  Redis!Acquire \in 1..MaxName /\ Redis!Free(Redis!Acquire)
<1>. DEFINE S == {m \in 1..MaxName : Redis!Free(m)}
<1>1. S \subseteq Nat /\ S # {}
  OBVIOUS
<1>2. PICK m \in S : \A k \in S : m <= k
  BY <1>1, LeastNumber
<1>3. \A k \in 1..(m - 1) : ~Redis!Free(k)
  BY <1>2, RedisAssumption
<1>. QED
  BY <1>2, <1>3 DEF Redis!Acquire

\* What a goroutine that makes no call has.
LEMMA NoCallFields ==
  /\ Redis!NoCall \in CallRec
  /\ Redis!NoCall.op = "none" /\ Redis!NoCall.pc = "idle" /\ Redis!NoCall.client = Nobody
  BY DEF Redis!NoCall, CallRec

\* What is known of every entry that was allocated and every client in sure.
Typed ==
  /\ \A f \in Redis!Used :
       f \in Entries /\ entry[f].client \in Clients /\ AddrOf[entry[f].client] \in ClientAddrs
  /\ \A d \in sure : d \in Clients /\ AddrOf[d] \in ClientAddrs

\* What a goroutine that has an entry's mutex knows.
Holds(t) ==
  LET e == call[t].entry
      c == call[t].client
  IN  /\ call[t].op # "none" /\ c \in Clients /\ redisHeap[c] = "live" /\ AddrOf[c] \in ClientAddrs
      /\ e \in Redis!Used /\ e \in Entries /\ entry[e] \in Redis!EntryRec
      /\ AddrOf[entry[e].client] = AddrOf[c] /\ entry[e].mu = t
      /\ \A u \in Threads \ {t} : call[u].pc \in Holding => call[u].entry # e

\* The types of what the map, the calls and sure refer to.
LEMMA TypedLemma == ASSUME RedisInv PROVE Typed
  BY UsedEntry, RedisAssumption DEF Typed, RedisInv, RedisType, Redis!EntryRec

\* Nobody else has the mutex, and the client stays.
LEMMA HoldsLemma ==
  ASSUME RedisInv, NEW t \in Threads, call[t].pc \in Holding PROVE Holds(t)
<1>. USE DEF RedisInv
<1>1. call[t].op # "none" /\ call[t].client \in Clients /\ redisHeap[call[t].client] = "live"
  BY NoCallFields DEF CallsLive, Holding
<1>2. call[t].entry \in Redis!Used /\ AddrOf[entry[call[t].entry].client] = AddrOf[call[t].client]
  BY DEF CallRefs, Holding
<1>3. /\ entry[call[t].entry].mu = t
      /\ \A u \in Threads \ {t} : call[u].pc \in Holding => call[u].entry # call[t].entry
  BY DEF MutexInv
<1>4. call[t].entry \in Entries /\ entry[call[t].entry] \in Redis!EntryRec
  BY <1>2, UsedEntry
<1>. QED
  BY <1>1, <1>2, <1>3, <1>4, RedisAssumption DEF Holds

\* A goroutine that goes on moves and nothing else of its call changes.
LEMMA GotoMoves ==
  ASSUME RedisType, NEW t \in Threads, NEW p \in PCs, Redis!Goto(t, p)
  PROVE  Moves(t, p, call[t].entry)
<1>. DEFINE y == [call[t] EXCEPT !.pc = p]
<1>1. y \in CallRec /\ y.op = call[t].op /\ y.client = call[t].client /\ y.name = call[t].name
      /\ y.alone = call[t].alone /\ y.entry = call[t].entry /\ y.pc = p
  BY SMTT(60) DEF RedisType, CallRec, PCs
<1>2. call' = [call EXCEPT ![t] = y]
  BY DEF Redis!Goto
<1>. HIDE DEF y
<1>. QED
  BY <1>1, <1>2 DEF RedisType, Moves

\* A goroutine that found or made an entry goes on with it.
LEMMA FoundMoves ==
  ASSUME RedisType, NEW t \in Threads, NEW p \in PCs, NEW e \in Entries,
         call' = [call EXCEPT ![t].pc = p, ![t].entry = e]
  PROVE  Moves(t, p, e)
<1>. DEFINE y == [call[t] EXCEPT !.pc = p, !.entry = e]
<1>1. y \in CallRec /\ y.op = call[t].op /\ y.client = call[t].client /\ y.name = call[t].name
      /\ y.alone = call[t].alone /\ y.entry = e /\ y.pc = p
  BY ZenonT(60) DEF RedisType, CallRec, PCs
<1>2. call' = [call EXCEPT ![t] = y]
  OBVIOUS
<1>. HIDE DEF y
<1>. QED
  BY <1>1, <1>2 DEF RedisType, Moves

\* A goroutine that returns makes no call.
LEMMA ReturnReturns ==
  ASSUME RedisType, NEW t \in Threads, Redis!Return(t)
  PROVE  Returns(t)
<1>. QED
  BY NoCallFields DEF Redis!Return, RedisType, Returns

\* A goroutine that moves keeps its client.
LEMMA MovesLive ==
  ASSUME CallsLive, NEW t \in Threads, NEW p, NEW e, Moves(t, p, e),
         call[t].op # "none", p # "idle", redisHeap' = redisHeap
  PROVE  CallsLive'
<1>1. /\ \A u \in Threads \ {t} : call'[u] = call[u]
      /\ call'[t].op = call[t].op /\ call'[t].pc = p /\ call'[t].client = call[t].client
  BY DEF Moves
<1>. QED
  BY <1>1 DEF CallsLive

\* A goroutine that returns keeps nothing.
LEMMA ReturnsLive ==
  ASSUME CallsLive, NEW t \in Threads, Returns(t), redisHeap' = redisHeap
  PROVE  CallsLive'
<1>1. (\A u \in Threads \ {t} : call'[u] = call[u]) /\ call'[t] = Redis!NoCall
  BY DEF Returns
<1>. QED
  BY <1>1, NoCallFields DEF CallsLive

\* The effect of a step on entry e that leaves the map alone.
Updates(e) ==
  /\ entry' \in [Entries -> Redis!EntryRec \cup {Nobody}]
  /\ Redis!Used' = Redis!Used
  /\ \A f \in Entries \ {e} : entry'[f] = entry[f]
  /\ entry'[e].client = entry[e].client /\ entry'[e].disabled = entry[e].disabled

\* The mutex of entry e goes to m, and the entry stays as it is otherwise.
Passes(e, m) ==
  /\ Updates(e)
  /\ entry'[e].done = entry[e].done /\ entry'[e].reg = entry[e].reg
  /\ entry'[e].poolName = entry[e].poolName /\ entry'[e].gc = entry[e].gc
  /\ entry'[e].mu = m

\* A record written over an entry is the entry from then on.
LEMMA UpdateLemma ==
  ASSUME RedisType, NEW e \in Redis!Used, NEW y \in Redis!EntryRec,
         y.client = entry[e].client, y.disabled = entry[e].disabled,
         entry' = [entry EXCEPT ![e] = y]
  PROVE  Updates(e) /\ entry'[e] = y
<1>1. e \in Entries /\ entry[e] # Nobody
  BY DEF Redis!Used, Redis!Unused
<1>2. entry' \in [Entries -> Redis!EntryRec \cup {Nobody}]
      /\ entry'[e] = y /\ \A f \in Entries \ {e} : entry'[f] = entry[f]
  BY <1>1 DEF RedisType
<1>3. Redis!Used' = Redis!Used
  BY <1>1, <1>2, RedisAssumption DEF Redis!Used, Redis!Unused
<1>. QED
  BY <1>1, <1>2, <1>3 DEF Updates

\* Lock and Unlock change the mutex and nothing else.
LEMMA PassLemma ==
  ASSUME RedisType, NEW e \in Redis!Used, NEW m \in Threads \cup Entries \cup {Nobody},
         entry' = [entry EXCEPT ![e].mu = m]
  PROVE  Passes(e, m)
<1>. DEFINE x == entry[e]
            y == [x EXCEPT !.mu = m]
<1>1. x \in Redis!EntryRec
  BY UsedEntry
<1>2. y \in Redis!EntryRec /\ y.client = x.client /\ y.done = x.done /\ y.disabled = x.disabled
      /\ y.reg = x.reg /\ y.poolName = x.poolName /\ y.gc = x.gc /\ y.mu = m
  BY <1>1 DEF Redis!EntryRec
<1>3. entry' = [entry EXCEPT ![e] = y]
  OBVIOUS
<1>. HIDE DEF y
<1>4. Updates(e) /\ entry'[e] = y
  BY <1>2, <1>3, UpdateLemma
<1>. QED
  BY <1>2, <1>4 DEF Passes

\* Wrap is called.
LEMMA BeginWrapStep ==
  ASSUME RedisInv, NEW t \in Threads, NEW c \in Clients, NEW n \in Chosen \cup {Nobody},
        Redis!BeginWrap(t, c, n)
  PROVE  RedisInv'
<1>. USE RedisAssumption DEF RedisInv
<1>. USE NoCallFields, NoCallFields DEF RedisType, CallRec, CleanupRec, Holding, Redis!Used,
    Redis!Unused, Redis!BeginWrap
<1>t. RedisType'
  BY NoCallFields DEF RedisType
<1>i1. OneAtAddress' /\ CallsLive' /\ UnwrapShort' /\ EntryClients'
  BY DEF OneAtAddress, CallsLive, UnwrapShort, EntryClients
<1>i2. MapRefs' /\ CallRefs' /\ OtherRefs' /\ MutexInv'
  BY SMTT(60) DEF MapRefs, CallRefs, OtherRefs, MutexInv
<1>i3. InMap' /\ EntryStatus' /\ WrapStatus'
  BY SMTT(60) DEF InMap, MapRefs, EntryStatus, WrapStatus, CallRefs
<1>i4. SureWrapped' /\ SureAlone'
  BY SMTT(60) DEF SureWrapped, MapRefs, Redis!Matches, Redis!Alive, SureAlone
<1>i5. CommitDue' /\ CleanupDue'
  BY SMTT(60) DEF CommitDue, CallRefs, CleanupDue
<1>n. Redis!NamesAccounted'
  BY NamesKept
<1>. QED
  BY ONLY <1>t, <1>i1, <1>i2, <1>i3, <1>i4, <1>i5, <1>n DEF RedisInv

\* Unwrap is called: a Wrap of the client under way is no longer alone.
LEMMA BeginUnwrapStep ==
  ASSUME RedisInv, NEW t \in Threads, NEW c \in Clients, Redis!BeginUnwrap(t, c)
  PROVE  RedisInv'
<1>. USE RedisAssumption DEF RedisInv
<1>1. \A u \in Threads :
        call[u] \in CallRec /\ [call[u] EXCEPT !.alone = FALSE] \in CallRec
  BY ZenonT(60) DEF RedisType, CallRec
<1>2. [Redis!NoCall EXCEPT !.op = "unwrap", !.client = c, !.pc = "load"] \in CallRec
  BY DEF Redis!NoCall, CallRec
<1>. USE RedisAssumption, NoCallFields DEF RedisType, CallRec, CleanupRec, Holding, Redis!Used,
    Redis!Unused, Moves, Returns, Redis!BeginUnwrap
<1>t. RedisType'
  BY <1>1, <1>2 DEF RedisType
<1>i1. OneAtAddress' /\ CallsLive' /\ UnwrapShort' /\ EntryClients'
  BY DEF OneAtAddress, CallsLive, UnwrapShort, EntryClients
<1>i2. MapRefs' /\ CallRefs' /\ OtherRefs' /\ MutexInv'
  BY SMTT(60) DEF MapRefs, CallRefs, OtherRefs, MutexInv
<1>i3. InMap' /\ EntryStatus' /\ WrapStatus'
  BY SMTT(60) DEF InMap, MapRefs, EntryStatus, WrapStatus, CallRefs
<1>i4. SureWrapped' /\ SureAlone'
  BY SMTT(60) DEF SureWrapped, MapRefs, Redis!Matches, Redis!Alive, SureAlone
<1>i5. CommitDue' /\ CleanupDue'
  BY SMTT(60) DEF CommitDue, CallRefs, CleanupDue
<1>n. Redis!NamesAccounted'
  BY NamesKept
<1>. QED
  BY ONLY <1>t, <1>i1, <1>i2, <1>i3, <1>i4, <1>i5, <1>n DEF RedisInv

\* Unwrap looks into the map.
LEMMA UnwrapLoadStep ==
  ASSUME RedisInv, NEW t \in Threads, Redis!UnwrapLoad(t)
  PROVE  RedisInv'
<1>. USE RedisAssumption DEF RedisInv
<1>. DEFINE e == redisWrapped[AddrOf[call[t].client]]
<1>1. /\ call[t].op = "unwrap" /\ call[t].pc = "load" /\ call[t].client \in Clients
      /\ AddrOf[call[t].client] \in ClientAddrs /\ e \in Entries \cup {Nobody}
      /\ UNCHANGED <<redisHeap, redisWrapped, entry, held, redisHooks, cleanup, redisCalls, sure>>
  BY DEF Redis!UnwrapLoad, Redis!At, CallsLive, RedisType
<1>2. Redis!Used' = Redis!Used
  BY <1>1 DEF Redis!Used, Redis!Unused
<1>0. Returns(t) \/ (e # Nobody /\ Moves(t, "lock", e))
  <2>1. CASE e = Nobody
    <3>1. Redis!Return(t)
      BY <2>1 DEF Redis!UnwrapLoad
    <3>. QED  BY <3>1, ReturnReturns
  <2>2. CASE e # Nobody
    <3>1. e \in Entries /\ call' = [call EXCEPT ![t].pc = "lock", ![t].entry = e]
      BY <1>1, <2>2 DEF Redis!UnwrapLoad
    <3>2. "lock" \in PCs
      BY DEF PCs
    <3>. QED  BY <2>2, <3>1, <3>2, FoundMoves
  <2>. QED  BY <2>1, <2>2
<1>. USE <1>0, <1>1, <1>2, NoCallFields DEF Holding, Moves, Returns
<1>t. RedisType'
  BY DEF RedisType
<1>i1. OneAtAddress' /\ UnwrapShort' /\ EntryClients'
  BY DEF OneAtAddress, UnwrapShort, EntryClients
<1>i2. MapRefs' /\ CallRefs' /\ OtherRefs' /\ MutexInv'
  BY SMTT(60) DEF MapRefs, CallRefs, CallsLive, OtherRefs, MutexInv
<1>i3. InMap' /\ EntryStatus' /\ WrapStatus'
  BY SMTT(60) DEF InMap, MapRefs, EntryStatus, WrapStatus, CallRefs
<1>i4. SureWrapped' /\ SureAlone'
  BY SMTT(60) DEF SureWrapped, MapRefs, Redis!Matches, Redis!Alive, SureAlone
<1>i5. CommitDue' /\ CleanupDue'
  BY SMTT(60) DEF CommitDue, CallRefs, CleanupDue
<1>i6. CallsLive'
  BY <1>0, <1>1, MovesLive, ReturnsLive
<1>n. Redis!NamesAccounted'
  BY NamesKept
<1>. QED
  BY ONLY <1>t, <1>i1, <1>i2, <1>i3, <1>i4, <1>i5, <1>i6, <1>n DEF RedisInv

\* LoadOrStore finds an entry.
LEMMA FoundStep ==
  ASSUME RedisInv, NEW t \in Threads, Redis!LoadOrStore(t),
        redisWrapped[AddrOf[call[t].client]] # Nobody
  PROVE  RedisInv'
<1>. USE RedisAssumption DEF RedisInv
<1>. DEFINE e == redisWrapped[AddrOf[call[t].client]]
<1>1. /\ call[t].op = "wrap" /\ call[t].pc = "load" /\ call[t].client \in Clients
      /\ AddrOf[call[t].client] \in ClientAddrs /\ e \in Entries
      /\ UNCHANGED <<redisHeap, redisWrapped, entry, held, redisHooks, cleanup, redisCalls, sure>>
      /\ call' = [call EXCEPT ![t].pc = "lock", ![t].entry = e]
  BY DEF Redis!LoadOrStore, Redis!At, CallsLive, RedisType
<1>2. "lock" \in PCs
  BY DEF PCs
<1>3. Redis!Used' = Redis!Used
  BY <1>1 DEF Redis!Used, Redis!Unused
<1>0. Moves(t, "lock", e)
  BY <1>1, <1>2, FoundMoves
<1>. USE <1>0, <1>1, <1>3, NoCallFields DEF Holding, Moves
<1>t. RedisType'
  BY DEF RedisType
<1>i1. OneAtAddress' /\ UnwrapShort' /\ EntryClients'
  BY DEF OneAtAddress, UnwrapShort, EntryClients
<1>i2. MapRefs' /\ CallRefs' /\ OtherRefs' /\ MutexInv'
  <2>1. MapRefs'
    BY SMTT(60) DEF MapRefs
  <2>2. CallRefs'
    BY SMTT(60) DEF MapRefs, CallRefs, CallsLive
  <2>3. OtherRefs'
    BY SMTT(60) DEF OtherRefs
  <2>4. MutexInv'
    BY SMTT(60) DEF CallRefs, MutexInv
  <2>. QED
    BY ONLY <2>1, <2>2, <2>3, <2>4
<1>i3. InMap' /\ EntryStatus' /\ WrapStatus'
  BY ZenonT(60) DEF InMap, MapRefs, EntryStatus, WrapStatus, CallRefs
<1>i4. SureWrapped' /\ SureAlone'
  BY SMTT(60) DEF SureWrapped, MapRefs, Redis!Matches, Redis!Alive, SureAlone
<1>i5. CommitDue' /\ CleanupDue'
  BY SMTT(60) DEF CommitDue, CallRefs, CleanupDue
<1>i6. CallsLive'
  BY <1>0, <1>1, MovesLive
<1>n. Redis!NamesAccounted'
  BY NamesKept
<1>. QED
  BY ONLY <1>t, <1>i1, <1>i2, <1>i3, <1>i4, <1>i5, <1>i6, <1>n DEF RedisInv

\* LoadOrStore stores a fresh entry.
LEMMA StoredStep ==
  ASSUME RedisInv, NEW t \in Threads, Redis!LoadOrStore(t),
        redisWrapped[AddrOf[call[t].client]] = Nobody
  PROVE  RedisInv'
<1>. USE RedisAssumption DEF RedisInv
<1>. DEFINE e == Redis!Fresh
            c == call[t].client
            y == Redis!NewEntry(c)
<1>1. /\ call[t].op = "wrap" /\ call[t].pc = "load" /\ c \in Clients
      /\ redisHeap[c] = "live" /\ AddrOf[c] \in ClientAddrs
      /\ redisWrapped[AddrOf[c]] = Nobody
      /\ UNCHANGED <<redisHeap, held, redisHooks, cleanup, redisCalls, sure>>
      /\ call' = [call EXCEPT ![t].pc = "lock", ![t].entry = e]
      /\ entry' = [entry EXCEPT ![e] = y]
      /\ redisWrapped' = [redisWrapped EXCEPT ![AddrOf[c]] = e]
      /\ Redis!Unused # {}
  BY DEF Redis!LoadOrStore, Redis!At, CallsLive, RedisType
<1>2. e \in Entries /\ entry[e] = Nobody
  BY <1>1 DEF Redis!Fresh, Redis!Unused
<1>3. y \in Redis!EntryRec /\ y.client = c /\ ~y.done /\ ~y.disabled /\ ~y.reg
      /\ y.poolName = Nobody /\ y.mu = Nobody
  BY <1>1 DEF Redis!NewEntry, Redis!EntryRec
<1>. HIDE DEF e, y
<1>4. /\ entry' \in [Entries -> Redis!EntryRec \cup {Nobody}] /\ entry'[e] = y
      /\ \A f \in Entries \ {e} : entry'[f] = entry[f]
  BY <1>1, <1>2, <1>3 DEF RedisType
<1>5. Redis!Used' = Redis!Used \cup {e} /\ e \notin Redis!Used
  BY <1>2, <1>3, <1>4 DEF Redis!Used, Redis!Unused
<1>6. "lock" \in PCs
  BY DEF PCs
<1>0. Moves(t, "lock", e)
  BY <1>1, <1>2, <1>6, FoundMoves
<1>7. \A f \in Redis!Used : f \in Entries /\ f # e /\ entry'[f] = entry[f]
                         /\ entry[f].client \in Clients
         /\ AddrOf[entry[f].client] \in ClientAddrs
  BY <1>4, <1>5, UsedEntry DEF Redis!EntryRec
<1>. USE <1>0, <1>1, <1>2, <1>3, <1>4, <1>5, <1>7, NoCallFields DEF RedisType, CallRec, CleanupRec,
    Holding, Moves, Returns
<1>t. RedisType'
  BY DEF RedisType
<1>i1. OneAtAddress' /\ UnwrapShort' /\ EntryClients'
  BY DEF OneAtAddress, UnwrapShort, EntryClients
<1>i2. MapRefs' /\ CallRefs' /\ OtherRefs' /\ MutexInv'
  BY SMTT(60) DEF MapRefs, CallRefs, OtherRefs, MutexInv
<1>i3. InMap' /\ EntryStatus' /\ WrapStatus'
  BY SMTT(60) DEF InMap, MapRefs, EntryStatus, WrapStatus, CallRefs
<1>i4. SureWrapped' /\ SureAlone'
  BY SMTT(60) DEF SureWrapped, MapRefs, Redis!Matches, Redis!Alive, SureAlone
<1>i5. CommitDue' /\ CleanupDue'
  BY SMTT(60) DEF CommitDue, CallRefs, CleanupDue
<1>i6. CallsLive'
  BY <1>0, <1>1, MovesLive, SMTT(60)
<1>n. Redis!NamesAccounted'
  BY NamesKept
<1>. QED
  BY ONLY <1>t, <1>i1, <1>i2, <1>i3, <1>i4, <1>i5, <1>i6, <1>n DEF RedisInv

\* Wrap or Unwrap locks the entry.
LEMMA LockStep ==
  ASSUME RedisInv, NEW t \in Threads, Redis!Lock(t)
  PROVE  RedisInv'
<1>. USE RedisAssumption DEF RedisInv
<1>. DEFINE e == call[t].entry
<1>1. /\ call[t].pc = "lock" /\ call[t] \in CallRec /\ call[t].op # "none"
      /\ e \in Redis!Used /\ e \in Entries /\ entry[e].mu = Nobody /\ Nobody \notin Threads
      /\ UNCHANGED <<redisHeap, redisWrapped, held, redisHooks, cleanup, redisCalls, sure>>
  BY UsedEntry, NoCallFields DEF Redis!Lock, CallsLive, CallRefs, RedisType
<1>. USE DEF Typed
<1>u. Typed
  BY TypedLemma
<1>2. Passes(e, t)
  BY <1>1, PassLemma DEF Redis!Lock
<1>3. "locked" \in PCs
  BY DEF PCs, Holding
<1>0. Moves(t, "locked", e)
  BY <1>3, GotoMoves DEF Redis!Lock
<1>. USE <1>0, <1>1, <1>2, <1>u, NoCallFields DEF Holding, Moves, Returns, Updates, Passes
<1>t. RedisType'
  BY DEF RedisType
<1>i1. OneAtAddress' /\ UnwrapShort' /\ EntryClients'
  BY DEF OneAtAddress, UnwrapShort, EntryClients
<1>i2. MapRefs' /\ CallRefs' /\ OtherRefs' /\ MutexInv'
  BY SMTT(60) DEF MapRefs, CallRefs, OtherRefs, MutexInv
<1>i3. InMap' /\ EntryStatus' /\ WrapStatus'
  BY SMTT(60) DEF InMap, MapRefs, EntryStatus, WrapStatus, CallRefs
<1>i4. SureWrapped' /\ SureAlone'
  BY SMTT(60) DEF SureWrapped, MapRefs, Redis!Matches, Redis!Alive, SureAlone
<1>i5. CommitDue' /\ CleanupDue'
  BY SMTT(60) DEF CommitDue, CallRefs, CleanupDue
<1>i6. CallsLive'
  BY <1>0, <1>1, MovesLive
<1>n. Redis!NamesAccounted'
  BY NamesKept
<1>. QED
  BY ONLY <1>t, <1>i1, <1>i2, <1>i3, <1>i4, <1>i5, <1>i6, <1>n DEF RedisInv

\* Check: the entry is not in the map any more.
LEMMA CheckOrphan ==
  ASSUME RedisInv, NEW t \in Threads, Redis!Check(t), redisWrapped[AddrOf[call[t].client]] #
        call[t].entry
  PROVE  RedisInv'
<1>. USE RedisAssumption DEF RedisInv
<1>. DEFINE e == call[t].entry
<1>. USE DEF Holds
<1>1. /\ Holds(t) /\ call[t].op = "wrap" /\ call[t].pc = "locked"
      /\ UNCHANGED <<redisHeap, redisHooks, cleanup, redisCalls>>
  BY HoldsLemma DEF Redis!Check, Redis!At, Holding
<1>. USE DEF Typed
<1>u. Typed
  BY TypedLemma
<1>2. Passes(e, Nobody)
  <2>1. Redis!Unlock(e)
    BY DEF Redis!Check
  <2>. QED  BY <1>1, <2>1, PassLemma DEF Redis!Unlock
<1>3. "load" \in PCs /\ Redis!Goto(t, "load") /\ UNCHANGED <<redisWrapped, held, sure>>
  BY DEF PCs, Redis!Check
<1>0. Moves(t, "load", e)
  BY <1>3, GotoMoves
<1>. USE <1>0, <1>1, <1>2, <1>3, <1>u, NoCallFields DEF Holding, Moves, Returns, Updates, Passes
<1>t. RedisType'
  BY DEF RedisType
<1>i1. OneAtAddress' /\ UnwrapShort' /\ EntryClients'
  BY DEF OneAtAddress, UnwrapShort, EntryClients
<1>i2. MapRefs' /\ CallRefs' /\ OtherRefs' /\ MutexInv'
  BY SMTT(60) DEF MapRefs, CallRefs, OtherRefs, MutexInv
<1>i3. InMap' /\ EntryStatus' /\ WrapStatus'
  <2>1. InMap'
    BY SMTT(60) DEF InMap, MapRefs, CallRefs
  <2>2. EntryStatus'
    BY SMTT(60) DEF EntryStatus, WrapStatus
  <2>3. WrapStatus'
    BY SMTT(60) DEF WrapStatus, MapRefs, CallRefs
  <2>. QED
    BY ONLY <2>1, <2>2, <2>3
<1>i4. SureWrapped' /\ SureAlone'
  BY SMTT(60) DEF SureWrapped, MapRefs, Redis!Matches, Redis!Alive, SureAlone
<1>i5. CommitDue' /\ CleanupDue'
  BY DEF CommitDue, CallRefs, InMap, CleanupDue
<1>i6. CallsLive'
  BY <1>0, <1>1, MovesLive
<1>n. Redis!NamesAccounted'
  BY NamesKept
<1>. QED
  BY ONLY <1>t, <1>i1, <1>i2, <1>i3, <1>i4, <1>i5, <1>i6, <1>n DEF RedisInv

\* Check: a Wrap of this client has committed the entry.
LEMMA CheckDone ==
  ASSUME RedisInv, NEW t \in Threads, Redis!Check(t), redisWrapped[AddrOf[call[t].client]] =
        call[t].entry, Redis!Matches(call[t].entry, call[t].client), entry[call[t].entry].done
  PROVE  RedisInv'
<1>. USE RedisAssumption DEF RedisInv
<1>. DEFINE e == call[t].entry
<1>. USE DEF Holds
<1>1. /\ Holds(t) /\ call[t].op = "wrap" /\ call[t].pc = "locked"
      /\ UNCHANGED <<redisHeap, redisHooks, cleanup, redisCalls>>
  BY HoldsLemma DEF Redis!Check, Redis!At, Holding
<1>. USE DEF Typed
<1>u. Typed
  BY TypedLemma
<1>2. Passes(e, Nobody)
  <2>1. Redis!Unlock(e)
    BY DEF Redis!Check
  <2>. QED  BY <1>1, <2>1, PassLemma DEF Redis!Unlock
<1>4. entry[e].done = TRUE /\ entry[e].client = call[t].client
  BY <1>1 DEF Redis!EntryRec, Redis!Matches
<1>5. entry'[e].done /\ entry'[e].client = call[t].client
  BY <1>2, <1>4 DEF Passes, Updates
<1>6. redisWrapped[AddrOf[call[t].client]] = e /\ e # Nobody
  BY <1>1
<1>3. Redis!Return(t) /\ UNCHANGED <<redisWrapped, held>>
      /\ sure' = IF call[t].alone THEN sure \cup {call[t].client} ELSE sure
  BY DEF Redis!Check
<1>0. Returns(t)
  BY <1>3, ReturnReturns
<1>. USE <1>0, <1>1, <1>2, <1>3, <1>4, <1>5, <1>6, <1>u, NoCallFields DEF Holding, Moves, Returns,
    Updates, Passes
<1>t. RedisType'
  BY DEF RedisType
<1>i1. OneAtAddress' /\ UnwrapShort' /\ EntryClients'
  BY DEF OneAtAddress, UnwrapShort, EntryClients
<1>i2. MapRefs' /\ CallRefs' /\ OtherRefs' /\ MutexInv'
  BY SMTT(60) DEF MapRefs, CallRefs, OtherRefs, MutexInv
<1>i3. InMap' /\ EntryStatus' /\ WrapStatus'
  BY SMTT(60) DEF InMap, MapRefs, EntryStatus, WrapStatus, CallRefs
<1>i4. SureWrapped' /\ SureAlone'
  BY SMTT(60) DEF SureWrapped, MapRefs, Redis!Matches, Redis!Alive, SureAlone
<1>i5. CommitDue' /\ CleanupDue'
  BY SMTT(60) DEF CommitDue, CallRefs, CleanupDue
<1>i6. CallsLive'
  BY <1>0, <1>1, ReturnsLive
<1>n. Redis!NamesAccounted'
  BY NamesKept
<1>. QED
  BY ONLY <1>t, <1>i1, <1>i2, <1>i3, <1>i4, <1>i5, <1>i6, <1>n DEF RedisInv

\* Check: the entry is for this Wrap to complete.
LEMMA CheckNew ==
  ASSUME RedisInv, NEW t \in Threads, Redis!Check(t), redisWrapped[AddrOf[call[t].client]] =
        call[t].entry, Redis!Matches(call[t].entry, call[t].client), ~entry[call[t].entry].done
  PROVE  RedisInv'
<1>. USE RedisAssumption DEF RedisInv
<1>. DEFINE e == call[t].entry
<1>. USE DEF Holds
<1>1. /\ Holds(t) /\ call[t].op = "wrap" /\ call[t].pc = "locked"
      /\ UNCHANGED <<redisHeap, redisHooks, cleanup, redisCalls>>
  BY HoldsLemma DEF Redis!Check, Redis!At, Holding
<1>. USE DEF Typed
<1>u. Typed
  BY TypedLemma
<1>2. "name" \in PCs /\ Redis!Goto(t, "name") /\ UNCHANGED <<entry, redisWrapped, held, sure>>
      /\ Redis!Used' = Redis!Used /\ entry[e].client = call[t].client
  BY DEF PCs, Holding, Redis!Check, Redis!Used, Redis!Unused, Redis!Matches
<1>0. Moves(t, "name", e)
  BY <1>2, GotoMoves
<1>. USE <1>0, <1>1, <1>2, <1>u, NoCallFields DEF Holding, Moves, Returns, Updates, Passes
<1>t. RedisType'
  BY DEF RedisType
<1>i1. OneAtAddress' /\ UnwrapShort' /\ EntryClients'
  BY DEF OneAtAddress, UnwrapShort, EntryClients
<1>i2. MapRefs' /\ CallRefs' /\ OtherRefs' /\ MutexInv'
  BY SMTT(60) DEF MapRefs, CallRefs, OtherRefs, MutexInv
<1>i3. InMap' /\ EntryStatus' /\ WrapStatus'
  BY SMTT(60) DEF InMap, MapRefs, EntryStatus, WrapStatus, CallRefs
<1>i4. SureWrapped' /\ SureAlone'
  BY SMTT(60) DEF SureWrapped, MapRefs, Redis!Matches, Redis!Alive, SureAlone
<1>i5. CommitDue' /\ CleanupDue'
  BY SMTT(60) DEF CommitDue, CallRefs, CleanupDue
<1>i6. CallsLive'
  BY <1>0, <1>1, MovesLive
<1>n. Redis!NamesAccounted'
  BY NamesKept
<1>. QED
  BY ONLY <1>t, <1>i1, <1>i2, <1>i3, <1>i4, <1>i5, <1>i6, <1>n DEF RedisInv

\* Wrap takes a pool name.
LEMMA TakeNameStep ==
  ASSUME RedisInv, NEW t \in Threads, Redis!TakeName(t)
  PROVE  RedisInv'
<1>. USE RedisAssumption DEF RedisInv
<1>. DEFINE e == call[t].entry
            n == IF call[t].name # Nobody THEN call[t].name ELSE <<Redis!Acquire, "pool">>
            y == [entry[e] EXCEPT !.poolName = n]
<1>. USE DEF Holds
<1>1. /\ Holds(t) /\ call[t].op = "wrap" /\ call[t].pc = "name"
      /\ UNCHANGED <<redisHeap, redisWrapped, redisHooks, cleanup, redisCalls, sure>>
  BY HoldsLemma DEF Redis!TakeName, Redis!At, Holding
<1>. USE DEF Typed
<1>u. Typed
  BY TypedLemma
<1>3. n \in Redis!Names /\ entry[e].poolName = Nobody
  BY <1>1, AcquireFree DEF Redis!TakeName, RedisType, CallRec, Redis!Names, WrapStatus
<1>2. y \in Redis!EntryRec /\ y.client = entry[e].client /\ y.disabled = entry[e].disabled
      /\ y.done = entry[e].done /\ y.reg = entry[e].reg /\ y.poolName = n
      /\ y.gc = entry[e].gc /\ y.mu = entry[e].mu
  BY <1>1, <1>3 DEF Redis!EntryRec
<1>4. entry' = [entry EXCEPT ![e] = y] /\ held' = Redis!Hold(n)
  BY DEF Redis!TakeName
<1>. HIDE DEF y
<1>5. Updates(e) /\ entry'[e] = y
  BY <1>1, <1>2, <1>4, UpdateLemma
<1>6. "register" \in PCs
  BY DEF PCs, Holding
<1>0. Moves(t, "register", e)
  BY <1>6, GotoMoves DEF Redis!TakeName
<1>7. held' \in [Redis!Names -> Int]
     /\ (\A m \in Redis!Names : held'[m] = IF m = n THEN held[m] + 1 ELSE held[m])
  BY <1>3, <1>4 DEF RedisType, Redis!Hold
<1>. HIDE DEF n
<1>n. Redis!NamesAccounted'
  <2>. DEFINE N(m) == {f \in Redis!Used : entry[f].poolName = m}
              M(m) == {f \in Redis!Used : entry'[f].poolName = m}
  <2> SUFFICES ASSUME NEW m \in Redis!Names PROVE held'[m] = Cardinality(M(m))
    BY <1>5, RedisCardinality DEF Redis!NamesAccounted, Updates
  <2>1. held[m] = Cardinality(N(m)) /\ IsFiniteSet(N(m))
    BY RedisCardinality, NamedFinite DEF Redis!NamesAccounted
  <2>2. CASE m = n
    <3>1. M(m) = N(m) \cup {e} /\ e \notin N(m)
      BY <1>1, <1>2, <1>3, <1>5, <1>u, <2>2 DEF Updates
    <3>2. Cardinality(M(m)) = Cardinality(N(m)) + 1
      BY <2>1, <3>1, FS_AddElement
    <3>. QED  BY <1>7, <2>1, <2>2, <3>2
  <2>3. CASE m # n
    <3>1. M(m) = N(m)
      BY <1>1, <1>2, <1>3, <1>5, <1>u, <2>3 DEF Updates
    <3>. QED  BY <1>7, <2>1, <2>3, <3>1
  <2>. QED  BY <2>2, <2>3
<1>. USE <1>0, <1>1, <1>2, <1>3, <1>5, <1>7, <1>u, NoCallFields DEF Holding, Moves, Returns,
    Updates, Passes
<1>t. RedisType'
  BY DEF RedisType
<1>i1. OneAtAddress' /\ UnwrapShort' /\ EntryClients'
  BY DEF OneAtAddress, UnwrapShort, EntryClients
<1>i2. MapRefs' /\ CallRefs' /\ OtherRefs' /\ MutexInv'
  BY SMTT(60) DEF MapRefs, CallRefs, OtherRefs, MutexInv
<1>i3. InMap' /\ EntryStatus' /\ WrapStatus'
  BY SMTT(60) DEF InMap, MapRefs, EntryStatus, WrapStatus, CallRefs
<1>i4. SureWrapped' /\ SureAlone'
  BY SMTT(60) DEF SureWrapped, MapRefs, Redis!Matches, Redis!Alive, SureAlone
<1>i5. CommitDue' /\ CleanupDue'
  BY SMTT(60) DEF CommitDue, CallRefs, CleanupDue
<1>i6. CallsLive'
  BY <1>0, <1>1, MovesLive
<1>. QED
  BY ONLY <1>t, <1>i1, <1>i2, <1>i3, <1>i4, <1>i5, <1>i6, <1>n DEF RedisInv

\* Wrap registers the metric callback.
LEMMA RegisterStep ==
  ASSUME RedisInv, NEW t \in Threads, Redis!Register(t)
  PROVE  RedisInv'
<1>. USE RedisAssumption DEF RedisInv
<1>. DEFINE e == call[t].entry
            y == [entry[e] EXCEPT !.reg = TRUE]
<1>. USE DEF Holds
<1>1. /\ Holds(t) /\ call[t].op = "wrap" /\ call[t].pc = "register"
      /\ UNCHANGED <<redisHeap, redisWrapped, held, redisHooks, cleanup, redisCalls, sure>>
  BY HoldsLemma DEF Redis!Register, Redis!At, Holding
<1>. USE DEF Typed
<1>u. Typed
  BY TypedLemma
<1>2. y \in Redis!EntryRec /\ y.client = entry[e].client /\ y.disabled = entry[e].disabled
      /\ y.done = entry[e].done /\ y.reg /\ y.poolName = entry[e].poolName
      /\ y.gc = entry[e].gc /\ y.mu = entry[e].mu
  BY <1>1 DEF Redis!EntryRec
<1>3. entry' = [entry EXCEPT ![e] = y]
  BY DEF Redis!Register
<1>. HIDE DEF y
<1>4. Updates(e) /\ entry'[e] = y
  BY <1>1, <1>2, <1>3, UpdateLemma
<1>5. "install" \in PCs
  BY DEF PCs, Holding
<1>0. Moves(t, "install", e)
  BY <1>5, GotoMoves DEF Redis!Register
<1>. USE <1>0, <1>1, <1>2, <1>4, <1>u, NoCallFields DEF Holding, Moves, Returns, Updates, Passes
<1>t. RedisType'
  BY DEF RedisType
<1>i1. OneAtAddress' /\ UnwrapShort' /\ EntryClients'
  BY DEF OneAtAddress, UnwrapShort, EntryClients
<1>i2. MapRefs' /\ CallRefs' /\ OtherRefs' /\ MutexInv'
  BY SMTT(60) DEF MapRefs, CallRefs, OtherRefs, MutexInv
<1>i3. InMap' /\ EntryStatus' /\ WrapStatus'
  BY SMTT(60) DEF InMap, MapRefs, EntryStatus, WrapStatus, CallRefs
<1>i4. SureWrapped' /\ SureAlone'
  BY SMTT(60) DEF SureWrapped, MapRefs, Redis!Matches, Redis!Alive, SureAlone
<1>i5. CommitDue' /\ CleanupDue'
  BY SMTT(60) DEF CommitDue, CallRefs, CleanupDue
<1>i6. CallsLive'
  BY <1>0, <1>1, MovesLive
<1>n. Redis!NamesAccounted'
  BY NamesKept
<1>. QED
  BY ONLY <1>t, <1>i1, <1>i2, <1>i3, <1>i4, <1>i5, <1>i6, <1>n DEF RedisInv

\* Wrap adds the hook.
LEMMA InstallStep ==
  ASSUME RedisInv, NEW t \in Threads, Redis!Install(t)
  PROVE  RedisInv'
<1>. USE RedisAssumption DEF RedisInv
<1>. DEFINE e == call[t].entry
<1>. USE DEF Holds
<1>1. /\ Holds(t) /\ call[t].op = "wrap" /\ call[t].pc = "install"
      /\ UNCHANGED <<redisHeap, redisWrapped, entry, held, cleanup, redisCalls, sure>>
  BY HoldsLemma DEF Redis!Install, Redis!At, Holding
<1>. USE DEF Typed
<1>u. Typed
  BY TypedLemma
<1>2. Redis!Used' = Redis!Used
  BY <1>1 DEF Redis!Used, Redis!Unused
<1>3. redisHooks' = [redisHooks EXCEPT ![call[t].client] = @ \cup {e}]
      /\ redisHooks' \in [Clients -> SUBSET Entries]
  BY <1>1 DEF Redis!Install, RedisType
<1>4. /\ redisHooks'[call[t].client] = redisHooks[call[t].client] \cup {e}
      /\ \A c \in Clients : c # call[t].client => redisHooks'[c] = redisHooks[c]
  BY <1>1, <1>3 DEF RedisType
<1>6. entry[e].client = call[t].client
  BY <1>1 DEF WrapStatus, Holding
<1>7. \A u \in Threads : call[u].pc # "idle" => call[u].client \in Clients
  BY NoCallFields DEF CallsLive
<1>5. "commit" \in PCs
  BY DEF PCs, Holding
<1>0. Moves(t, "commit", e)
  BY <1>5, GotoMoves DEF Redis!Install
<1>. USE <1>0, <1>1, <1>2, <1>4, <1>6, <1>7, <1>u, NoCallFields DEF Holding, Moves
<1>t. RedisType'
  BY <1>0, <1>1, <1>3 DEF RedisType
<1>i1. OneAtAddress' /\ UnwrapShort' /\ EntryClients'
  BY DEF OneAtAddress, UnwrapShort, EntryClients
<1>i2. MapRefs'
  BY SMTT(60) DEF MapRefs
<1>i3. CallRefs'
  BY SMTT(60) DEF CallRefs, MapRefs
<1>i4. OtherRefs'
  BY SMTT(60) DEF OtherRefs, MapRefs
<1>i5. MutexInv'
  BY DEF MutexInv, CallRefs, OtherRefs
<1>i6. InMap'
  BY SMTT(60) DEF InMap, MapRefs
<1>i7. EntryStatus'
  BY DEF EntryStatus
<1>i8. WrapStatus'
  BY DEF WrapStatus, CallRefs
<1>i9. SureWrapped' /\ SureAlone'
  BY SMTT(60) DEF SureWrapped, MapRefs, Redis!Matches, Redis!Alive, SureAlone
<1>i10. CommitDue' /\ CleanupDue'
  BY SMTT(60) DEF CommitDue, CallRefs, CleanupDue
<1>i11. CallsLive'
  BY <1>0, <1>1, MovesLive
<1>n. Redis!NamesAccounted'
  BY NamesKept
<1>. QED
  BY ONLY <1>t, <1>i1, <1>i2, <1>i3, <1>i4, <1>i5, <1>i6,
       <1>i7, <1>i8, <1>i9, <1>i10, <1>i11, <1>n DEF RedisInv

\* Wrap commits the entry.
LEMMA CommitStep ==
  ASSUME RedisInv, NEW t \in Threads, Redis!Commit(t)
  PROVE  RedisInv'
<1>. USE RedisAssumption DEF RedisInv
<1>. DEFINE e == call[t].entry
            y == [entry[e] EXCEPT !.done = TRUE, !.gc = "armed", !.mu = Nobody]
<1>. USE DEF Holds
<1>1. /\ Holds(t) /\ call[t].op = "wrap" /\ call[t].pc = "commit"
      /\ UNCHANGED <<redisHeap, redisWrapped, held, redisHooks, cleanup, redisCalls>>
  BY HoldsLemma DEF Redis!Commit, Redis!At, Holding
<1>. USE DEF Typed
<1>u. Typed
  BY TypedLemma
<1>2. y \in Redis!EntryRec /\ y.client = entry[e].client /\ y.disabled = entry[e].disabled
      /\ y.done /\ y.reg = entry[e].reg /\ y.poolName = entry[e].poolName
      /\ y.gc = "armed" /\ y.mu = Nobody
  BY <1>1 DEF Redis!EntryRec
<1>3. entry' = [entry EXCEPT ![e] = y]
  BY DEF Redis!Commit
<1>. HIDE DEF y
<1>4. Updates(e) /\ entry'[e] = y
  BY <1>1, <1>2, <1>3, UpdateLemma
<1>5. sure' = IF call[t].alone THEN sure \cup {call[t].client} ELSE sure
  BY DEF Redis!Commit
<1>0. Returns(t)
  BY ReturnReturns DEF Redis!Commit
<1>. USE <1>0, <1>1, <1>2, <1>4, <1>5, <1>u, NoCallFields DEF Holding, Moves, Returns, Updates,
    Passes
<1>t. RedisType'
  BY DEF RedisType
<1>i1. OneAtAddress' /\ UnwrapShort' /\ EntryClients'
  BY DEF OneAtAddress, UnwrapShort, EntryClients
<1>i2. MapRefs' /\ CallRefs' /\ OtherRefs' /\ MutexInv'
  BY SMTT(60) DEF MapRefs, CallRefs, OtherRefs, MutexInv
<1>i3. InMap' /\ EntryStatus' /\ WrapStatus'
  BY SMTT(60) DEF InMap, MapRefs, EntryStatus, WrapStatus, CallRefs
<1>i4. SureWrapped' /\ SureAlone'
  BY SMTT(60) DEF SureWrapped, MapRefs, Redis!Matches, Redis!Alive, WrapStatus, InMap, EntryClients,
      SureAlone
<1>i5. CommitDue' /\ CleanupDue'
  BY SMTT(60) DEF CommitDue, CallRefs, CleanupDue
<1>i6. CallsLive'
  BY <1>0, <1>1, ReturnsLive
<1>n. Redis!NamesAccounted'
  BY NamesKept
<1>. QED
  BY ONLY <1>t, <1>i1, <1>i2, <1>i3, <1>i4, <1>i5, <1>i6, <1>n DEF RedisInv

\* Unwrap finds another client's entry.
LEMMA UnwrapOther ==
  ASSUME RedisInv, NEW t \in Threads, Redis!UnwrapLocked(t), ~Redis!Matches(call[t].entry,
        call[t].client)
  PROVE  RedisInv'
<1>. USE RedisAssumption DEF RedisInv
<1>. DEFINE e == call[t].entry
<1>. USE DEF Holds
<1>1. /\ Holds(t) /\ call[t].op = "unwrap" /\ call[t].pc = "locked"
      /\ UNCHANGED <<redisHeap, redisHooks, cleanup, redisCalls, sure>>
  BY HoldsLemma DEF Redis!UnwrapLocked, Redis!At, Holding
<1>. USE DEF Typed
<1>u. Typed
  BY TypedLemma
<1>2. Passes(e, Nobody)
  <2>1. Redis!Unlock(e)
    BY DEF Redis!UnwrapLocked
  <2>. QED  BY <1>1, <2>1, PassLemma DEF Redis!Unlock
<1>3. Redis!Return(t) /\ UNCHANGED <<redisWrapped, held>>
  BY DEF Redis!UnwrapLocked
<1>0. Returns(t)
  BY <1>3, ReturnReturns
<1>. USE <1>0, <1>1, <1>2, <1>3, <1>u, NoCallFields DEF Holding, Moves, Returns, Updates, Passes
<1>t. RedisType'
  BY DEF RedisType
<1>i1. OneAtAddress' /\ UnwrapShort' /\ EntryClients'
  BY DEF OneAtAddress, UnwrapShort, EntryClients
<1>i2. MapRefs' /\ CallRefs' /\ OtherRefs' /\ MutexInv'
  BY SMTT(60) DEF MapRefs, CallRefs, OtherRefs, MutexInv
<1>i3. InMap' /\ EntryStatus' /\ WrapStatus'
  BY SMTT(60) DEF InMap, MapRefs, EntryStatus, WrapStatus, CallRefs
<1>i4. SureWrapped' /\ SureAlone'
  BY SMTT(60) DEF SureWrapped, MapRefs, Redis!Matches, Redis!Alive, SureAlone
<1>i5. CommitDue' /\ CleanupDue'
  BY SMTT(60) DEF CommitDue, CallRefs, CleanupDue
<1>i6. CallsLive'
  BY <1>0, <1>1, ReturnsLive
<1>n. Redis!NamesAccounted'
  BY NamesKept
<1>. QED
  BY ONLY <1>t, <1>i1, <1>i2, <1>i3, <1>i4, <1>i5, <1>i6, <1>n DEF RedisInv

\* The runtime allocates a client.
LEMMA AllocateStep ==
  ASSUME RedisInv, NEW a \in ClientAddrs, Redis!Allocate(a)
  PROVE  RedisInv'
<1>. USE RedisAssumption DEF RedisInv
<1>0. PICK c \in Clients :
        /\ AddrOf[c] = a /\ redisHeap[c] = "free"
        /\ \A d \in Clients : AddrOf[d] = a => redisHeap[d] # "live"
        /\ redisHeap' = [redisHeap EXCEPT ![c] = "live"]
        /\ UNCHANGED <<redisWrapped, entry, held, redisHooks, call, cleanup, redisCalls, sure>>
  BY DEF Redis!Allocate
<1>. USE <1>0, NoCallFields DEF RedisType, CallRec, CleanupRec, Holding, Redis!Used, Redis!Unused
<1>t. RedisType'
  BY DEF RedisType
<1>i1. OneAtAddress' /\ CallsLive' /\ UnwrapShort' /\ EntryClients'
  BY DEF OneAtAddress, CallsLive, UnwrapShort, EntryClients
<1>i2. MapRefs' /\ CallRefs' /\ OtherRefs' /\ MutexInv'
  BY SMTT(60) DEF MapRefs, CallRefs, OtherRefs, MutexInv
<1>i3. InMap' /\ EntryStatus' /\ WrapStatus'
  BY SMTT(60) DEF InMap, MapRefs, EntryStatus, WrapStatus, CallRefs
<1>i4. SureWrapped' /\ SureAlone'
  BY SMTT(60) DEF SureWrapped, MapRefs, Redis!Matches, Redis!Alive, SureAlone
<1>i5. CommitDue' /\ CleanupDue'
  BY SMTT(60) DEF CommitDue, CallRefs, CleanupDue, EntryClients
<1>n. Redis!NamesAccounted'
  BY NamesKept
<1>. QED
  BY ONLY <1>t, <1>i1, <1>i2, <1>i3, <1>i4, <1>i5, <1>n DEF RedisInv

\* The collector frees a client no call refers to: every entry of it in the map is
\* committed, so its cleanup is armed.
LEMMA CollectStep ==
  ASSUME RedisInv, NEW c \in Clients, Redis!Collect(c)
  PROVE  RedisInv'
<1>. USE RedisAssumption DEF RedisInv
<1>1. \A e \in Redis!Used : entry[e].client = c /\ ~entry[e].disabled => entry[e].done
  BY UsedEntry DEF Redis!Collect, CommitDue, CallsLive, CallRefs, OneAtAddress, Holding
<1>0. \A e \in Redis!Used : entry[e].client = c /\ ~entry[e].disabled => entry[e].gc = "armed"
  BY <1>1 DEF EntryStatus
<1>. USE <1>0, NoCallFields DEF RedisType, CallRec, CleanupRec, Holding, Redis!Used, Redis!Unused,
    Redis!Collect
<1>t. RedisType'
  BY <1>0 DEF RedisType
<1>i1. OneAtAddress' /\ CallsLive' /\ UnwrapShort' /\ EntryClients'
  BY DEF OneAtAddress, CallsLive, UnwrapShort, EntryClients
<1>i2. MapRefs' /\ CallRefs' /\ OtherRefs' /\ MutexInv'
  BY SMTT(60) DEF MapRefs, CallRefs, OtherRefs, MutexInv
<1>i3. InMap' /\ EntryStatus' /\ WrapStatus'
  BY SMTT(60) DEF InMap, MapRefs, EntryStatus, WrapStatus, CallRefs
<1>i4. SureWrapped' /\ SureAlone'
  BY SMTT(60) DEF SureWrapped, MapRefs, Redis!Matches, Redis!Alive, SureAlone
<1>i5. CommitDue' /\ CleanupDue'
  BY SMTT(60) DEF CommitDue, CallRefs, CleanupDue
<1>n. Redis!NamesAccounted'
  BY NamesKept
<1>. QED
  BY ONLY <1>t, <1>i1, <1>i2, <1>i3, <1>i4, <1>i5, <1>n DEF RedisInv

\* A cleanup looks into the map.
LEMMA CleanupLoadStep ==
  ASSUME RedisInv, NEW e \in Entries, Redis!CleanupLoad(e)
  PROVE  RedisInv'
<1>. USE RedisAssumption DEF RedisInv
<1>. DEFINE f == redisWrapped[AddrOf[entry[e].client]]
<1>1. /\ e \in Redis!Used /\ AddrOf[entry[e].client] \in ClientAddrs /\ f \in Entries \cup {Nobody}
      /\ cleanup[e].pc = "load"
      /\ UNCHANGED <<redisHeap, redisWrapped, entry, held, redisHooks, call, redisCalls, sure>>
  BY UsedEntry DEF Redis!CleanupLoad, EntryClients, RedisType
<1>2. Redis!Used' = Redis!Used
  BY <1>1 DEF Redis!Used, Redis!Unused
<1>0. /\ cleanup' \in [Entries -> CleanupRec]
      /\ IF f = Nobody THEN cleanup'[e].pc = "done"
         ELSE cleanup'[e].pc = "lock" /\ cleanup'[e].entry = f
      /\ \A g \in Entries \ {e} : cleanup'[g] = cleanup[g]
  BY <1>1 DEF Redis!CleanupLoad, RedisType, CleanupRec
<1>. USE DEF Typed
<1>u. Typed
  BY TypedLemma
<1>. USE <1>0, <1>1, <1>2, <1>u, NoCallFields DEF Holding
<1>t. RedisType'
  BY DEF RedisType
<1>i1. OneAtAddress' /\ CallsLive' /\ UnwrapShort' /\ EntryClients'
  BY DEF OneAtAddress, CallsLive, UnwrapShort, EntryClients
<1>i2. MapRefs' /\ CallRefs' /\ OtherRefs' /\ MutexInv'
  BY SMTT(60) DEF MapRefs, CallRefs, OtherRefs, MutexInv
<1>i3. InMap' /\ EntryStatus' /\ WrapStatus'
  BY SMTT(60) DEF InMap, MapRefs, EntryStatus, WrapStatus, CallRefs
<1>i4. SureWrapped' /\ SureAlone'
  BY SMTT(60) DEF SureWrapped, MapRefs, Redis!Matches, Redis!Alive, SureAlone
<1>i5. CommitDue' /\ CleanupDue'
  BY SMTT(60) DEF CommitDue, CallRefs, CleanupDue, InMap
<1>n. Redis!NamesAccounted'
  BY NamesKept
<1>. QED
  BY ONLY <1>t, <1>i1, <1>i2, <1>i3, <1>i4, <1>i5, <1>n DEF RedisInv

\* A cleanup locks the entry it found.
LEMMA CleanupLockStep ==
  ASSUME RedisInv, NEW e \in Entries, Redis!CleanupLock(e)
  PROVE  RedisInv'
<1>. USE RedisAssumption DEF RedisInv
<1>. DEFINE f == cleanup[e].entry
<1>1. /\ cleanup[e].pc = "lock" /\ f \in Redis!Used /\ f \in Entries /\ entry[f].mu = Nobody
      /\ cleanup' = [cleanup EXCEPT ![e].pc = "locked"] /\ cleanup[e] \in CleanupRec
      /\ UNCHANGED <<redisHeap, redisWrapped, held, redisHooks, call, redisCalls, sure>>
  BY UsedEntry DEF Redis!CleanupLock, OtherRefs, RedisType
<1>. USE DEF Typed
<1>u. Typed
  BY TypedLemma
<1>2. Passes(f, e)
  BY <1>1, PassLemma DEF Redis!CleanupLock
<1>0. /\ cleanup' \in [Entries -> CleanupRec]
      /\ cleanup'[e].pc = "locked" /\ cleanup'[e].entry = f
      /\ \A g \in Entries \ {e} : cleanup'[g] = cleanup[g]
  BY <1>1 DEF RedisType, CleanupRec
<1>. USE <1>0, <1>1, <1>2, <1>u, NoCallFields DEF Holding, Moves, Returns, Updates, Passes
<1>t. RedisType'
  BY DEF RedisType
<1>i1. OneAtAddress' /\ CallsLive' /\ UnwrapShort' /\ EntryClients'
  BY DEF OneAtAddress, CallsLive, UnwrapShort, EntryClients
<1>i2. MapRefs' /\ CallRefs' /\ OtherRefs' /\ MutexInv'
  BY SMTT(60) DEF MapRefs, CallRefs, OtherRefs, MutexInv
<1>i3. InMap' /\ EntryStatus' /\ WrapStatus'
  BY SMTT(60) DEF InMap, MapRefs, EntryStatus, WrapStatus, CallRefs
<1>i4. SureWrapped' /\ SureAlone'
  BY SMTT(60) DEF SureWrapped, MapRefs, Redis!Matches, Redis!Alive, SureAlone
<1>i5. CommitDue' /\ CleanupDue'
  BY SMTT(60) DEF CommitDue, CallRefs, CleanupDue
<1>n. Redis!NamesAccounted'
  BY NamesKept
<1>. QED
  BY ONLY <1>t, <1>i1, <1>i2, <1>i3, <1>i4, <1>i5, <1>n DEF RedisInv

\* A cleanup finds the entry of a later client at its address.
LEMMA CleanupOther ==
  ASSUME RedisInv, NEW e \in Entries, Redis!CleanupLocked(e),
        redisHeap[entry[cleanup[e].entry].client] = "live" \/ entry[cleanup[e].entry].client #
        entry[e].client
  PROVE  RedisInv'
<1>. USE RedisAssumption DEF RedisInv
<1>. DEFINE f == cleanup[e].entry
<1>1. /\ cleanup[e].pc = "locked" /\ f \in Redis!Used /\ f \in Entries /\ entry[f].mu = e
      /\ cleanup' = [cleanup EXCEPT ![e].pc = "done"] /\ cleanup[e] \in CleanupRec
      /\ e \in Redis!Used
      /\ e \notin Threads
      /\ UNCHANGED <<redisHeap, redisHooks, call, redisCalls, sure>>
  BY UsedEntry DEF Redis!CleanupLocked, OtherRefs, RedisType, MutexInv, EntryClients
<1>0. /\ cleanup' \in [Entries -> CleanupRec]
      /\ cleanup'[e].pc = "done" /\ cleanup'[e].entry = f
      /\ \A g \in Entries \ {e} : cleanup'[g] = cleanup[g]
  BY <1>1 DEF RedisType, CleanupRec
<1>m. /\ \A u \in Threads : call[u].pc \in Holding => call[u].entry # f
      /\ \A g \in Entries \ {e} : cleanup[g].pc = "locked" => cleanup[g].entry # f
  BY <1>1 DEF MutexInv
<1>. USE DEF Typed
<1>u. Typed
  BY TypedLemma
<1>2. Passes(f, Nobody) /\ UNCHANGED <<redisWrapped, held>>
  <2>1. Redis!Unlock(f) /\ UNCHANGED <<redisWrapped, held>>
    BY DEF Redis!CleanupLocked, Redis!Alive
  <2>. QED  BY <1>1, <2>1, PassLemma DEF Redis!Unlock
<1>. USE <1>0, <1>1, <1>2, <1>m, <1>u, NoCallFields DEF Holding, Moves, Returns, Updates, Passes
<1>t. RedisType'
  BY DEF RedisType
<1>i1. OneAtAddress' /\ CallsLive' /\ UnwrapShort' /\ EntryClients'
  BY DEF OneAtAddress, CallsLive, UnwrapShort, EntryClients
<1>i2. MapRefs' /\ CallRefs' /\ OtherRefs' /\ MutexInv'
  BY SMTT(60) DEF MapRefs, CallRefs, OtherRefs, MutexInv
<1>i3. InMap' /\ EntryStatus' /\ WrapStatus'
  BY SMTT(60) DEF InMap, MapRefs, EntryStatus, WrapStatus, CallRefs
<1>i4. SureWrapped' /\ SureAlone'
  BY SMTT(60) DEF SureWrapped, MapRefs, Redis!Matches, Redis!Alive, SureAlone
<1>i5. CommitDue' /\ CleanupDue'
  BY SMTT(60) DEF CommitDue, CallRefs, CleanupDue, EntryClients
<1>n. Redis!NamesAccounted'
  BY NamesKept
<1>. QED
  BY ONLY <1>t, <1>i1, <1>i2, <1>i3, <1>i4, <1>i5, <1>n DEF RedisInv

\* The effect of a discard on a call: whoever has the entry's mutex returns or
\* starts again.
Leaves(u) ==
  \/ call'[u] = Redis!NoCall
  \/ /\ call'[u].pc = "load" /\ call'[u].op = call[u].op
     /\ call'[u].client = call[u].client /\ call'[u].alone = call[u].alone

\* Whoever discards an entry whose client is not in sure, and lets go of it,
\* keeps the invariant.
LEMMA DiscardKeeps ==
  ASSUME RedisInv, NEW e \in Redis!Used, Redis!Discard(e),
         UNCHANGED <<redisHeap, redisHooks, redisCalls, sure>>,
         entry[e].client \notin sure,
         call' \in [Threads -> CallRec], cleanup' \in [Entries -> CleanupRec],
         \A u \in Threads :
           IF call[u].pc \in Holding /\ call[u].entry = e THEN Leaves(u) ELSE call'[u] = call[u],
         \A f \in Entries :
           IF cleanup[f].pc = "locked" /\ cleanup[f].entry = e
           THEN cleanup[f].pc # "none" /\ cleanup'[f].pc = "done" ELSE cleanup'[f] = cleanup[f]
  PROVE  RedisInv'
<1>. USE RedisAssumption DEF RedisInv
<1>1. /\ entry' \in [Entries -> Redis!EntryRec \cup {Nobody}]
      /\ redisWrapped' \in [ClientAddrs -> Entries \cup {Nobody}]
      /\ held' \in [Redis!Names -> Int]
      /\ Redis!Used' = Redis!Used
      /\ \A f \in Entries \ {e} : entry'[f] = entry[f]
      /\ entry'[e].client = entry[e].client /\ entry'[e].done = entry[e].done
      /\ entry'[e].disabled /\ ~entry'[e].reg /\ entry'[e].poolName = Nobody
      /\ entry'[e].mu = Nobody
      /\ \A a \in ClientAddrs :
           redisWrapped'[a] = IF a = AddrOf[entry[e].client] /\ redisWrapped[a] = e
                              THEN Nobody ELSE redisWrapped[a]
  BY DiscardType
<1>2. e \in Entries /\ entry[e] \in Redis!EntryRec /\ AddrOf[entry[e].client] \in ClientAddrs
  BY UsedEntry
<1>3. /\ \A f \in Redis!Used :
           f \in Entries /\ entry[f].client \in Clients /\ AddrOf[entry[f].client] \in ClientAddrs
      /\ \A d \in sure : d \in Clients /\ AddrOf[d] \in ClientAddrs
  BY UsedEntry DEF Redis!EntryRec, RedisType
<1>4. /\ \A f \in Redis!Used : entry'[f].client = entry[f].client /\ entry'[f].done = entry[f].done
      /\ \A f \in Redis!Used : f # e => entry'[f] = entry[f]
  BY <1>1, <1>3
<1>5. \A u \in Threads :
        /\ call'[u].pc \in {"lock"} \cup Holding =>
             call'[u] = call[u] /\ (call[u].pc \in Holding => call[u].entry # e)
        /\ call[u].entry # e => call'[u] = call[u]
        /\ call[u].pc = "lock" => call'[u] = call[u]
        /\ call'[u] # call[u] => call'[u].pc \in {"load", "idle"}
        /\ call'[u].op # "none" => call'[u].op = call[u].op /\ call'[u].client = call[u].client
                                   /\ call'[u].alone = call[u].alone
        /\ call'[u] = call[u] \/ call'[u] = Redis!NoCall
             \/ (call'[u].pc = "load" /\ call'[u].op = call[u].op /\ call[u].pc \in Holding)
  BY NoCallFields DEF Holding, Leaves
<1>t. RedisType'
  BY <1>1 DEF RedisType
<1>c. CallsLive'
  BY <1>5, NoCallFields DEF CallsLive, Holding
<1>m. MutexInv'
  <2>1. ASSUME NEW u \in Threads, call'[u].pc \in Holding PROVE entry'[call'[u].entry].mu = u
    BY <1>3, <1>4, <1>5, <2>1 DEF MutexInv, CallRefs, Holding
  <2>2. ASSUME NEW f \in Entries, cleanup'[f].pc = "locked" PROVE entry'[cleanup'[f].entry].mu = f
    BY <1>3, <1>4, <2>2 DEF MutexInv, OtherRefs
  <2>. QED  BY <2>1, <2>2 DEF MutexInv
<1>n. Redis!NamesAccounted'
  <2>. DEFINE N(m) == {f \in Redis!Used : entry[f].poolName = m}
              M(m) == {f \in Redis!Used : entry'[f].poolName = m}
              n == entry[e].poolName
  <2> SUFFICES ASSUME NEW m \in Redis!Names PROVE held'[m] = Cardinality(M(m))
    BY <1>1, RedisCardinality DEF Redis!NamesAccounted
  <2>1. held[m] = Cardinality(N(m)) /\ IsFiniteSet(N(m))
    BY RedisCardinality, NamedFinite DEF Redis!NamesAccounted
  <2>2. held' = Redis!Release(n) /\ n \in Redis!Names \cup {Nobody} /\ Nobody # m
    BY <1>2 DEF Redis!Discard, Redis!EntryRec
  <2>3. CASE m = n
    <3>1. M(m) = N(m) \ {e} /\ e \in N(m)
      BY <1>1, <1>4, <2>2, <2>3
    <3>2. Cardinality(N(m) \ {e}) = Cardinality(N(m)) - 1
      <4>. HIDE DEF N
      <4>. QED  BY <2>1, <3>1, FS_RemoveElement
    <3>3. held'[m] = held[m] - 1
      BY <2>2, <2>3 DEF Redis!Release, RedisType
    <3>. QED  BY <2>1, <3>1, <3>2, <3>3
  <2>4. CASE m # n
    <3>1. M(m) = N(m)
      BY <1>1, <1>4, <2>2, <2>4
    <3>2. held'[m] = held[m]
      BY <2>2, <2>4 DEF Redis!Release, RedisType
    <3>. QED  BY <2>1, <3>1, <3>2
  <2>. QED  BY <2>3, <2>4
<1>. USE <1>1, <1>3, <1>4, <1>5, NoCallFields DEF Holding
<1>i1. OneAtAddress' /\ UnwrapShort' /\ EntryClients'
  BY DEF OneAtAddress, UnwrapShort, EntryClients
<1>i2. MapRefs' /\ CallRefs' /\ OtherRefs'
  BY SMTT(60) DEF MapRefs, CallRefs, OtherRefs
<1>i3. InMap' /\ EntryStatus' /\ WrapStatus'
  BY SMTT(60) DEF InMap, MapRefs, EntryStatus, WrapStatus, CallRefs
<1>i4. SureWrapped' /\ SureAlone'
  BY SMTT(60) DEF SureWrapped, MapRefs, Redis!Matches, Redis!Alive, SureAlone
<1>i5. CommitDue' /\ CleanupDue'
  BY SMTT(60) DEF CommitDue, CallRefs, CleanupDue
<1>. QED
  BY ONLY <1>t, <1>c, <1>m, <1>n, <1>i1, <1>i2, <1>i3, <1>i4, <1>i5 DEF RedisInv

\* Check: the entry in the map is of a client that is gone.
LEMMA CheckStale ==
  ASSUME RedisInv, NEW t \in Threads, Redis!Check(t),
         redisWrapped[AddrOf[call[t].client]] = call[t].entry,
         ~Redis!Matches(call[t].entry, call[t].client)
  PROVE  RedisInv'
<1>. USE RedisAssumption DEF RedisInv
<1>. DEFINE e == call[t].entry
<1>. USE DEF Holds
<1>1. /\ Holds(t) /\ call[t].op = "wrap" /\ call[t].pc = "locked"
      /\ UNCHANGED <<redisHeap, redisHooks, cleanup, redisCalls>>
  BY HoldsLemma DEF Redis!Check, Redis!At, Holding
<1>2. Redis!Discard(e) /\ UNCHANGED <<redisHeap, redisHooks, cleanup, redisCalls, sure>>
  BY DEF Redis!Check
<1>3. entry[e].client \notin sure
  BY <1>1 DEF SureWrapped, Redis!Matches, Redis!Alive, OneAtAddress, RedisType
<1>4. call' \in [Threads -> CallRec] /\ Leaves(t) /\ \A u \in Threads \ {t} : call'[u] = call[u]
  BY GotoMoves DEF Redis!Check, Leaves, Moves, Returns, PCs
<1>5. /\ cleanup' \in [Entries -> CleanupRec]
      /\ \A f \in Entries : cleanup[f].pc = "locked" => cleanup[f].entry # e
  BY <1>1, <1>2 DEF RedisType, MutexInv
<1>6. call[t].pc \in Holding
  BY <1>1 DEF Holding
<1>. QED
  BY <1>1, <1>2, <1>3, <1>4, <1>5, <1>6, DiscardKeeps

\* Wrap fails.
LEMMA WrapFailsStep ==
  ASSUME RedisInv, NEW t \in Threads, Redis!WrapFails(t)
  PROVE  RedisInv'
<1>. USE RedisAssumption DEF RedisInv
<1>. DEFINE e == call[t].entry
<1>. USE DEF Holds
<1>1. /\ Holds(t) /\ call[t].op = "wrap" /\ call[t].pc = "register"
      /\ UNCHANGED <<redisHeap, redisHooks, cleanup, redisCalls, sure>>
  BY HoldsLemma DEF Redis!WrapFails, Redis!At, Holding
<1>2. Redis!Discard(e) /\ UNCHANGED <<redisHeap, redisHooks, cleanup, redisCalls, sure>>
  BY DEF Redis!WrapFails
<1>3. entry[e].client \notin sure
  BY <1>1 DEF SureWrapped, WrapStatus, InMap, Holding
<1>4. call' \in [Threads -> CallRec] /\ Leaves(t) /\ \A u \in Threads \ {t} : call'[u] = call[u]
  BY ReturnReturns DEF Redis!WrapFails, Leaves, Moves, Returns, PCs
<1>5. /\ cleanup' \in [Entries -> CleanupRec]
      /\ \A f \in Entries : cleanup[f].pc = "locked" => cleanup[f].entry # e
  BY <1>1, <1>2 DEF RedisType, MutexInv
<1>6. call[t].pc \in Holding
  BY <1>1 DEF Holding
<1>. QED
  BY <1>1, <1>2, <1>3, <1>4, <1>5, <1>6, DiscardKeeps

\* Unwrap discards its client's entry.
LEMMA UnwrapDiscards ==
  ASSUME RedisInv, NEW t \in Threads, Redis!UnwrapLocked(t),
         Redis!Matches(call[t].entry, call[t].client)
  PROVE  RedisInv'
<1>. USE RedisAssumption DEF RedisInv
<1>. DEFINE e == call[t].entry
<1>. USE DEF Holds
<1>1. /\ Holds(t) /\ call[t].op = "unwrap" /\ call[t].pc = "locked"
      /\ UNCHANGED <<redisHeap, redisHooks, cleanup, redisCalls, sure>>
  BY HoldsLemma DEF Redis!UnwrapLocked, Redis!At, Holding
<1>2. Redis!Discard(e) /\ UNCHANGED <<redisHeap, redisHooks, cleanup, redisCalls, sure>>
  BY DEF Redis!UnwrapLocked
<1>3. entry[e].client \notin sure
  BY <1>1 DEF SureAlone, Redis!Matches
<1>4. call' \in [Threads -> CallRec] /\ Leaves(t) /\ \A u \in Threads \ {t} : call'[u] = call[u]
  BY ReturnReturns DEF Redis!UnwrapLocked, Leaves, Moves, Returns, PCs
<1>5. /\ cleanup' \in [Entries -> CleanupRec]
      /\ \A f \in Entries : cleanup[f].pc = "locked" => cleanup[f].entry # e
  BY <1>1, <1>2 DEF RedisType, MutexInv
<1>6. call[t].pc \in Holding
  BY <1>1 DEF Holding
<1>. QED
  BY <1>1, <1>2, <1>3, <1>4, <1>5, <1>6, DiscardKeeps

\* A cleanup discards its client's entry.
LEMMA CleanupDiscards ==
  ASSUME RedisInv, NEW e \in Entries, Redis!CleanupLocked(e),
         redisHeap[entry[cleanup[e].entry].client] # "live",
         entry[cleanup[e].entry].client = entry[e].client
  PROVE  RedisInv'
<1>. USE RedisAssumption DEF RedisInv
<1>. DEFINE f == cleanup[e].entry
<1>1. /\ cleanup[e].pc = "locked" /\ f \in Redis!Used /\ f \in Entries /\ entry[f].mu = e
      /\ cleanup' = [cleanup EXCEPT ![e].pc = "done"] /\ cleanup[e] \in CleanupRec
      /\ e \in Redis!Used
      /\ e \notin Threads
      /\ UNCHANGED <<redisHeap, redisHooks, call, redisCalls, sure>>
  BY UsedEntry DEF Redis!CleanupLocked, OtherRefs, RedisType, MutexInv, EntryClients
<1>0. /\ cleanup' \in [Entries -> CleanupRec]
      /\ cleanup'[e].pc = "done" /\ cleanup'[e].entry = f
      /\ \A g \in Entries \ {e} : cleanup'[g] = cleanup[g]
  BY <1>1 DEF RedisType, CleanupRec
<1>m. /\ \A u \in Threads : call[u].pc \in Holding => call[u].entry # f
      /\ \A g \in Entries \ {e} : cleanup[g].pc = "locked" => cleanup[g].entry # f
  BY <1>1 DEF MutexInv
<1>2. Redis!Discard(f)
  BY DEF Redis!CleanupLocked, Redis!Alive
<1>3. entry[f].client \notin sure
  BY <1>1 DEF SureWrapped, Redis!Matches, Redis!Alive
<1>4. call' \in [Threads -> CallRec] /\ \A u \in Threads : call'[u] = call[u]
  BY <1>1 DEF RedisType
<1>. QED
  BY <1>0, <1>1, <1>2, <1>3, <1>4, <1>m, DiscardKeeps

\* Check, whichever way it goes.
LEMMA CheckStep == ASSUME RedisInv, NEW t \in Threads, Redis!Check(t) PROVE RedisInv'
<1>1. CASE redisWrapped[AddrOf[call[t].client]] # call[t].entry
  BY <1>1, CheckOrphan
<1>2. CASE redisWrapped[AddrOf[call[t].client]] = call[t].entry
  <2>1. CASE ~Redis!Matches(call[t].entry, call[t].client)
    BY <1>2, <2>1, CheckStale
  <2>2. CASE Redis!Matches(call[t].entry, call[t].client) /\ entry[call[t].entry].done
    BY <1>2, <2>2, CheckDone
  <2>3. CASE Redis!Matches(call[t].entry, call[t].client) /\ ~entry[call[t].entry].done
    BY <1>2, <2>3, CheckNew
  <2>. QED  BY <2>1, <2>2, <2>3
<1>. QED  BY <1>1, <1>2

\* Nothing is wrapped at first.
LEMMA RedisInit == Redis!Init => RedisInv
<1> SUFFICES ASSUME Redis!Init PROVE RedisInv
  OBVIOUS
<1>1. RedisType
  BY RedisInitType
<1>2. Redis!Used = {}
  BY DEF Redis!Init, Redis!Used, Redis!Unused
<1>3. /\ \A t \in Threads : call[t] = Redis!NoCall
      /\ \A e \in Entries : cleanup[e].pc = "none"
      /\ \A c \in Clients : redisHeap[c] = "free" /\ redisHooks[c] = {}
      /\ \A a \in ClientAddrs : redisWrapped[a] = Nobody
      /\ \A n \in Redis!Names : held[n] = 0
      /\ sure = {}
  BY DEF Redis!Init
<1>4. /\ OneAtAddress /\ CallsLive /\ UnwrapShort /\ EntryClients
      /\ MapRefs /\ CallRefs /\ OtherRefs
  BY <1>2, <1>3, NoCallFields DEF OneAtAddress, CallsLive, UnwrapShort, EntryClients, MapRefs,
     CallRefs, OtherRefs
<1>5. MutexInv /\ InMap /\ EntryStatus /\ WrapStatus
  BY <1>2, <1>3, NoCallFields DEF MutexInv, InMap, EntryStatus, WrapStatus, Holding
<1>6. SureWrapped /\ SureAlone /\ CommitDue /\ CleanupDue
  BY <1>2, <1>3, NoCallFields DEF SureWrapped, SureAlone, CommitDue, CleanupDue
<1>7. Redis!NamesAccounted
  <2>1. \A n \in Redis!Names : {e \in Redis!Used : entry[e].poolName = n} = {}
    BY <1>2
  <2>. QED
    BY <1>3, <2>1, FS_EmptySet, RedisCardinality DEF Redis!NamesAccounted
<1>. QED
  BY <1>1, <1>4, <1>5, <1>6, <1>7 DEF RedisInv

\* Every step of Wrap, Unwrap, the collector and the cleanups keeps the invariant.
LEMMA RedisStep == RedisInv /\ [Redis!Next]_Redis!vars => RedisInv'
<1> SUFFICES ASSUME RedisInv, [Redis!Next]_Redis!vars PROVE RedisInv'
  OBVIOUS
<1>1. ASSUME NEW t \in Threads, NEW c \in Clients, NEW n \in Chosen \cup {Nobody},
             Redis!BeginWrap(t, c, n)
      PROVE  RedisInv'
  BY <1>1, BeginWrapStep
<1>2. ASSUME NEW t \in Threads, NEW c \in Clients, Redis!BeginUnwrap(t, c) PROVE RedisInv'
  BY <1>2, BeginUnwrapStep
<1>3. ASSUME NEW t \in Threads, Redis!WrapStep(t) PROVE RedisInv'
  <2>1. CASE Redis!LoadOrStore(t)
    BY <2>1, FoundStep, StoredStep
  <2>. QED
    BY <1>3, <2>1, LockStep, CheckStep, TakeNameStep, WrapFailsStep, RegisterStep, InstallStep,
       CommitStep DEF Redis!WrapStep
<1>4. ASSUME NEW t \in Threads, Redis!UnwrapStep(t) PROVE RedisInv'
  BY <1>4, UnwrapLoadStep, UnwrapDiscards, UnwrapOther DEF Redis!UnwrapStep
<1>5. ASSUME NEW a \in ClientAddrs, Redis!Allocate(a) PROVE RedisInv'
  BY <1>5, AllocateStep
<1>6. ASSUME NEW c \in Clients, Redis!Collect(c) PROVE RedisInv'
  BY <1>6, CollectStep
<1>7. ASSUME NEW e \in Entries, Redis!CleanupStep(e) PROVE RedisInv'
  BY <1>7, CleanupLoadStep, CleanupLockStep, CleanupDiscards, CleanupOther DEF Redis!CleanupStep
<1>8. CASE UNCHANGED Redis!vars
  <2>1. Redis!Used' = Redis!Used
    BY <1>8 DEF Redis!vars, Redis!Used, Redis!Unused
  <2>2. RedisType' /\ OneAtAddress' /\ CallsLive' /\ UnwrapShort' /\ EntryClients'
    BY <1>8, <2>1 DEF Redis!vars, RedisInv, RedisType, OneAtAddress, CallsLive, UnwrapShort,
       EntryClients
  <2>3. MapRefs' /\ CallRefs' /\ OtherRefs' /\ MutexInv'
    BY <1>8, <2>1 DEF Redis!vars, RedisInv, MapRefs, CallRefs, OtherRefs, MutexInv
  <2>4. InMap' /\ EntryStatus' /\ WrapStatus'
    BY <1>8, <2>1 DEF Redis!vars, RedisInv, InMap, EntryStatus, WrapStatus
  <2>5. SureWrapped' /\ SureAlone' /\ CommitDue' /\ CleanupDue'
    BY <1>8, <2>1 DEF Redis!vars, RedisInv, SureWrapped, SureAlone, CommitDue, CleanupDue,
       Redis!Matches, Redis!Alive
  <2>6. Redis!NamesAccounted'
    BY <1>8, <2>1, NamesKept DEF Redis!vars, RedisInv
  <2>. QED
    BY <2>2, <2>3, <2>4, <2>5, <2>6 DEF RedisInv
<1>9. CASE Redis!Terminated
  BY <1>8, <1>9 DEF Redis!Terminated
<1>. QED
  BY <1>1, <1>2, <1>3, <1>4, <1>5, <1>6, <1>7, <1>8, <1>9 DEF Redis!Next

\* What the invariant says of a moment at which nothing is under way.
LEMMA QuietLemma == RedisInv => Redis!NothingStranded
<1> SUFFICES ASSUME RedisInv, Redis!Quiet PROVE Redis!NothingStranded
  BY DEF Redis!NothingStranded
<1>. USE DEF RedisInv
<1>1. /\ \A t \in Threads : call[t].op = "none"
      /\ \A e \in Entries : cleanup[e].pc \in {"none", "done"}
  BY NoCallFields DEF Redis!Quiet
<1>2. \A e \in Redis!Used : e \in Entries /\ entry[e].client \in Clients
                            /\ AddrOf[entry[e].client] \in ClientAddrs
  BY UsedEntry DEF Redis!EntryRec
<1>3. ASSUME NEW a \in ClientAddrs, redisWrapped[a] # Nobody
      PROVE  entry[redisWrapped[a]].done /\ Redis!Alive(redisWrapped[a])
  <2>. DEFINE e == redisWrapped[a]
  <2>1. e \in Redis!Used /\ e \in Entries /\ ~entry[e].disabled
    BY <1>2, <1>3 DEF MapRefs, InMap
  <2>2. entry[e].done
    BY <1>1, <2>1 DEF CommitDue
  <2>3. redisHeap[entry[e].client] \notin {"free", "dead"}
    BY <1>1, <2>1 DEF CleanupDue, EntryClients
  <2>4. Redis!Alive(e)
    BY <1>2, <2>1, <2>3 DEF RedisType, Redis!Alive
  <2>. QED  BY <2>2, <2>4
<1>4. ASSUME NEW e \in Redis!Used, entry[e].reg \/ entry[e].poolName # Nobody
      PROVE  redisWrapped[AddrOf[entry[e].client]] = e
  BY <1>4 DEF EntryStatus, InMap
<1>. QED
  BY <1>3, <1>4 DEF Redis!NothingStranded

\* Whatever goroutines wrap and unwrap which clients, in whatever order, and
\* whenever the collector frees one and its cleanup runs: a Wrap that returned
\* success is in effect, a client has one live hook, the names in use are those
\* poolNames holds, and nothing is left of what failed or was collected.
THEOREM WrapTheorem == Redis!Spec => []WrapConsistent
<1>1. RedisInv => Redis!WrapTakesEffect
  <2> SUFFICES ASSUME RedisInv, NEW c \in sure
               PROVE  LET e == redisWrapped[AddrOf[c]]
                      IN  e # Nobody /\ Redis!Matches(e, c) /\ ~entry[e].disabled
                          /\ entry[e].reg /\ e \in redisHooks[c]
    BY DEF Redis!WrapTakesEffect
  <2>. DEFINE e == redisWrapped[AddrOf[c]]
  <2>1. e # Nobody /\ Redis!Matches(e, c) /\ entry[e].done /\ AddrOf[c] \in ClientAddrs
    BY RedisAssumption DEF RedisInv, RedisType, SureWrapped
  <2>2. e \in Redis!Used /\ entry[e].client = c
    BY <2>1 DEF RedisInv, MapRefs, Redis!Matches
  <2>3. ~entry[e].disabled
    BY <2>2 DEF RedisInv, InMap
  <2>. QED
    BY <2>1, <2>2, <2>3 DEF RedisInv, EntryStatus
<1>2. RedisInv => Redis!OneLiveHook
  BY DEF RedisInv, OtherRefs, InMap, Redis!OneLiveHook
<1>3. RedisInv => WrapConsistent
  BY <1>1, <1>2, QuietLemma DEF RedisInv, WrapConsistent
<1>. QED
  BY <1>3, RedisInit, RedisStep, PTL DEF Redis!Spec

\* Only the goroutine itself takes a name for its entry.
LEMMA OnlyTakeName ==
  ASSUME RedisInv, Redis!Next, NEW t \in Threads, Redis!At(t, "wrap", "name"),
         call'[t].pc = "register"
  PROVE  Redis!TakeName(t)
<1>0. /\ call \in [Threads -> CallRec] /\ call[t].op = "wrap" /\ call[t].pc = "name"
      /\ call[t] # Redis!NoCall
  BY NoCallFields DEF RedisInv, RedisType, Redis!At
<1>1. ASSUME NEW u \in Threads, NEW c \in Clients, NEW n \in Chosen \cup {Nobody},
             Redis!BeginWrap(u, c, n)
      PROVE  FALSE
  BY <1>0, <1>1 DEF Redis!BeginWrap
<1>2. ASSUME NEW u \in Threads, NEW c \in Clients, Redis!BeginUnwrap(u, c) PROVE FALSE
  <2>1. call'[t].pc = call[t].pc
    BY <1>0, <1>2 DEF Redis!BeginUnwrap, CallRec
  <2>. QED  BY <1>0, <2>1
<1>3. ASSUME NEW u \in Threads, u # t, Redis!WrapStep(u) \/ Redis!UnwrapStep(u)
      PROVE  FALSE
  <2>1. call'[t] = call[t]
    BY <1>0, <1>3 DEF Redis!WrapStep, Redis!UnwrapStep, Redis!LoadOrStore, Redis!Lock, Redis!Check,
       Redis!TakeName, Redis!WrapFails, Redis!Register, Redis!Install, Redis!Commit,
       Redis!UnwrapLoad, Redis!UnwrapLocked, Redis!Goto, Redis!Return
  <2>. QED  BY <1>0, <2>1
<1>4. CASE Redis!WrapStep(t) \/ Redis!UnwrapStep(t)
  BY <1>0, <1>4 DEF Redis!WrapStep, Redis!UnwrapStep, Redis!LoadOrStore, Redis!Lock, Redis!Check,
     Redis!WrapFails, Redis!Register, Redis!Install, Redis!Commit, Redis!UnwrapLoad,
     Redis!UnwrapLocked, Redis!At
<1>5. ASSUME UNCHANGED call PROVE FALSE
  BY <1>0, <1>5
<1>6. ASSUME NEW a \in ClientAddrs, Redis!Allocate(a) PROVE FALSE
  BY <1>5, <1>6 DEF Redis!Allocate
<1>7. ASSUME NEW c \in Clients, Redis!Collect(c) PROVE FALSE
  BY <1>5, <1>7 DEF Redis!Collect
<1>8. ASSUME NEW e \in Entries, Redis!CleanupStep(e) PROVE FALSE
  BY <1>5, <1>8 DEF Redis!CleanupStep, Redis!CleanupLoad, Redis!CleanupLock, Redis!CleanupLocked
<1>9. ~Redis!Terminated
  BY <1>5 DEF Redis!Terminated, Redis!vars
<1>. QED
  BY <1>1, <1>2, <1>3, <1>4, <1>6, <1>7, <1>8, <1>9 DEF Redis!Next

\* A default pool name collides with no name in use, chosen names and the shards'
\* names of a chosen one included.
THEOREM FreshNameTheorem == Redis!Spec => DefaultNameFresh
<1>. DEFINE Fresh(t) ==
       Redis!At(t, "wrap", "name") /\ call[t].name = Nobody /\ call'[t].pc = "register" =>
         LET n == entry'[call[t].entry].poolName[1]
         IN  \A e \in Redis!Used : entry[e].poolName # Nobody => entry[e].poolName[1] # n
<1>1. ASSUME RedisInv, Redis!Next, NEW t \in Threads PROVE Fresh(t)
  <2> SUFFICES ASSUME Redis!At(t, "wrap", "name"), call[t].name = Nobody,
                      call'[t].pc = "register",
                      NEW e \in Redis!Used, entry[e].poolName # Nobody
               PROVE  entry[e].poolName[1] # entry'[call[t].entry].poolName[1]
    OBVIOUS
  <2>. DEFINE n == Redis!Acquire
              f == call[t].entry
  <2>1. Redis!TakeName(t)
    BY <1>1, OnlyTakeName
  <2>2. n \in 1..MaxName /\ Redis!Free(n)
    BY <2>1, AcquireFree DEF Redis!TakeName
  <2>3. f \in Entries /\ entry[f] \in Redis!EntryRec
    BY <1>1, UsedEntry DEF RedisInv, CallRefs, Redis!At
  <2>4. entry'[f].poolName = <<n, "pool">>
    BY <1>1, <2>1, <2>3 DEF Redis!TakeName, RedisInv, RedisType, Redis!EntryRec
  <2>5. PICK m \in 1..MaxName, k \in {"pool", "shard"} : entry[e].poolName = <<m, k>>
    BY <1>1, UsedEntry DEF RedisInv, Redis!EntryRec, Redis!Names
  <2>6. ASSUME m = n PROVE FALSE
    <3>. DEFINE S == {g \in Redis!Used : entry[g].poolName = <<n, k>>}
    <3>1. held[<<n, k>>] = 0 /\ <<n, k>> \in Redis!Names
      BY <2>2 DEF Redis!Free, Redis!Names
    <3>2. Cardinality(S) = 0 /\ IsFiniteSet(S)
      BY <1>1, <3>1, RedisCardinality, NamedFinite DEF RedisInv, Redis!NamesAccounted
    <3>3. S = {}
      BY <3>2, FS_EmptySet
    <3>. QED  BY <2>5, <2>6, <3>3
  <2>. QED  BY <2>4, <2>5, <2>6
<1>2. RedisInv /\ [Redis!Next]_Redis!vars => [\A t \in Threads : Fresh(t)]_Redis!vars
  BY <1>1
<1>. QED
  BY <1>2, RedisInit, RedisStep, PTL DEF Redis!Spec, DefaultNameFresh, Redis!DefaultNameFresh
=============================================================================
