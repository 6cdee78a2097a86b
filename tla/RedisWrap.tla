------------------------------ MODULE RedisWrap ------------------------------
(***************************************************************************)
(* Wrap and Unwrap of redis/client.go, called from several goroutines, and *)
(* the cleanup the runtime runs when a wrapped client was collected.  They *)
(* meet in wrappedClients, a sync.Map from a client's address to its       *)
(* entry, in each entry's mutex, and in poolNames, the pool names that are *)
(* held.  A client's address is free for another one once it is collected, *)
(* which may be before its cleanup has run.                                *)
(*                                                                         *)
(* All clients here share a pool-name base, which is where names meet:     *)
(* <<n, "pool">> is <base>-<n> and <<n, "shard">> one of the names a       *)
(* Cluster or Ring named <base>-<n> gives its shards.                      *)
(*                                                                         *)
(* External: the Go runtime (weak pointers are cleared when the cleanups   *)
(* of an object are queued, and Cleanup.Stop does not recall one that is   *)
(* queued) and go-redis, which has no way to take a hook back.             *)
(***************************************************************************)
EXTENDS Naturals, FiniteSets

CONSTANTS
  Clients,    \* go-redis clients, over the life of the process
  Addrs,      \* addresses
  AddrOf,     \* where each client is allocated
  Threads,    \* goroutines that call Wrap and Unwrap
  Entries,    \* the wrapEntry allocations the model can hold
  MaxName,    \* bound on the numbers of pool names
  Chosen,     \* names WithPoolName gives
  MaxCalls,   \* bound on the calls
  None        \* nil: no entry, name, client, or holder of a mutex

Names == (1 .. MaxName) \X {"pool", "shard"}

VARIABLES
  heap,      \* each client: "free" until it is allocated, "live", "dead"
  wrapped,   \* wrappedClients
  entry,     \* the entries
  held,      \* poolNames.held
  hooks,     \* the entries whose hook each client has
  call,      \* the call each goroutine makes
  cleanup,   \* the cleanup function of each entry, once queued
  calls,     \* calls so far
  sure       \* clients that a Wrap no Unwrap overlapped or followed has wrapped

vars == <<heap, wrapped, entry, held, hooks, call, cleanup, calls, sure>>

NoCall == [op |-> "none", client |-> None, name |-> None, pc |-> "idle",
           entry |-> None, alone |-> TRUE]

\* wrapEntry; mu is whoever has the mutex, a goroutine or the cleanup of an entry.
EntryRec ==
  [client : Clients, done : BOOLEAN, disabled : BOOLEAN, reg : BOOLEAN,
   poolName : Names \cup {None}, gc : {"none", "armed", "stopped"},
   mu : Threads \cup Entries \cup {None}]

NewEntry(c) == [client |-> c, done |-> FALSE, disabled |-> FALSE, reg |-> FALSE,
                poolName |-> None, gc |-> "none", mu |-> None]

Unused == {e \in Entries : entry[e] = None}

\* A new entry; which one makes no difference.
Fresh == CHOOSE e \in Unused : TRUE
Used   == Entries \ Unused

\* clientRef: a weak pointer to the client.
Alive(e) == heap[entry[e].client] = "live"
Matches(e, c) == Alive(e) /\ entry[e].client = c
-----------------------------------------------------------------------------
(***************************************************************************)
(* poolNameAllocator.                                                      *)
(***************************************************************************)

\* Faulty variant: the names callers chose for shards are not looked at.
FreeUnprefixed(n) == held[<<n, "pool">>] = 0

\* free: nobody holds the name, or a shard's name derived from it.
Free(n) == held[<<n, "pool">>] = 0 /\ held[<<n, "shard">>] = 0

\* acquire: the lowest number that is free.
Acquire == CHOOSE n \in 1 .. MaxName : Free(n) /\ \A m \in 1 .. (n - 1) : ~Free(m)

Hold(name) == [held EXCEPT ![name] = @ + 1]

Release(name) == IF name = None THEN held ELSE [held EXCEPT ![name] = @ - 1]
-----------------------------------------------------------------------------
(***************************************************************************)
(* wrapEntry.                                                              *)
(***************************************************************************)

\* Faulty variant: the name is given back and remembered.
DetachKeepsName(x) ==
  [x EXCEPT !.disabled = TRUE, !.reg = FALSE, !.gc = IF @ = "armed" THEN "stopped" ELSE @]

\* Faulty variant: the hooks are not told.
DetachEnabled(x) ==
  [x EXCEPT !.reg = FALSE, !.poolName = None, !.gc = IF @ = "armed" THEN "stopped" ELSE @]

\* What detach leaves of entry x; the name goes back to poolNames.
Detach(x) ==
  [x EXCEPT !.disabled = TRUE, !.reg = FALSE, !.poolName = None,
            !.gc = IF @ = "armed" THEN "stopped" ELSE @]

\* detach, CompareAndDelete and Unlock.
Discard(e) ==
  LET key == AddrOf[entry[e].client]
  IN  /\ held' = Release(entry[e].poolName)
      /\ entry' = [entry EXCEPT ![e] = [Detach(@) EXCEPT !.mu = None]]
      /\ wrapped' = IF wrapped[key] = e THEN [wrapped EXCEPT ![key] = None] ELSE wrapped

Unlock(e) == entry' = [entry EXCEPT ![e].mu = None]

Goto(t, pc) == call' = [call EXCEPT ![t].pc = pc]
Return(t) == call' = [call EXCEPT ![t] = NoCall]

At(t, op, pc) == call[t].op = op /\ call[t].pc = pc
-----------------------------------------------------------------------------
(***************************************************************************)
(* Wrap.                                                                   *)
(***************************************************************************)

\* alone: no Unwrap of the client overlaps the call.
BeginWrap(t, c, name) ==
  /\ call[t] = NoCall /\ heap[c] = "live" /\ calls < MaxCalls
  /\ calls' = calls + 1
  /\ call' = [call EXCEPT ![t] =
       [op |-> "wrap", client |-> c, name |-> name, pc |-> "load", entry |-> None,
        alone |-> \A u \in Threads : call[u].op # "unwrap" \/ call[u].client # c]]
  /\ UNCHANGED <<heap, wrapped, entry, held, hooks, cleanup, sure>>

\* LoadOrStore of a fresh entry.
LoadOrStore(t) ==
  LET key == AddrOf[call[t].client]
  IN  /\ At(t, "wrap", "load")
      /\ \/ /\ wrapped[key] # None
            /\ call' = [call EXCEPT ![t].pc = "lock", ![t].entry = wrapped[key]]
            /\ UNCHANGED <<wrapped, entry>>
         \/ /\ wrapped[key] = None
            /\ Unused # {}
            /\ entry' = [entry EXCEPT ![Fresh] = NewEntry(call[t].client)]
            /\ wrapped' = [wrapped EXCEPT ![key] = Fresh]
            /\ call' = [call EXCEPT ![t].pc = "lock", ![t].entry = Fresh]
      /\ UNCHANGED <<heap, held, hooks, cleanup, calls, sure>>

\* entry.mu.Lock, in Wrap and in Unwrap.
Lock(t) ==
  /\ call[t].pc = "lock"
  /\ entry[call[t].entry].mu = None
  /\ entry' = [entry EXCEPT ![call[t].entry].mu = t]
  /\ Goto(t, "locked")
  /\ UNCHANGED <<heap, wrapped, held, hooks, cleanup, calls, sure>>

\* Faulty variant: the entry is not looked up again.
CheckUncanonical(t) ==
  LET e == call[t].entry
      c == call[t].client
  IN  /\ At(t, "wrap", "locked")
      /\ \/ /\ ~Matches(e, c)
            /\ Discard(e) /\ Goto(t, "load")
            /\ UNCHANGED sure
         \/ /\ Matches(e, c) /\ entry[e].done
            /\ Unlock(e) /\ Return(t)
            /\ sure' = IF call[t].alone THEN sure \cup {c} ELSE sure
            /\ UNCHANGED <<wrapped, held>>
         \/ /\ Matches(e, c) /\ ~entry[e].done
            /\ Goto(t, "name")
            /\ UNCHANGED <<entry, wrapped, held, sure>>
      /\ UNCHANGED <<heap, hooks, cleanup, calls>>

\* Faulty variant: an orphan is locked again.
CheckRelocks(t) ==
  LET e == call[t].entry
      c == call[t].client
      canonical == wrapped[AddrOf[c]] = e
  IN  /\ At(t, "wrap", "locked")
      /\ \/ /\ ~canonical
            /\ Unlock(e) /\ Goto(t, "lock")
            /\ UNCHANGED <<wrapped, held, sure>>
         \/ /\ canonical /\ ~Matches(e, c)
            /\ Discard(e) /\ Goto(t, "load")
            /\ UNCHANGED sure
         \/ /\ canonical /\ Matches(e, c) /\ entry[e].done
            /\ Unlock(e) /\ Return(t)
            /\ sure' = IF call[t].alone THEN sure \cup {c} ELSE sure
            /\ UNCHANGED <<wrapped, held>>
         \/ /\ canonical /\ Matches(e, c) /\ ~entry[e].done
            /\ Goto(t, "name")
            /\ UNCHANGED <<entry, wrapped, held, sure>>
      /\ UNCHANGED <<heap, hooks, cleanup, calls>>

\* With the mutex: is the entry still in the map (canonicity), is it this
\* client's (identity), has a Wrap committed it?
Check(t) ==
  LET e == call[t].entry
      c == call[t].client
      canonical == wrapped[AddrOf[c]] = e
  IN  /\ At(t, "wrap", "locked")
      /\ \/ /\ ~canonical
            /\ Unlock(e) /\ Goto(t, "load")
            /\ UNCHANGED <<wrapped, held, sure>>
         \/ /\ canonical /\ ~Matches(e, c)
            /\ Discard(e) /\ Goto(t, "load")
            /\ UNCHANGED sure
         \/ /\ canonical /\ Matches(e, c) /\ entry[e].done
            /\ Unlock(e) /\ Return(t)
            /\ sure' = IF call[t].alone THEN sure \cup {c} ELSE sure
            /\ UNCHANGED <<wrapped, held>>
         \/ /\ canonical /\ Matches(e, c) /\ ~entry[e].done
            /\ Goto(t, "name")
            /\ UNCHANGED <<entry, wrapped, held, sure>>
      /\ UNCHANGED <<heap, hooks, cleanup, calls>>

\* The pool's name: the caller's, or the lowest free default.
TakeName(t) ==
  LET name == IF call[t].name # None THEN call[t].name ELSE <<Acquire, "pool">>
  IN  /\ At(t, "wrap", "name")
      /\ call[t].name # None \/ \E n \in 1 .. MaxName : Free(n)
      /\ held' = Hold(name)
      /\ entry' = [entry EXCEPT ![call[t].entry].poolName = name]
      /\ Goto(t, "register")
      /\ UNCHANGED <<heap, wrapped, hooks, cleanup, calls, sure>>

\* An instrument, or the metric callback, cannot be had: a strict error.
WrapFails(t) ==
  /\ At(t, "wrap", "register")
  /\ Discard(call[t].entry)
  /\ Return(t)
  /\ UNCHANGED <<heap, hooks, cleanup, calls, sure>>

Register(t) ==
  /\ At(t, "wrap", "register")
  /\ entry' = [entry EXCEPT ![call[t].entry].reg = TRUE]
  /\ Goto(t, "install")
  /\ UNCHANGED <<heap, wrapped, held, hooks, cleanup, calls, sure>>

\* The hook is added.  On a Cluster or Ring some shards may not be reached; the
\* entry is committed all the same.
Install(t) ==
  /\ At(t, "wrap", "install")
  /\ hooks' = [hooks EXCEPT ![call[t].client] = @ \cup {call[t].entry}]
  /\ Goto(t, "commit")
  /\ UNCHANGED <<heap, wrapped, entry, held, cleanup, calls, sure>>

Commit(t) ==
  LET e == call[t].entry
  IN  /\ At(t, "wrap", "commit")
      /\ entry' = [entry EXCEPT ![e].done = TRUE, ![e].gc = "armed", ![e].mu = None]
      /\ sure' = IF call[t].alone THEN sure \cup {call[t].client} ELSE sure
      /\ Return(t)
      /\ UNCHANGED <<heap, wrapped, held, hooks, cleanup, calls>>
-----------------------------------------------------------------------------
(***************************************************************************)
(* Unwrap.                                                                 *)
(***************************************************************************)
BeginUnwrap(t, c) ==
  /\ call[t] = NoCall /\ heap[c] = "live" /\ calls < MaxCalls
  /\ calls' = calls + 1
  /\ call' = [u \in Threads |->
       IF u = t THEN [NoCall EXCEPT !.op = "unwrap", !.client = c, !.pc = "load"]
       ELSE IF call[u].op = "wrap" /\ call[u].client = c
         THEN [call[u] EXCEPT !.alone = FALSE] ELSE call[u]]
  /\ sure' = sure \ {c}
  /\ UNCHANGED <<heap, wrapped, entry, held, hooks, cleanup>>

UnwrapLoad(t) ==
  LET e == wrapped[AddrOf[call[t].client]]
  IN  /\ At(t, "unwrap", "load")
      /\ \/ e = None /\ Return(t)
         \/ e # None /\ call' = [call EXCEPT ![t].pc = "lock", ![t].entry = e]
      /\ UNCHANGED <<heap, wrapped, entry, held, hooks, cleanup, calls, sure>>

\* Whether the entry is still in the map is not asked: one that was detached is
\* detached once more.
UnwrapLocked(t) ==
  LET e == call[t].entry
  IN  /\ At(t, "unwrap", "locked")
      /\ \/ Matches(e, call[t].client) /\ Discard(e)
         \/ ~Matches(e, call[t].client) /\ Unlock(e) /\ UNCHANGED <<wrapped, held>>
      /\ Return(t)
      /\ UNCHANGED <<heap, hooks, cleanup, calls, sure>>
-----------------------------------------------------------------------------
(***************************************************************************)
(* The runtime and cleanupWrappedClient.                                   *)
(***************************************************************************)
Allocate(a) ==
  LET free == {c \in Clients : AddrOf[c] = a /\ heap[c] = "free"}
      c    == CHOOSE d \in free : TRUE
  IN  /\ free # {}
      /\ \A d \in Clients : AddrOf[d] = a => heap[d] # "live"
      /\ heap' = [heap EXCEPT ![c] = "live"]
      /\ UNCHANGED <<wrapped, entry, held, hooks, call, cleanup, calls, sure>>

\* A client no call refers to becomes unreachable; its cleanups are queued.
Collect(c) ==
  /\ heap[c] = "live"
  /\ \A t \in Threads : call[t].client # c
  /\ heap' = [heap EXCEPT ![c] = "dead"]
  /\ cleanup' = [e \in Entries |->
       IF entry[e] # None /\ entry[e].client = c /\ entry[e].gc = "armed"
         THEN [pc |-> "load", entry |-> None] ELSE cleanup[e]]
  /\ sure' = sure \ {c}
  /\ UNCHANGED <<wrapped, entry, held, hooks, call, calls>>

CleanupLoad(e) ==
  LET f == wrapped[AddrOf[entry[e].client]]
  IN  /\ cleanup[e].pc = "load"
      /\ cleanup' = [cleanup EXCEPT ![e] =
           IF f = None THEN [pc |-> "done", entry |-> None] ELSE [pc |-> "lock", entry |-> f]]
      /\ UNCHANGED <<heap, wrapped, entry, held, hooks, call, calls, sure>>

CleanupLock(e) ==
  LET f == cleanup[e].entry
  IN  /\ cleanup[e].pc = "lock"
      /\ entry[f].mu = None
      /\ entry' = [entry EXCEPT ![f].mu = e]
      /\ cleanup' = [cleanup EXCEPT ![e].pc = "locked"]
      /\ UNCHANGED <<heap, wrapped, held, hooks, call, calls, sure>>

\* Faulty variant: whatever is at the address is discarded.
CleanupLockedAny(e) ==
  /\ cleanup[e].pc = "locked"
  /\ Discard(cleanup[e].entry)
  /\ cleanup' = [cleanup EXCEPT ![e].pc = "done"]
  /\ UNCHANGED <<heap, hooks, call, calls, sure>>

\* The entry at the address is discarded if its client is the collected one.
CleanupLocked(e) ==
  LET f == cleanup[e].entry
      stale == ~Alive(f) /\ entry[f].client = entry[e].client
  IN  /\ cleanup[e].pc = "locked"
      /\ \/ stale /\ Discard(f)
         \/ ~stale /\ Unlock(f) /\ UNCHANGED <<wrapped, held>>
      /\ cleanup' = [cleanup EXCEPT ![e].pc = "done"]
      /\ UNCHANGED <<heap, hooks, call, calls, sure>>
-----------------------------------------------------------------------------
Quiet ==
  /\ \A t \in Threads : call[t] = NoCall
  /\ \A e \in Entries : cleanup[e].pc \in {"none", "done"}

\* The bound on the calls is reached, or every client is gone.
Terminated ==
  /\ Quiet
  /\ calls = MaxCalls \/ \A c \in Clients : heap[c] = "dead"
  /\ UNCHANGED vars

Init ==
  /\ heap = [c \in Clients |-> "free"]
  /\ wrapped = [a \in Addrs |-> None]
  /\ entry = [e \in Entries |-> None]
  /\ held = [n \in Names |-> 0]
  /\ hooks = [c \in Clients |-> {}]
  /\ call = [t \in Threads |-> NoCall]
  /\ cleanup = [e \in Entries |-> [pc |-> "none", entry |-> None]]
  /\ calls = 0
  /\ sure = {}

WrapStep(t) ==
  \/ LoadOrStore(t)
  \/ Lock(t)
  \/ Check(t)
  \/ TakeName(t)
  \/ WrapFails(t)
  \/ Register(t)
  \/ Install(t)
  \/ Commit(t)

UnwrapStep(t) == UnwrapLoad(t) \/ UnwrapLocked(t)

CleanupStep(e) == CleanupLoad(e) \/ CleanupLock(e) \/ CleanupLocked(e)

Next ==
  \/ \E t \in Threads :
       \/ \E c \in Clients :
            \/ \E name \in Chosen \cup {None} : BeginWrap(t, c, name)
            \/ BeginUnwrap(t, c)
       \/ WrapStep(t)
       \/ UnwrapStep(t)
  \/ (\E a \in Addrs : Allocate(a)) \/ (\E c \in Clients : Collect(c))
  \/ \E e \in Entries : CleanupStep(e)
  \/ Terminated

Spec == Init /\ [][Next]_vars

(***************************************************************************)
(* Fairness: goroutines that can run do, the runtime's cleanup goroutine   *)
(* too.  Nobody has to call Wrap or Unwrap, or drop a client.              *)
(***************************************************************************)
Fairness ==
  /\ \A t \in Threads : WF_vars(WrapStep(t) \/ UnwrapStep(t))
  /\ \A e \in Entries : WF_vars(CleanupStep(e))
-----------------------------------------------------------------------------
(***************************************************************************)
(* Properties.                                                             *)
(***************************************************************************)

\* A client a Wrap has returned success for, and no Unwrap overlapped that call
\* or was made since, is instrumented: its entry is in the map, is enabled and
\* observes the pool, and its hook is on the client.
WrapTakesEffect ==
  \A c \in sure :
    LET e == wrapped[AddrOf[c]]
    IN  e # None /\ Matches(e, c) /\ ~entry[e].disabled /\ entry[e].reg /\ e \in hooks[c]

\* No command is recorded twice: of the hooks a client has gathered, which stay
\* for good, at most one is enabled, and it is the one Unwrap will find.
OneLiveHook ==
  \A c \in Clients : \A e \in hooks[c] :
    heap[c] = "live" /\ ~entry[e].disabled => wrapped[AddrOf[c]] = e

\* poolNames knows exactly the names that entries hold: none is given back
\* twice or kept by an entry that is gone.
NamesAccounted ==
  \A n \in Names : held[n] = Cardinality({e \in Used : entry[e].poolName = n})

\* A default name is never handed out on top of one in use, a chosen name or the
\* name of a chosen name's shard included.
DefaultNameFresh ==
  [][\A t \in Threads :
       At(t, "wrap", "name") /\ call[t].name = None /\ call'[t].pc = "register" =>
         LET n == entry'[call[t].entry].poolName[1]
         IN  \A e \in Used : entry[e].poolName # None => entry[e].poolName[1] # n]_vars

\* When no call is under way and no cleanup is due, whatever failed, was undone
\* or was collected has left nothing: the map has committed entries of live
\* clients only, and no other entry has a name or a metric callback.
NothingStranded ==
  Quiet =>
    /\ \A a \in Addrs : wrapped[a] # None => entry[wrapped[a]].done /\ Alive(wrapped[a])
    /\ \A e \in Used : entry[e].reg \/ entry[e].poolName # None =>
         wrapped[AddrOf[entry[e].client]] = e

\* Wrap and Unwrap return and a queued cleanup ends: neither the restarts nor
\* the mutexes keep one for good.
CallsReturn ==
  /\ \A t \in Threads : call[t] # NoCall ~> call[t] = NoCall
  /\ \A e \in Entries : cleanup[e].pc = "load" ~> cleanup[e].pc = "done"
=============================================================================
