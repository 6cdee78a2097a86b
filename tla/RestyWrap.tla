------------------------------ MODULE RestyWrap ------------------------------
(***************************************************************************)
(* resty.Wrap and its table of wrapped clients (resty/client.go), seen     *)
(* from one address: clients live there one after the other, goroutines    *)
(* wrap the one that is there, and the cleanup of a collected client runs  *)
(* when it runs.                                                           *)
(***************************************************************************)
EXTENDS Naturals, Sequences, FiniteSets

CONSTANTS Goroutines,    \* goroutines that may call Wrap
          MaxClients,    \* clients at the address, a bound of the model
          MaxCalls       \* calls of Wrap, a bound of the model

None == 0

VARIABLES
  made,       \* clients made: the live one is the last, if any
  live,       \* the client at the address, or None
  hooks,      \* client -> hook sets installed on it
  wrapped,    \* clients of which a Wrap has returned
  calls,      \* calls made
  pc,         \* goroutine -> "idle", "start", "lock" or "locked"
  arg,        \* goroutine -> the client it wraps
  at,         \* goroutine -> the entry it holds or waits for
  entries,    \* the wrapEntry values stored so far: [ref, done]
  holder,     \* entry -> the goroutine that holds its mu, or None
  table,      \* wrappedClients: the entry of the address, or None
  queued,     \* cleanups to run, a client for each
  cleaning    \* the cleanup running: {} or {[ref, entry]}

vars == <<made, live, hooks, wrapped, calls, pc, arg, at, entries, holder, table, queued, cleaning>>
callers == <<made, live, wrapped, calls, arg>>

Init ==
  /\ made = 0 /\ live = None /\ hooks = <<>> /\ wrapped = {} /\ calls = 0
  /\ pc = [g \in Goroutines |-> "idle"] /\ arg = [g \in Goroutines |-> None]
  /\ at = [g \in Goroutines |-> None]
  /\ entries = <<>> /\ holder = <<>> /\ table = None /\ queued = {} /\ cleaning = {}

-----------------------------------------------------------------------------
(* The program around Wrap (external) *)

Allocate ==
  /\ live = None /\ made < MaxClients
  /\ made' = made + 1 /\ live' = made + 1 /\ hooks' = Append(hooks, 0)
  /\ UNCHANGED <<wrapped, calls, pc, arg, at, entries, holder, table, queued, cleaning>>

Call(g) ==
  /\ pc[g] = "idle" /\ live # None /\ calls < MaxCalls
  /\ pc' = [pc EXCEPT ![g] = "start"] /\ arg' = [arg EXCEPT ![g] = live] /\ calls' = calls + 1
  /\ UNCHANGED <<made, live, hooks, wrapped, at, entries, holder, table, queued, cleaning>>

\* The collector frees a client no Wrap holds; its cleanup, if Wrap added one, is queued.
Collect ==
  /\ live # None /\ \A g \in Goroutines : pc[g] = "idle"
  /\ live' = None
  /\ queued' = IF hooks[live] > 0 THEN queued \cup {live} ELSE queued
  /\ UNCHANGED <<made, hooks, wrapped, calls, pc, arg, at, entries, holder, table, cleaning>>

-----------------------------------------------------------------------------
(* Wrap *)

LoadOrStore(g) ==
  /\ pc[g] = "start"
  /\ pc' = [pc EXCEPT ![g] = "lock"]
  /\ IF table # None
     THEN at' = [at EXCEPT ![g] = table] /\ UNCHANGED <<entries, holder, table>>
     ELSE /\ entries' = Append(entries, [ref |-> arg[g], done |-> FALSE])
          /\ holder' = Append(holder, None)
          /\ table' = Len(entries) + 1
          /\ at' = [at EXCEPT ![g] = Len(entries) + 1]
  /\ UNCHANGED <<callers, hooks, queued, cleaning>>

Lock(g) ==
  /\ pc[g] = "lock" /\ holder[at[g]] = None
  /\ pc' = [pc EXCEPT ![g] = "locked"] /\ holder' = [holder EXCEPT ![at[g]] = g]
  /\ UNCHANGED <<callers, hooks, at, entries, table, queued, cleaning>>

\* Faulty variant: the entry found is taken for the client's own.
MineAnyway(g) == TRUE

\* entry.ref.Value() == rc
Mine(g) == entries[at[g]].ref = arg[g]

Unlock(g, next) ==
  /\ holder' = [holder EXCEPT ![at[g]] = None] /\ pc' = [pc EXCEPT ![g] = next]
  /\ at' = [at EXCEPT ![g] = None]

\* Faulty variant: the entry of a client now gone is left in the table.
RetryKeep(g) ==
  /\ pc[g] = "locked" /\ (table # at[g] \/ ~Mine(g))
  /\ Unlock(g, "start")
  /\ UNCHANGED <<callers, hooks, entries, table, queued, cleaning>>

\* The entry is no longer in the table, or is that of a client now gone: again.
Retry(g) ==
  /\ pc[g] = "locked" /\ (table # at[g] \/ ~Mine(g))
  /\ table' = IF table = at[g] THEN None ELSE table
  /\ Unlock(g, "start")
  /\ UNCHANGED <<callers, hooks, entries, queued, cleaning>>

\* Faulty variant: done is not looked at.
AlreadyDoneNever(g) == FALSE

AlreadyDone(g) == entries[at[g]].done

\* Install the hooks and the cleanup, unless that was done.
Install(g) ==
  /\ pc[g] = "locked" /\ table = at[g] /\ Mine(g)
  /\ hooks' = IF AlreadyDone(g) THEN hooks ELSE [hooks EXCEPT ![arg[g]] = @ + 1]
  /\ entries' = [entries EXCEPT ![at[g]].done = TRUE]
  /\ wrapped' = wrapped \cup {arg[g]}
  /\ Unlock(g, "idle")
  /\ UNCHANGED <<made, live, calls, arg, table, queued, cleaning>>

-----------------------------------------------------------------------------
(* cleanupWrappedClient *)

CleanupLoad(c) ==
  /\ c \in queued /\ cleaning = {}
  /\ queued' = queued \ {c}
  /\ cleaning' = IF table = None THEN {} ELSE {[ref |-> c, entry |-> table]}
  /\ UNCHANGED <<callers, hooks, pc, at, entries, holder, table>>

\* Faulty variant: whatever entry is there goes.
StaleAlways(k) == TRUE

Stale(k) == entries[k.entry].ref = k.ref /\ k.ref # live

\* Lock, decide, CompareAndDelete, unlock.
CleanupDelete(k) ==
  /\ k \in cleaning /\ holder[k.entry] = None
  /\ table' = IF Stale(k) /\ table = k.entry THEN None ELSE table
  /\ cleaning' = {}
  /\ UNCHANGED <<callers, hooks, pc, at, entries, holder, queued>>

Step(g) == LoadOrStore(g) \/ Lock(g) \/ Retry(g) \/ Install(g)

Next ==
  \/ Allocate \/ Collect
  \/ \E g \in Goroutines : Call(g) \/ Step(g)
  \/ \E c \in queued : CleanupLoad(c)
  \/ \E k \in cleaning : CleanupDelete(k)

Spec == Init /\ [][Next]_vars

\* Goroutines run, and a sync.Mutex starves nobody.
Fairness ==
  /\ \A g \in Goroutines : WF_vars(LoadOrStore(g) \/ Retry(g) \/ Install(g)) /\ SF_vars(Lock(g))
  /\ WF_vars(\E c \in queued : CleanupLoad(c)) /\ WF_vars(\E k \in cleaning : CleanupDelete(k))

-----------------------------------------------------------------------------

(***************************************************************************)
(* Every client of which a Wrap has returned has its hooks exactly once,   *)
(* though its address had an earlier owner, whose entry it may find and    *)
(* whose cleanup may run at any moment; and when nothing is left to run    *)
(* and no client is there, the table holds nothing.                        *)
(***************************************************************************)
HookedOnce ==
  /\ \A c \in 1..made : hooks[c] <= 1
  /\ \A c \in wrapped : hooks[c] = 1
  /\ live = None /\ queued = {} /\ cleaning = {} => table = None

\* Wrap returns: a stale entry costs a turn of its loop, not a loop for ever.
WrapReturns == \A g \in Goroutines : pc[g] = "start" ~> pc[g] = "idle"
=============================================================================
