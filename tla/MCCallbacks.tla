---------------------------- MODULE MCCallbacks -----------------------------
(***************************************************************************)
(* Two packages that hear of their driver through callbacks: Resty's hooks *)
(* around the attempts of a request, and the tracker of MongoDB's pool     *)
(* events.  They do not meet: each has variables of its own, and in the    *)
(* run each moves by itself.                                               *)
(***************************************************************************)
EXTENDS RestyHook, TLC

CONSTANTS
  Pools, IDs, Sizes, MaxWaiting, MaxIdle, Sharing

VARIABLES
  shared, pool, conn, waiting, state, gauge, disabled

poolVars == <<shared, pool, conn, waiting, state, gauge, disabled>>

Pool == INSTANCE MongoPool

\* The sizes of a pool are unsigned.
ASSUME SizesAssumption == Sizes \subseteq [min : Nat, max : Nat]

-----------------------------------------------------------------------------

\* MongoDB: the gauges say what the pools hold, as far as the events tell them apart.
PoolGaugesExact == Pool!GaugesMatchPool /\ Pool!PendingExact /\ Pool!LastCloseClears

\* MongoDB: once every pool and every connection is closed, the idle gauge is zero.
HealsWhenDrained == Pool!HealsWhenDrained

-----------------------------------------------------------------------------
(***************************************************************************)
(* The instance the run checks.  Resty's hooks: up to two retries and      *)
(* errors that overlap, a cancellation and a deadline in one chain, either *)
(* within a failed network operation, a TLS failure within one. MongoDB's  *)
(* pool events: two pools, alone or behind one address.                    *)
(***************************************************************************)

SomeFailures ==
  {{}, {"protocol"}, {"op"}, {"op", "tls"}, {"canceled"}, {"op", "deadline"},
   {"canceled", "deadline"}}

FewFailures == {{"op"}, {"canceled"}}

\* A bounded pool and an unbounded one.
TwoSizes == {[min |-> 1, max |-> 2], [min |-> 0, max |-> 0]}

Symmetric == Permutations(Pools) \cup Permutations(IDs)

VARIABLE which

CallbacksInit ==
  /\ which \in {"resty", "mongo"}
  /\ Init /\ Pool!Init
  /\ which = "resty" => ~shared
  /\ which = "mongo" => retryCount = 0 /\ dest = "absolute" /\ ~conditions

CallbacksNext ==
  \/ which = "resty" /\ Next /\ UNCHANGED <<which, poolVars>>
  \/ which = "mongo" /\ Pool!Next /\ UNCHANGED <<which, vars>>

CallbacksSpec == CallbacksInit /\ [][CallbacksNext]_<<which, vars, poolVars>>
=============================================================================
