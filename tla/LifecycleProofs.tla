--------------------------- MODULE LifecycleProofs ---------------------------
(***************************************************************************)
(* Proofs about the life of an SDK: the calls of Shutdown and ForceFlush   *)
(* on one instance, for any number of callers, flushes, closers and any    *)
(* deadlines; and the instances of a process, for any number of Init calls *)
(* and whatever pillars each asks for.                                     *)
(***************************************************************************)
EXTENDS MCLifecycle, FiniteSetTheorems, SequenceTheorems, TLAPS

-----------------------------------------------------------------------------
(***************************************************************************)
(* Shutdown and ForceFlush.  The inductive invariant Inv has these parts   *)
(* besides the types: the two counters count the flushes they should       *)
(* (Counted), the stage of the body tells what the mark, the once and the  *)
(* waiting goroutine are (Phases), no flush is left when the wait ended    *)
(* for that reason (Drained), and what is left of the deadline (OnTime,    *)
(* Shared).                                                                *)
(***************************************************************************)

\* The types, without the claim that the counters are not negative.
Types ==
  /\ cfg \in Config
  /\ now \in Nat
  /\ shutdownStarted \in BOOLEAN
  /\ flushesRunning \in Int /\ wg \in Int
  /\ once \in {"fresh", "running", "done"}
  /\ caller \in [Callers -> {"out", "once", "returned"}]
  /\ result \in [Callers -> SUBSET Components] /\ cancelled \in BOOLEAN
  /\ stage \in {"none", "mark", "marked", "wait", "next", "run", "done"}
  /\ deadline \in Deadlines /\ granted \in Deadlines /\ stepEnd \in Deadlines
  /\ running \in Int
  /\ helper \in {"none", "waiting", "closed"}
  /\ waitExpired \in BOOLEAN
  /\ idx \in 1 .. NumClosers + 1
  /\ stage = "run" => idx <= NumClosers
  /\ closed \in [Components -> Nat]
  /\ failed \in SUBSET Components /\ shutdownErr \in SUBSET Components
  /\ flush \in [Flushers -> {"out", "entered", "signals", "metrics", "leave",
                             "left", "returned", "refused"}]
  /\ flushGranted \in [Flushers -> Deadlines]
  /\ flushEnd \in [Flushers -> Deadlines] /\ stageEnd \in [Flushers -> Deadlines]
  /\ pending \in [Flushers -> SUBSET Signals]

\* The flushes that have registered and not left, and those the WaitGroup
\* still counts.
InFlush == {f \in Flushers : Flushing(f)}
Waited  == {f \in Flushers : Flushing(f) \/ flush[f] = "left"}

Counted ==
  /\ flushesRunning = Cardinality(InFlush)
  /\ wg = Cardinality(Waited)
  /\ running >= 0

Phases ==
  /\ stage = "none" <=> once = "fresh"
  /\ stage = "done" <=> once = "done"
  /\ stage \in {"none", "mark"} <=> ~shutdownStarted
  /\ stage = "done" => idx = NumClosers + 1 /\ shutdownErr = failed
  /\ helper # "none" => shutdownStarted
  /\ \A c \in Callers : caller[c] = "returned" => once = "done" /\ result[c] = failed

Drained ==
  /\ stage = "marked" => flushesRunning <= running
  /\ helper = "closed" => wg = 0
  /\ NoCloseUnderFlush

\* Shutdown stays within its deadline, if it has one.
OnTime ==
  deadline # NoDeadline =>
    /\ stage \in {"mark", "marked", "next"} => now <= deadline
    /\ stage \in {"wait", "run"} =>
         stepEnd # NoDeadline /\ now <= stepEnd /\ stepEnd <= deadline

\* The closers still to run have a tick each.
Shared ==
  granted > NumClosers =>
    /\ stage \in {"mark", "marked"} => deadline - now >= NumClosers + 1
    /\ stage = "wait" => /\ stepEnd # NoDeadline /\ now <= stepEnd
                         /\ stepEnd <= deadline - NumClosers
    /\ stage = "next" => deadline - now >= NumClosers - idx + 1
    /\ stage = "run"  => /\ stepEnd # NoDeadline /\ now <= stepEnd
                         /\ stepEnd <= deadline - (NumClosers - idx)

\* No closer is run before the wait is over.
Early == stage \in {"none", "mark", "marked", "wait"} => idx = 1

Inv == Types /\ Early /\ Counted /\ Phases /\ Drained /\ OnTime /\ Shared
-----------------------------------------------------------------------------
\* The number of closers is a natural number.
LEMMA NumClosersNat == ASSUME cfg \in Config PROVE NumClosers \in Nat
BY DEF Config, NumClosers

\* An even share of a time that allows each of r its tick is at least a tick,
\* and leaves one for each of the others.
LEMMA ShareLeaves ==
  ASSUME NEW left \in Nat, NEW r \in Nat, r >= 1, left >= r
  PROVE  left \div r \in Nat /\ left \div r >= 1 /\ left - (left \div r) >= r - 1
<1> DEFINE q == left \div r
<1>1. q \in Int /\ r * q <= left /\ left < r * q + r
  OBVIOUS
<1>2. q >= 1
  <2> SUFFICES ASSUME q <= 0 PROVE FALSE
    BY <1>1
  <2>1. r * q <= 0
    BY <1>1
  <2> QED
    BY <1>1, <2>1
<1>3. (r - 1) * (q - 1) >= 0
  BY <1>1, <1>2
<1>4. r * q - q >= r - 1
  BY <1>1, <1>3
<1> QED
  BY <1>1, <1>2, <1>4

\* shutdownBudget of a context that is not done yields one that is not done
\* and ends no later.
LEMMA BudgetWithin ==
  ASSUME NEW end \in Nat, NEW r \in Nat, now \in Nat, now <= end
  PROVE  LET b == ShutdownBudget(end, r)
         IN  b \in Nat /\ now <= b /\ b <= end
<1> DEFINE share == (end - now) \div r
<1>1. CASE r <= 1 \/ share <= 0
  BY <1>1 DEF ShutdownBudget, NoDeadline
<1>2. CASE r > 1 /\ share > 0
  <2>1. share \in Int /\ r * share <= end - now
    BY <1>2
  <2>2. share <= r * share
    BY <1>2, <2>1
  <2> QED
    BY <1>2, <2>1, <2>2 DEF ShutdownBudget, NoDeadline
<1> QED
  BY <1>1, <1>2

\* When the time left allows each of r its tick, shutdownBudget leaves a tick
\* for each of the others.
LEMMA BudgetLeaves ==
  ASSUME NEW end \in Nat, NEW r \in Nat, r >= 1, now \in Nat, end - now >= r
  PROVE  ShutdownBudget(end, r) <= end - (r - 1)
<1> DEFINE left == end - now
<1>1. left \in Nat /\ left >= r
  OBVIOUS
<1>2. left \div r \in Nat /\ left \div r >= 1 /\ left - (left \div r) >= r - 1
  BY <1>1, ShareLeaves
<1> QED
  BY <1>1, <1>2 DEF ShutdownBudget, NoDeadline

\* shutdownBudget and Ctx return deadlines.
LEMMA BudgetType ==
  ASSUME NEW end \in Deadlines, NEW r \in Nat, now \in Nat
  PROVE  ShutdownBudget(end, r) \in Deadlines
<1>1. CASE end = NoDeadline \/ r <= 1 \/ (end - now) \div r <= 0
  BY <1>1 DEF ShutdownBudget
<1>2. CASE ~(end = NoDeadline \/ r <= 1 \/ (end - now) \div r <= 0)
  <2>1. end \in Nat /\ r > 1
    BY <1>2 DEF Deadlines
  <2>2. (end - now) \div r \in Int
    BY <2>1
  <2> QED
    BY <1>2, <2>1, <2>2 DEF ShutdownBudget, Deadlines
<1> QED
  BY <1>1, <1>2

\* The deadline of a fresh context is a deadline.
LEMMA CtxType ==
  ASSUME NEW d \in Deadlines, now \in Nat
  PROVE  Ctx(d) \in Deadlines
BY DEF Ctx, Deadlines

\* Every step keeps the types.
LEMMA TypesStep == Types /\ Early /\ [Next]_vars => Types'
<1> SUFFICES ASSUME Types /\ Early, [Next]_vars PROVE Types'
  OBVIOUS
<1> USE NumClosersNat
<1> USE DEF Types, Early
<1>1. ASSUME NEW c \in Callers, NEW d \in Budgets \cup {NoDeadline}, EnterShutdown(c, d) PROVE Types'
  <2>1. d \in Deadlines /\ Ctx(d) \in Deadlines
    BY CtxType, TimeAssumption DEF Deadlines
  <2> QED
    BY <1>1, <2>1 DEF EnterShutdown, sdkVars, bodyVars, callVars, flushVars, NumClosers
<1>2. CASE MarkShutdown
  BY <1>2 DEF MarkShutdown, sdkVars, bodyVars, callVars, flushVars, NumClosers
<1>3. CASE BeginWait
  <2>1. ShutdownBudget(deadline, NumClosers + 1) \in Deadlines
    BY BudgetType
  <2> QED
    BY <1>3, <2>1 DEF BeginWait, sdkVars, bodyVars, callVars, flushVars, NumClosers
<1>4. CASE EndWait
  BY <1>4 DEF EndWait, sdkVars, bodyVars, callVars, flushVars, NumClosers
<1>5. CASE StartCloser
  <2>1. idx <= NumClosers /\ NumClosers - idx + 1 \in Nat
    BY <1>5 DEF StartCloser
  <2>2. ShutdownBudget(deadline, NumClosers - idx + 1) \in Deadlines
    BY <2>1, BudgetType
  <2> QED
    BY <1>5, <2>1, <2>2 DEF StartCloser, sdkVars, bodyVars, callVars, flushVars, NumClosers
<1>6. ASSUME NEW err \in BOOLEAN, CloserReturns(err) PROVE Types'
  <2>1. idx \in 1 .. NumClosers /\ cfg.shutdowns[idx] \in Components
    BY <1>6 DEF CloserReturns, Config, NumClosers
  <2>2. /\ closed' \in [Components -> Nat]
        /\ failed' \in SUBSET Components
    BY <1>6, <2>1 DEF CloserReturns
  <2> QED
    BY <1>6, <2>1, <2>2 DEF CloserReturns, sdkVars, callVars, flushVars, NumClosers
<1>7. CASE FinishShutdown
  BY <1>7 DEF FinishShutdown, sdkVars, bodyVars, callVars, flushVars, NumClosers
<1>8. ASSUME NEW c \in Callers, ReturnShutdown(c) PROVE Types'
  BY <1>8 DEF ReturnShutdown, sdkVars, bodyVars, callVars, flushVars, NumClosers
<1>9. CASE HelperWakes
  BY <1>9 DEF HelperWakes, sdkVars, bodyVars, callVars, flushVars, NumClosers
<1>10. ASSUME NEW f \in Flushers, NEW d \in FlushBudgets \cup {NoDeadline}, EnterFlush(f, d) PROVE Types'
  <2>1. d \in Deadlines /\ Ctx(d) \in Deadlines
    BY CtxType, TimeAssumption DEF Deadlines
  <2>2. /\ flush' \in [Flushers -> {"out", "entered", "signals", "metrics", "leave",
                                    "left", "returned", "refused"}]
        /\ flushesRunning' \in Int /\ wg' \in Int
    BY <1>10 DEF EnterFlush
  <2>3. flushGranted' \in [Flushers -> Deadlines] /\ flushEnd' \in [Flushers -> Deadlines]
    BY <1>10, <2>1 DEF EnterFlush
  <2> QED
    BY <1>10, <2>2, <2>3 DEF EnterFlush, bodyVars, callVars, NumClosers
<1>11. ASSUME NEW f \in Flushers, StartSignals(f) PROVE Types'
  <2>1. ShutdownBudget(flushEnd[f], IF cfg.flushMetrics THEN 2 ELSE 1) \in Deadlines
    BY BudgetType
  <2>2. cfg.flushSignals \in SUBSET Signals
    BY DEF Config
  <2>3. /\ flush' \in [Flushers -> {"out", "entered", "signals", "metrics", "leave",
                                    "left", "returned", "refused"}]
        /\ stageEnd' \in [Flushers -> Deadlines] /\ pending' \in [Flushers -> SUBSET Signals]
    BY <1>11, <2>1, <2>2 DEF StartSignals, AfterSignals
  <2> QED
    BY <1>11, <2>3 DEF StartSignals, sdkVars, bodyVars, callVars, NumClosers
<1>12. ASSUME NEW f \in Flushers, NEW s \in Signals, SignalReturns(f, s) PROVE Types'
  BY <1>12 DEF SignalReturns, sdkVars, bodyVars, callVars, flushVars, NumClosers
<1>13. ASSUME NEW f \in Flushers, EndSignals(f) PROVE Types'
  BY <1>13 DEF EndSignals, sdkVars, bodyVars, callVars, flushVars, NumClosers, AfterSignals
<1>14. ASSUME NEW f \in Flushers, MetricsReturns(f) PROVE Types'
  BY <1>14 DEF MetricsReturns, sdkVars, bodyVars, callVars, flushVars, NumClosers
<1>15. ASSUME NEW f \in Flushers, LeaveFlush(f) PROVE Types'
  BY <1>15 DEF LeaveFlush, sdkVars, bodyVars, callVars, flushVars, NumClosers
<1>16. ASSUME NEW f \in Flushers, DoneFlush(f) PROVE Types'
  BY <1>16 DEF DoneFlush, sdkVars, bodyVars, callVars, flushVars, NumClosers
<1>17. CASE Tick
  BY <1>17 DEF Tick, sdkVars, bodyVars, callVars, flushVars, NumClosers
<1>18. CASE Terminated
  BY <1>18 DEF Terminated, vars, sdkVars, bodyVars, callVars, flushVars, NumClosers
<1>21. CASE CancelShutdown
  BY <1>21 DEF CancelShutdown, sdkVars, bodyVars, callVars, flushVars, NumClosers
<1>19. CASE UNCHANGED vars
  BY <1>19 DEF vars, sdkVars, bodyVars, callVars, flushVars, NumClosers
<1>20. QED
  BY <1>1, <1>2, <1>3, <1>4, <1>5, <1>6, <1>7, <1>8, <1>9, <1>10, <1>11, <1>12, <1>13, <1>14, <1>15, <1>16, <1>17, <1>18, <1>19, <1>21 DEF Next, BodyStep, FlushStep



\* Body steps run the closers only after the wait.
LEMMA EarlyStep == Types /\ Phases /\ Early /\ [Next]_vars => Early'
<1> SUFFICES ASSUME Types /\ Phases /\ Early, [Next]_vars PROVE Early'
  OBVIOUS
<1> USE DEF Types, Phases, Early
<1>1. ASSUME NEW c \in Callers, NEW d \in Budgets \cup {NoDeadline}, EnterShutdown(c, d) PROVE Early'
  BY <1>1 DEF EnterShutdown, sdkVars, bodyVars, callVars, flushVars
<1>2. CASE MarkShutdown
  BY <1>2 DEF MarkShutdown, sdkVars, bodyVars, callVars, flushVars
<1>3. CASE BeginWait
  BY <1>3 DEF BeginWait, sdkVars, bodyVars, callVars, flushVars
<1>4. CASE EndWait
  BY <1>4 DEF EndWait, sdkVars, bodyVars, callVars, flushVars
<1>5. CASE StartCloser
  BY <1>5 DEF StartCloser, sdkVars, bodyVars, callVars, flushVars
<1>6. ASSUME NEW err \in BOOLEAN, CloserReturns(err) PROVE Early'
  BY <1>6 DEF CloserReturns, sdkVars, bodyVars, callVars, flushVars
<1>7. CASE FinishShutdown
  BY <1>7 DEF FinishShutdown, sdkVars, bodyVars, callVars, flushVars
<1>8. ASSUME NEW c \in Callers, ReturnShutdown(c) PROVE Early'
  BY <1>8 DEF ReturnShutdown, sdkVars, bodyVars, callVars, flushVars
<1>9. CASE HelperWakes
  BY <1>9 DEF HelperWakes, sdkVars, bodyVars, callVars, flushVars
<1>10. ASSUME NEW f \in Flushers, NEW d \in FlushBudgets \cup {NoDeadline}, EnterFlush(f, d) PROVE Early'
  BY <1>10 DEF EnterFlush, sdkVars, bodyVars, callVars, flushVars
<1>11. ASSUME NEW f \in Flushers, StartSignals(f) PROVE Early'
  BY <1>11 DEF StartSignals, sdkVars, bodyVars, callVars, flushVars
<1>12. ASSUME NEW f \in Flushers, NEW s \in Signals, SignalReturns(f, s) PROVE Early'
  BY <1>12 DEF SignalReturns, sdkVars, bodyVars, callVars, flushVars
<1>13. ASSUME NEW f \in Flushers, EndSignals(f) PROVE Early'
  BY <1>13 DEF EndSignals, sdkVars, bodyVars, callVars, flushVars
<1>14. ASSUME NEW f \in Flushers, MetricsReturns(f) PROVE Early'
  BY <1>14 DEF MetricsReturns, sdkVars, bodyVars, callVars, flushVars
<1>15. ASSUME NEW f \in Flushers, LeaveFlush(f) PROVE Early'
  BY <1>15 DEF LeaveFlush, sdkVars, bodyVars, callVars, flushVars
<1>16. ASSUME NEW f \in Flushers, DoneFlush(f) PROVE Early'
  BY <1>16 DEF DoneFlush, sdkVars, bodyVars, callVars, flushVars
<1>17. CASE Tick
  BY <1>17 DEF Tick, sdkVars, bodyVars, callVars, flushVars
<1>18. CASE Terminated
  BY <1>18 DEF Terminated, vars, sdkVars, bodyVars, callVars, flushVars
<1>21. CASE CancelShutdown
  BY <1>21 DEF CancelShutdown, sdkVars, bodyVars, callVars, flushVars
<1>19. CASE UNCHANGED vars
  BY <1>19 DEF vars, sdkVars, bodyVars, callVars, flushVars
<1>20. QED
  BY <1>1, <1>2, <1>3, <1>4, <1>5, <1>6, <1>7, <1>8, <1>9, <1>10, <1>11, <1>12, <1>13, <1>14, <1>15, <1>16, <1>17, <1>18, <1>19, <1>21 DEF Next, BodyStep, FlushStep

\* The sets of flushes are finite.
LEMMA FlushSetsFinite ==
  /\ IsFiniteSet(InFlush) /\ IsFiniteSet(Waited)
  /\ Cardinality(InFlush) \in Nat /\ Cardinality(Waited) \in Nat
BY ThreadsAssumption, FS_Subset, FS_CardinalityType DEF InFlush, Waited

\* Both counters count the flushes they stand for.
LEMMA CountedStep == Types /\ Counted /\ [Next]_vars => Counted'
<1> SUFFICES ASSUME Types /\ Counted, [Next]_vars PROVE Counted'
  OBVIOUS
<1> USE DEF Types, Counted
<1>1. ASSUME NEW c \in Callers, NEW d \in Budgets \cup {NoDeadline}, EnterShutdown(c, d) PROVE Counted'
  BY <1>1 DEF EnterShutdown, sdkVars, bodyVars, callVars, flushVars, InFlush, Waited, Flushing
<1>2. CASE MarkShutdown
  BY <1>2, FlushSetsFinite DEF MarkShutdown, flushVars, InFlush, Waited, Flushing
<1>3. CASE BeginWait
  BY <1>3 DEF BeginWait, sdkVars, bodyVars, callVars, flushVars, InFlush, Waited, Flushing
<1>4. CASE EndWait
  BY <1>4 DEF EndWait, sdkVars, bodyVars, callVars, flushVars, InFlush, Waited, Flushing
<1>5. CASE StartCloser
  BY <1>5 DEF StartCloser, sdkVars, bodyVars, callVars, flushVars, InFlush, Waited, Flushing
<1>6. ASSUME NEW err \in BOOLEAN, CloserReturns(err) PROVE Counted'
  BY <1>6 DEF CloserReturns, sdkVars, bodyVars, callVars, flushVars, InFlush, Waited, Flushing
<1>7. CASE FinishShutdown
  BY <1>7 DEF FinishShutdown, sdkVars, bodyVars, callVars, flushVars, InFlush, Waited, Flushing
<1>8. ASSUME NEW c \in Callers, ReturnShutdown(c) PROVE Counted'
  BY <1>8 DEF ReturnShutdown, sdkVars, bodyVars, callVars, flushVars, InFlush, Waited, Flushing
<1>9. CASE HelperWakes
  BY <1>9 DEF HelperWakes, sdkVars, bodyVars, callVars, flushVars, InFlush, Waited, Flushing
<1>10. ASSUME NEW f \in Flushers, NEW d \in FlushBudgets \cup {NoDeadline}, EnterFlush(f, d) PROVE Counted'
  <2>1. CASE shutdownStarted
    <3>1. InFlush' = InFlush /\ Waited' = Waited
      BY <1>10, <2>1 DEF EnterFlush, InFlush, Waited, Flushing
    <3> QED
      BY <1>10, <2>1, <3>1 DEF EnterFlush, bodyVars
  <2>2. CASE ~shutdownStarted
    <3>1. /\ InFlush' = InFlush \cup {f} /\ f \notin InFlush
          /\ Waited' = Waited \cup {f} /\ f \notin Waited
      BY <1>10, <2>2 DEF EnterFlush, InFlush, Waited, Flushing
    <3>2. /\ Cardinality(InFlush \cup {f}) = Cardinality(InFlush) + 1
          /\ Cardinality(Waited \cup {f}) = Cardinality(Waited) + 1
      BY <3>1, FlushSetsFinite, FS_AddElement
    <3> QED
      BY <1>10, <2>2, <3>1, <3>2 DEF EnterFlush, bodyVars
  <2> QED
    BY <2>1, <2>2
<1>11. ASSUME NEW f \in Flushers, StartSignals(f) PROVE Counted'
  <2>1. InFlush' = InFlush /\ Waited' = Waited
    BY <1>11 DEF StartSignals, InFlush, Waited, Flushing, AfterSignals
  <2> QED
    BY <1>11, <2>1 DEF StartSignals, sdkVars, bodyVars
<1>12. ASSUME NEW f \in Flushers, NEW s \in Signals, SignalReturns(f, s) PROVE Counted'
  BY <1>12 DEF SignalReturns, sdkVars, bodyVars, callVars, flushVars, InFlush, Waited, Flushing
<1>13. ASSUME NEW f \in Flushers, EndSignals(f) PROVE Counted'
  <2>1. InFlush' = InFlush /\ Waited' = Waited
    BY <1>13 DEF EndSignals, InFlush, Waited, Flushing, AfterSignals
  <2> QED
    BY <1>13, <2>1 DEF EndSignals, sdkVars, bodyVars
<1>14. ASSUME NEW f \in Flushers, MetricsReturns(f) PROVE Counted'
  <2>1. InFlush' = InFlush /\ Waited' = Waited
    BY <1>14 DEF MetricsReturns, InFlush, Waited, Flushing, AfterSignals
  <2> QED
    BY <1>14, <2>1 DEF MetricsReturns, sdkVars, bodyVars
<1>15. ASSUME NEW f \in Flushers, LeaveFlush(f) PROVE Counted'
  <2>1. InFlush' = InFlush \ {f} /\ f \in InFlush /\ Waited' = Waited
    BY <1>15 DEF LeaveFlush, InFlush, Waited, Flushing
  <2>2. Cardinality(InFlush \ {f}) = Cardinality(InFlush) - 1
    BY <2>1, FlushSetsFinite, FS_RemoveElement
  <2> QED
    BY <1>15, <2>1, <2>2 DEF LeaveFlush, bodyVars
<1>16. ASSUME NEW f \in Flushers, DoneFlush(f) PROVE Counted'
  <2>1. InFlush' = InFlush /\ Waited' = Waited \ {f} /\ f \in Waited
    BY <1>16 DEF DoneFlush, InFlush, Waited, Flushing
  <2>2. Cardinality(Waited \ {f}) = Cardinality(Waited) - 1
    BY <2>1, FlushSetsFinite, FS_RemoveElement
  <2> QED
    BY <1>16, <2>1, <2>2 DEF DoneFlush, bodyVars
<1>17. CASE Tick
  BY <1>17 DEF Tick, sdkVars, bodyVars, callVars, flushVars, InFlush, Waited, Flushing
<1>18. CASE Terminated
  BY <1>18 DEF Terminated, vars, sdkVars, bodyVars, callVars, flushVars, InFlush, Waited, Flushing
<1>21. CASE CancelShutdown
  BY <1>21 DEF CancelShutdown, sdkVars, bodyVars, callVars, flushVars, InFlush, Waited, Flushing
<1>19. CASE UNCHANGED vars
  BY <1>19 DEF vars, sdkVars, bodyVars, callVars, flushVars, InFlush, Waited, Flushing
<1>20. QED
  BY <1>1, <1>2, <1>3, <1>4, <1>5, <1>6, <1>7, <1>8, <1>9, <1>10, <1>11, <1>12, <1>13, <1>14, <1>15, <1>16, <1>17, <1>18, <1>19, <1>21 DEF Next, BodyStep, FlushStep

\* The stage of the body tells what the once, the mark and the waiter are.
LEMMA PhasesStep == Types /\ Phases /\ [Next]_vars => Phases'
<1> SUFFICES ASSUME Types /\ Phases, [Next]_vars PROVE Phases'
  OBVIOUS
<1> USE DEF Types, Phases, NumClosers
<1>1. ASSUME NEW c \in Callers, NEW d \in Budgets \cup {NoDeadline}, EnterShutdown(c, d) PROVE Phases'
  BY <1>1 DEF EnterShutdown, sdkVars, bodyVars, callVars, flushVars
<1>2. CASE MarkShutdown
  BY <1>2 DEF MarkShutdown, sdkVars, bodyVars, callVars, flushVars
<1>3. CASE BeginWait
  BY <1>3 DEF BeginWait, sdkVars, bodyVars, callVars, flushVars
<1>4. CASE EndWait
  BY <1>4 DEF EndWait, sdkVars, bodyVars, callVars, flushVars
<1>5. CASE StartCloser
  BY <1>5 DEF StartCloser, sdkVars, bodyVars, callVars, flushVars
<1>6. ASSUME NEW err \in BOOLEAN, CloserReturns(err) PROVE Phases'
  BY <1>6 DEF CloserReturns, sdkVars, bodyVars, callVars, flushVars
<1>7. CASE FinishShutdown
  BY <1>7 DEF FinishShutdown, sdkVars, bodyVars, callVars, flushVars
<1>8. ASSUME NEW c \in Callers, ReturnShutdown(c) PROVE Phases'
  BY <1>8 DEF ReturnShutdown, sdkVars, bodyVars, callVars, flushVars
<1>9. CASE HelperWakes
  BY <1>9 DEF HelperWakes, sdkVars, bodyVars, callVars, flushVars
<1>10. ASSUME NEW f \in Flushers, NEW d \in FlushBudgets \cup {NoDeadline}, EnterFlush(f, d) PROVE Phases'
  BY <1>10 DEF EnterFlush, sdkVars, bodyVars, callVars, flushVars
<1>11. ASSUME NEW f \in Flushers, StartSignals(f) PROVE Phases'
  BY <1>11 DEF StartSignals, sdkVars, bodyVars, callVars, flushVars
<1>12. ASSUME NEW f \in Flushers, NEW s \in Signals, SignalReturns(f, s) PROVE Phases'
  BY <1>12 DEF SignalReturns, sdkVars, bodyVars, callVars, flushVars
<1>13. ASSUME NEW f \in Flushers, EndSignals(f) PROVE Phases'
  BY <1>13 DEF EndSignals, sdkVars, bodyVars, callVars, flushVars
<1>14. ASSUME NEW f \in Flushers, MetricsReturns(f) PROVE Phases'
  BY <1>14 DEF MetricsReturns, sdkVars, bodyVars, callVars, flushVars
<1>15. ASSUME NEW f \in Flushers, LeaveFlush(f) PROVE Phases'
  BY <1>15 DEF LeaveFlush, sdkVars, bodyVars, callVars, flushVars
<1>16. ASSUME NEW f \in Flushers, DoneFlush(f) PROVE Phases'
  BY <1>16 DEF DoneFlush, sdkVars, bodyVars, callVars, flushVars
<1>17. CASE Tick
  BY <1>17 DEF Tick, sdkVars, bodyVars, callVars, flushVars
<1>18. CASE Terminated
  BY <1>18 DEF Terminated, vars, sdkVars, bodyVars, callVars, flushVars
<1>21. CASE CancelShutdown
  BY <1>21 DEF CancelShutdown, sdkVars, bodyVars, callVars, flushVars
<1>19. CASE UNCHANGED vars
  BY <1>19 DEF vars, sdkVars, bodyVars, callVars, flushVars
<1>20. QED
  BY <1>1, <1>2, <1>3, <1>4, <1>5, <1>6, <1>7, <1>8, <1>9, <1>10, <1>11, <1>12, <1>13, <1>14, <1>15, <1>16, <1>17, <1>18, <1>19, <1>21 DEF Next, BodyStep, FlushStep

\* A counter at zero means that none of its flushes is left.
LEMMA CountedZero ==
  ASSUME Types, Counted
  PROVE  /\ flushesRunning >= 0 /\ wg >= 0
         /\ flushesRunning = 0 => \A f \in Flushers : ~Flushing(f)
         /\ wg = 0 => \A f \in Flushers : ~Flushing(f) /\ flush[f] # "left"
<1>1. flushesRunning = 0 => InFlush = {}
  BY FlushSetsFinite, FS_EmptySet DEF Counted
<1>2. wg = 0 => Waited = {}
  BY FlushSetsFinite, FS_EmptySet DEF Counted
<1> QED
  BY <1>1, <1>2, FlushSetsFinite DEF Counted, InFlush, Waited

\* A flush that is counted has ended before the wait ends, unless the wait
\* expired.
LEMMA DrainedStep == Types /\ Counted /\ Phases /\ Drained /\ [Next]_vars => Drained'
<1> SUFFICES ASSUME Types /\ Counted /\ Phases /\ Drained, [Next]_vars PROVE Drained'
  OBVIOUS
<1> USE CountedZero
<1> USE DEF Types, Phases, Drained, NoCloseUnderFlush
<1>1. ASSUME NEW c \in Callers, NEW d \in Budgets \cup {NoDeadline}, EnterShutdown(c, d) PROVE Drained'
  BY <1>1 DEF EnterShutdown, sdkVars, bodyVars, callVars, flushVars, Flushing
<1>2. CASE MarkShutdown
  BY <1>2 DEF MarkShutdown, sdkVars, bodyVars, callVars, flushVars, Flushing
<1>3. CASE BeginWait
  BY <1>3 DEF BeginWait, sdkVars, bodyVars, callVars, flushVars, Flushing
<1>4. CASE EndWait
  BY <1>4 DEF EndWait, sdkVars, bodyVars, callVars, flushVars, Flushing
<1>5. CASE StartCloser
  BY <1>5 DEF StartCloser, sdkVars, bodyVars, callVars, flushVars, Flushing
<1>6. ASSUME NEW err \in BOOLEAN, CloserReturns(err) PROVE Drained'
  BY <1>6 DEF CloserReturns, sdkVars, bodyVars, callVars, flushVars, Flushing
<1>7. CASE FinishShutdown
  BY <1>7 DEF FinishShutdown, sdkVars, bodyVars, callVars, flushVars, Flushing
<1>8. ASSUME NEW c \in Callers, ReturnShutdown(c) PROVE Drained'
  BY <1>8 DEF ReturnShutdown, sdkVars, bodyVars, callVars, flushVars, Flushing
<1>9. CASE HelperWakes
  BY <1>9 DEF HelperWakes, sdkVars, bodyVars, callVars, flushVars, Flushing
<1>10. ASSUME NEW f \in Flushers, NEW d \in FlushBudgets \cup {NoDeadline}, EnterFlush(f, d) PROVE Drained'
  BY <1>10 DEF EnterFlush, sdkVars, bodyVars, callVars, flushVars, Flushing
<1>11. ASSUME NEW f \in Flushers, StartSignals(f) PROVE Drained'
  BY <1>11 DEF StartSignals, sdkVars, bodyVars, callVars, flushVars, Flushing, AfterSignals
<1>12. ASSUME NEW f \in Flushers, NEW s \in Signals, SignalReturns(f, s) PROVE Drained'
  BY <1>12 DEF SignalReturns, sdkVars, bodyVars, callVars, flushVars, Flushing, AfterSignals
<1>13. ASSUME NEW f \in Flushers, EndSignals(f) PROVE Drained'
  BY <1>13 DEF EndSignals, sdkVars, bodyVars, callVars, flushVars, Flushing, AfterSignals
<1>14. ASSUME NEW f \in Flushers, MetricsReturns(f) PROVE Drained'
  BY <1>14 DEF MetricsReturns, sdkVars, bodyVars, callVars, flushVars, Flushing
<1>15. ASSUME NEW f \in Flushers, LeaveFlush(f) PROVE Drained'
  BY <1>15 DEF LeaveFlush, sdkVars, bodyVars, callVars, flushVars, Flushing
<1>16. ASSUME NEW f \in Flushers, DoneFlush(f) PROVE Drained'
  BY <1>16 DEF DoneFlush, sdkVars, bodyVars, callVars, flushVars, Flushing
<1>17. CASE Tick
  BY <1>17 DEF Tick, sdkVars, bodyVars, callVars, flushVars, Flushing
<1>18. CASE Terminated
  BY <1>18 DEF Terminated, vars, sdkVars, bodyVars, callVars, flushVars, Flushing
<1>21. CASE CancelShutdown
  BY <1>21 DEF CancelShutdown, sdkVars, bodyVars, callVars, flushVars, Flushing
<1>19. CASE UNCHANGED vars
  BY <1>19 DEF vars, sdkVars, bodyVars, callVars, flushVars, Flushing
<1>20. QED
  BY <1>1, <1>2, <1>3, <1>4, <1>5, <1>6, <1>7, <1>8, <1>9, <1>10, <1>11, <1>12, <1>13, <1>14, <1>15, <1>16, <1>17, <1>18, <1>19, <1>21 DEF Next, BodyStep, FlushStep

\* The wait and every closer end by the deadline.
LEMMA OnTimeStep == Types /\ Phases /\ OnTime /\ [Next]_vars => OnTime'
<1> SUFFICES ASSUME Types /\ Phases /\ OnTime, [Next]_vars PROVE OnTime'
  OBVIOUS
<1> USE DEF Types, Phases, OnTime
<1>1. ASSUME NEW c \in Callers, NEW d \in Budgets \cup {NoDeadline}, EnterShutdown(c, d) PROVE OnTime'
  <2>1. d # NoDeadline => d \in Nat
    BY TimeAssumption
  <2> QED
    BY <1>1, <2>1 DEF EnterShutdown, bodyVars, Ctx
<1>2. CASE MarkShutdown
  BY <1>2 DEF MarkShutdown, sdkVars, bodyVars, callVars, flushVars
<1>3. CASE BeginWait
  <2>1. NumClosers + 1 \in Nat
    BY NumClosersNat
  <2>2. deadline # NoDeadline =>
          LET b == ShutdownBudget(deadline, NumClosers + 1)
          IN  b \in Nat /\ now <= b /\ b <= deadline
    BY <1>3, <2>1, BudgetWithin DEF BeginWait, Deadlines
  <2> QED
    BY <1>3, <2>2 DEF BeginWait, NoDeadline
<1>4. CASE EndWait
  BY <1>4 DEF EndWait, sdkVars, bodyVars, callVars, flushVars, Deadlines
<1>5. CASE StartCloser
  <2>1. NumClosers - idx + 1 \in Nat
    BY <1>5, NumClosersNat DEF StartCloser
  <2>2. deadline # NoDeadline =>
          LET b == ShutdownBudget(deadline, NumClosers - idx + 1)
          IN  b \in Nat /\ now <= b /\ b <= deadline
    BY <1>5, <2>1, BudgetWithin DEF StartCloser, Deadlines
  <2> QED
    BY <1>5, <2>2 DEF StartCloser, NoDeadline
<1>6. ASSUME NEW err \in BOOLEAN, CloserReturns(err) PROVE OnTime'
  BY <1>6 DEF CloserReturns, sdkVars, bodyVars, callVars, flushVars, Deadlines
<1>7. CASE FinishShutdown
  BY <1>7 DEF FinishShutdown, sdkVars, bodyVars, callVars, flushVars
<1>8. ASSUME NEW c \in Callers, ReturnShutdown(c) PROVE OnTime'
  BY <1>8 DEF ReturnShutdown, sdkVars, bodyVars, callVars, flushVars
<1>9. CASE HelperWakes
  BY <1>9 DEF HelperWakes, sdkVars, bodyVars, callVars, flushVars
<1>10. ASSUME NEW f \in Flushers, NEW d \in FlushBudgets \cup {NoDeadline}, EnterFlush(f, d) PROVE OnTime'
  BY <1>10 DEF EnterFlush, sdkVars, bodyVars, callVars, flushVars
<1>11. ASSUME NEW f \in Flushers, StartSignals(f) PROVE OnTime'
  BY <1>11 DEF StartSignals, sdkVars, bodyVars, callVars, flushVars
<1>12. ASSUME NEW f \in Flushers, NEW s \in Signals, SignalReturns(f, s) PROVE OnTime'
  BY <1>12 DEF SignalReturns, sdkVars, bodyVars, callVars, flushVars
<1>13. ASSUME NEW f \in Flushers, EndSignals(f) PROVE OnTime'
  BY <1>13 DEF EndSignals, sdkVars, bodyVars, callVars, flushVars
<1>14. ASSUME NEW f \in Flushers, MetricsReturns(f) PROVE OnTime'
  BY <1>14 DEF MetricsReturns, sdkVars, bodyVars, callVars, flushVars
<1>15. ASSUME NEW f \in Flushers, LeaveFlush(f) PROVE OnTime'
  BY <1>15 DEF LeaveFlush, sdkVars, bodyVars, callVars, flushVars
<1>16. ASSUME NEW f \in Flushers, DoneFlush(f) PROVE OnTime'
  BY <1>16 DEF DoneFlush, sdkVars, bodyVars, callVars, flushVars
<1>17. CASE Tick
  BY <1>17 DEF Tick, sdkVars, bodyVars, callVars, flushVars, StepDone, Done, Deadlines
<1>18. CASE Terminated
  BY <1>18 DEF Terminated, vars, sdkVars, bodyVars, callVars, flushVars
<1>21. CASE CancelShutdown
  BY <1>21 DEF CancelShutdown, sdkVars, bodyVars, callVars, flushVars
<1>19. CASE UNCHANGED vars
  BY <1>19 DEF vars, sdkVars, bodyVars, callVars, flushVars
<1>20. QED
  BY <1>1, <1>2, <1>3, <1>4, <1>5, <1>6, <1>7, <1>8, <1>9, <1>10, <1>11, <1>12, <1>13, <1>14, <1>15, <1>16, <1>17, <1>18, <1>19, <1>21 DEF Next, BodyStep, FlushStep

\* What the wait and a closer may use leaves a tick for each closer after them.
LEMMA SharedStep == Types /\ Early /\ Phases /\ Shared /\ [Next]_vars => Shared'
<1> SUFFICES ASSUME Types /\ Early /\ Phases /\ Shared, [Next]_vars PROVE Shared'
  OBVIOUS
<1> USE DEF Types, Early, Phases, Shared
<1>1. ASSUME NEW c \in Callers, NEW d \in Budgets \cup {NoDeadline}, EnterShutdown(c, d) PROVE Shared'
  <2>1. d # NoDeadline => d \in Nat
    BY TimeAssumption
  <2> QED
    BY <1>1, <2>1, NumClosersNat DEF EnterShutdown, sdkVars, bodyVars, Ctx, NumClosers, NoDeadline
<1>2. CASE MarkShutdown
  BY <1>2 DEF MarkShutdown, sdkVars, bodyVars, callVars, flushVars, NumClosers, Deadlines, NoDeadline
<1>3. CASE BeginWait
  <2> SUFFICES ASSUME granted > NumClosers PROVE Shared'
    BY <1>3 DEF BeginWait, sdkVars, NumClosers
  <2>1. NumClosers + 1 \in Nat /\ NumClosers \in Nat
    BY NumClosersNat
  <2>2. deadline - now >= NumClosers + 1 /\ deadline \in Nat /\ now <= deadline
    BY <1>3, <2>1 DEF BeginWait, Deadlines, NoDeadline
  <2>3. LET b == ShutdownBudget(deadline, NumClosers + 1)
        IN  b \in Nat /\ now <= b
    BY <2>1, <2>2, BudgetWithin
  <2>4. ShutdownBudget(deadline, NumClosers + 1) <= deadline - NumClosers
    BY <2>1, <2>2, BudgetLeaves
  <2>5. NumClosers' = NumClosers /\ granted' = granted /\ deadline' = deadline
        /\ now' = now /\ idx' = idx
    BY <1>3 DEF BeginWait, sdkVars, NumClosers
  <2> QED
    BY <1>3, <2>1, <2>2, <2>3, <2>4, <2>5 DEF BeginWait, NoDeadline
<1>4. CASE EndWait
  BY <1>4, NumClosersNat DEF EndWait, sdkVars, NumClosers, Deadlines, NoDeadline
<1>5. CASE StartCloser
  <2> SUFFICES ASSUME granted > NumClosers PROVE Shared'
    BY <1>5 DEF StartCloser, sdkVars, NumClosers
  <2> DEFINE r == NumClosers - idx + 1
  <2>1. r \in Nat /\ r >= 1 /\ NumClosers \in Nat
    BY <1>5, NumClosersNat DEF StartCloser
  <2>2. deadline - now >= r /\ deadline \in Nat /\ now <= deadline
    BY <1>5, <2>1 DEF StartCloser, Deadlines, NoDeadline
  <2>3. LET b == ShutdownBudget(deadline, r)
        IN  b \in Nat /\ now <= b
    BY <2>1, <2>2, BudgetWithin
  <2>4. ShutdownBudget(deadline, r) <= deadline - (NumClosers - idx)
    BY <2>1, <2>2, BudgetLeaves
  <2>5. NumClosers' = NumClosers /\ granted' = granted /\ deadline' = deadline
        /\ now' = now /\ idx' = idx
    BY <1>5 DEF StartCloser, sdkVars, NumClosers
  <2> QED
    BY <1>5, <2>1, <2>2, <2>3, <2>4, <2>5 DEF StartCloser, NoDeadline
<1>6. ASSUME NEW err \in BOOLEAN, CloserReturns(err) PROVE Shared'
  BY <1>6, NumClosersNat DEF CloserReturns, sdkVars, NumClosers, Deadlines, NoDeadline
<1>7. CASE FinishShutdown
  BY <1>7 DEF FinishShutdown, sdkVars, bodyVars, callVars, flushVars, NumClosers, Deadlines, NoDeadline
<1>8. ASSUME NEW c \in Callers, ReturnShutdown(c) PROVE Shared'
  BY <1>8 DEF ReturnShutdown, sdkVars, bodyVars, callVars, flushVars, NumClosers, Deadlines, NoDeadline
<1>9. CASE HelperWakes
  BY <1>9 DEF HelperWakes, sdkVars, bodyVars, callVars, flushVars, NumClosers, Deadlines, NoDeadline
<1>10. ASSUME NEW f \in Flushers, NEW d \in FlushBudgets \cup {NoDeadline}, EnterFlush(f, d) PROVE Shared'
  BY <1>10 DEF EnterFlush, sdkVars, bodyVars, callVars, flushVars, NumClosers, Deadlines, NoDeadline
<1>11. ASSUME NEW f \in Flushers, StartSignals(f) PROVE Shared'
  BY <1>11 DEF StartSignals, sdkVars, bodyVars, callVars, flushVars, NumClosers, Deadlines, NoDeadline
<1>12. ASSUME NEW f \in Flushers, NEW s \in Signals, SignalReturns(f, s) PROVE Shared'
  BY <1>12 DEF SignalReturns, sdkVars, bodyVars, callVars, flushVars, NumClosers, Deadlines, NoDeadline
<1>13. ASSUME NEW f \in Flushers, EndSignals(f) PROVE Shared'
  BY <1>13 DEF EndSignals, sdkVars, bodyVars, callVars, flushVars, NumClosers, Deadlines, NoDeadline
<1>14. ASSUME NEW f \in Flushers, MetricsReturns(f) PROVE Shared'
  BY <1>14 DEF MetricsReturns, sdkVars, bodyVars, callVars, flushVars, NumClosers, Deadlines, NoDeadline
<1>15. ASSUME NEW f \in Flushers, LeaveFlush(f) PROVE Shared'
  BY <1>15 DEF LeaveFlush, sdkVars, bodyVars, callVars, flushVars, NumClosers, Deadlines, NoDeadline
<1>16. ASSUME NEW f \in Flushers, DoneFlush(f) PROVE Shared'
  BY <1>16 DEF DoneFlush, sdkVars, bodyVars, callVars, flushVars, NumClosers, Deadlines, NoDeadline
<1>17. CASE Tick
  BY <1>17 DEF Tick, sdkVars, bodyVars, callVars, flushVars, NumClosers, Deadlines, NoDeadline, StepDone, Done
<1>18. CASE Terminated
  BY <1>18 DEF Terminated, vars, sdkVars, bodyVars, callVars, flushVars, NumClosers, Deadlines, NoDeadline
<1>21. CASE CancelShutdown
  BY <1>21 DEF CancelShutdown, sdkVars, bodyVars, callVars, flushVars, NumClosers, Deadlines, NoDeadline
<1>19. CASE UNCHANGED vars
  BY <1>19 DEF vars, sdkVars, bodyVars, callVars, flushVars, NumClosers, Deadlines, NoDeadline
<1>20. QED
  BY <1>1, <1>2, <1>3, <1>4, <1>5, <1>6, <1>7, <1>8, <1>9, <1>10, <1>11, <1>12, <1>13, <1>14, <1>15, <1>16, <1>17, <1>18, <1>19, <1>21 DEF Next, BodyStep, FlushStep




\* The closers run are the first idx - 1 of the sequence.
LEMMA OrderedStep == Types /\ ClosedInOrder /\ [Next]_vars => ClosedInOrder'
<1> SUFFICES ASSUME Types /\ ClosedInOrder, [Next]_vars PROVE ClosedInOrder'
  OBVIOUS
<1> USE DEF Types, ClosedInOrder
<1>1. ASSUME NEW c \in Callers, NEW d \in Budgets \cup {NoDeadline}, EnterShutdown(c, d) PROVE ClosedInOrder'
  BY <1>1 DEF EnterShutdown, sdkVars, bodyVars, callVars, flushVars
<1>2. CASE MarkShutdown
  BY <1>2 DEF MarkShutdown, sdkVars, bodyVars, callVars, flushVars
<1>3. CASE BeginWait
  BY <1>3 DEF BeginWait, sdkVars, bodyVars, callVars, flushVars
<1>4. CASE EndWait
  BY <1>4 DEF EndWait, sdkVars, bodyVars, callVars, flushVars
<1>5. CASE StartCloser
  BY <1>5 DEF StartCloser, sdkVars, bodyVars, callVars, flushVars
<1>6. ASSUME NEW err \in BOOLEAN, CloserReturns(err) PROVE ClosedInOrder'
  <2>1. idx \in 1 .. NumClosers /\ cfg.shutdowns[idx] \in Components
    BY <1>6 DEF CloserReturns, Config, NumClosers
  <2> SUFFICES ASSUME NEW m \in Components
               PROVE  closed'[m] = Cardinality({i \in 1 .. idx' - 1 : cfg'.shutdowns[i] = m})
    OBVIOUS
  <2> DEFINE S == {i \in 1 .. idx - 1 : cfg.shutdowns[i] = m}
  <2>2. IsFiniteSet(S)
    <3>1. idx - 1 \in Int
      BY <2>1, NumClosersNat
    <3>2. IsFiniteSet(1 .. idx - 1)
      BY <3>1, FS_Interval
    <3>3. S \in SUBSET (1 .. idx - 1)
      OBVIOUS
    <3> QED
      BY <3>2, <3>3, FS_Subset
  <2>3. cfg' = cfg /\ idx' = idx + 1
    BY <1>6 DEF CloserReturns, sdkVars
  <2>4. CASE cfg.shutdowns[idx] = m
    <3>1. {i \in 1 .. idx' - 1 : cfg'.shutdowns[i] = m} = S \cup {idx} /\ idx \notin S
      BY <2>1, <2>3, <2>4, NumClosersNat
    <3>2. Cardinality(S \cup {idx}) = Cardinality(S) + 1
      BY <3>1, <2>2, FS_AddElement
    <3> QED
      BY <1>6, <2>4, <3>1, <3>2 DEF CloserReturns
  <2>5. CASE cfg.shutdowns[idx] # m
    <3>1. {i \in 1 .. idx' - 1 : cfg'.shutdowns[i] = m} = S
      BY <2>1, <2>3, <2>5, NumClosersNat
    <3> QED
      BY <1>6, <2>1, <2>5, <3>1 DEF CloserReturns
  <2> QED
    BY <2>4, <2>5
<1>7. CASE FinishShutdown
  BY <1>7 DEF FinishShutdown, sdkVars, bodyVars, callVars, flushVars
<1>8. ASSUME NEW c \in Callers, ReturnShutdown(c) PROVE ClosedInOrder'
  BY <1>8 DEF ReturnShutdown, sdkVars, bodyVars, callVars, flushVars
<1>9. CASE HelperWakes
  BY <1>9 DEF HelperWakes, sdkVars, bodyVars, callVars, flushVars
<1>10. ASSUME NEW f \in Flushers, NEW d \in FlushBudgets \cup {NoDeadline}, EnterFlush(f, d) PROVE ClosedInOrder'
  BY <1>10 DEF EnterFlush, sdkVars, bodyVars, callVars, flushVars
<1>11. ASSUME NEW f \in Flushers, StartSignals(f) PROVE ClosedInOrder'
  BY <1>11 DEF StartSignals, sdkVars, bodyVars, callVars, flushVars
<1>12. ASSUME NEW f \in Flushers, NEW s \in Signals, SignalReturns(f, s) PROVE ClosedInOrder'
  BY <1>12 DEF SignalReturns, sdkVars, bodyVars, callVars, flushVars
<1>13. ASSUME NEW f \in Flushers, EndSignals(f) PROVE ClosedInOrder'
  BY <1>13 DEF EndSignals, sdkVars, bodyVars, callVars, flushVars
<1>14. ASSUME NEW f \in Flushers, MetricsReturns(f) PROVE ClosedInOrder'
  BY <1>14 DEF MetricsReturns, sdkVars, bodyVars, callVars, flushVars
<1>15. ASSUME NEW f \in Flushers, LeaveFlush(f) PROVE ClosedInOrder'
  BY <1>15 DEF LeaveFlush, sdkVars, bodyVars, callVars, flushVars
<1>16. ASSUME NEW f \in Flushers, DoneFlush(f) PROVE ClosedInOrder'
  BY <1>16 DEF DoneFlush, sdkVars, bodyVars, callVars, flushVars
<1>17. CASE Tick
  BY <1>17 DEF Tick, sdkVars, bodyVars, callVars, flushVars
<1>18. CASE Terminated
  BY <1>18 DEF Terminated, vars, sdkVars, bodyVars, callVars, flushVars
<1>21. CASE CancelShutdown
  BY <1>21 DEF CancelShutdown, sdkVars, bodyVars, callVars, flushVars
<1>19. CASE UNCHANGED vars
  BY <1>19 DEF vars, sdkVars, bodyVars, callVars, flushVars
<1>20. QED
  BY <1>1, <1>2, <1>3, <1>4, <1>5, <1>6, <1>7, <1>8, <1>9, <1>10, <1>11, <1>12, <1>13, <1>14, <1>15, <1>16, <1>17, <1>18, <1>19, <1>21 DEF Next, BodyStep, FlushStep

\* The initial states satisfy the invariant.
LEMMA InitInv == Init => Inv /\ ClosedInOrder
<1> SUFFICES ASSUME Init PROVE Inv /\ ClosedInOrder
  OBVIOUS
<1> USE DEF Init
<1>1. Types /\ Early
  <2>1. cfg \in Config /\ NumClosers \in Nat
    BY ConfigsAssumption, NumClosersNat
  <2>2. idx \in 1 .. NumClosers + 1
    BY <2>1
  <2>3. NoDeadline \in Deadlines
    BY DEF Deadlines
  <2>4. /\ caller \in [Callers -> {"out", "once", "returned"}]
        /\ result \in [Callers -> SUBSET Components]
        /\ closed \in [Components -> Nat]
    OBVIOUS
  <2>5. /\ flush \in [Flushers -> {"out", "entered", "signals", "metrics", "leave",
                                   "left", "returned", "refused"}]
        /\ pending \in [Flushers -> SUBSET Signals]
    OBVIOUS
  <2>6. /\ flushGranted \in [Flushers -> Deadlines]
        /\ flushEnd \in [Flushers -> Deadlines] /\ stageEnd \in [Flushers -> Deadlines]
    BY <2>3
  <2>7. /\ now \in Nat /\ flushesRunning \in Int /\ wg \in Int /\ running \in Int
        /\ stage # "run" /\ idx = 1
    OBVIOUS
  <2>8. /\ failed \in SUBSET Components /\ shutdownErr \in SUBSET Components
        /\ deadline \in Deadlines /\ granted \in Deadlines /\ stepEnd \in Deadlines
    BY <2>3
  <2>9. /\ once \in {"fresh", "running", "done"}
        /\ stage \in {"none", "mark", "marked", "wait", "next", "run", "done"}
        /\ helper \in {"none", "waiting", "closed"}
    OBVIOUS
  <2>10. shutdownStarted \in BOOLEAN /\ waitExpired \in BOOLEAN /\ cancelled \in BOOLEAN
    BY Zenon
  <2> HIDE DEF Init
  <2> QED
    BY <2>1, <2>2, <2>4, <2>5, <2>6, <2>7, <2>8, <2>9, <2>10, Zenon DEF Types, Early
<1>2. Counted
  <2>1. InFlush = {} /\ Waited = {}
    BY DEF InFlush, Waited, Flushing
  <2> QED
    BY <2>1, FS_EmptySet DEF Counted
<1>3. Phases /\ Drained
  BY DEF Phases, Drained, NoCloseUnderFlush
<1>4. OnTime /\ Shared
  BY DEF OnTime, Shared
<1>5. ClosedInOrder
  <2>1. \A m : {i \in 1 .. idx - 1 : cfg.shutdowns[i] = m} = {}
    OBVIOUS
  <2> QED
    BY <2>1, FS_EmptySet DEF ClosedInOrder
<1> QED
  BY <1>1, <1>2, <1>3, <1>4, <1>5 DEF Inv

\* Inv is an invariant, and with it ClosedInOrder.
THEOREM Invariance == Spec => [](Inv /\ ClosedInOrder)
<1>1. Inv /\ ClosedInOrder /\ [Next]_vars => (Inv /\ ClosedInOrder)'
  BY TypesStep, EarlyStep, CountedStep, PhasesStep, DrainedStep, OnTimeStep, SharedStep,
     OrderedStep DEF Inv
<1> QED
  BY <1>1, InitInv, PTL DEF Spec

\* Every variable keeps its type, and neither flushesRunning nor the WaitGroup
\* counter of ForceFlush ever becomes negative.
THEOREM TypeCorrect == Spec => []TypeOK
<1>1. Inv => TypeOK
  BY CountedZero DEF Inv, Types, TypeOK, Counted
<1> QED
  BY <1>1, Invariance, PTL

\* Shutdown with a deadline closes no component under a ForceFlush that was
\* running when it began, unless its wait for that flush expired.
THEOREM FlushFinishesFirst == Spec => []NoCloseUnderFlush
<1>1. Inv => NoCloseUnderFlush
  BY DEF Inv, Drained
<1> QED
  BY <1>1, Invariance, PTL

\* Once waitFlushes waits, no ForceFlush adds to the WaitGroup.
THEOREM WaitGroupRule == Spec => NoAddDuringWait
<1>1. Inv /\ [Next]_vars => [helper # "none" => wg' <= wg]_vars
  <2> SUFFICES ASSUME Inv, Next, helper # "none" PROVE wg' <= wg
    BY DEF Inv, Types
  <2>0. wg \in Int /\ shutdownStarted
    BY DEF Inv, Types, Phases
  <2>1. ASSUME NEW f \in Flushers, NEW d \in FlushBudgets \cup {NoDeadline}, EnterFlush(f, d)
        PROVE  wg' <= wg
    BY <2>0, <2>1 DEF EnterFlush
  <2>2. ASSUME NEW f \in Flushers, DoneFlush(f) PROVE wg' <= wg
    BY <2>0, <2>2 DEF DoneFlush
  <2>3. ASSUME NEW f \in Flushers, FlushStep(f), ~DoneFlush(f) PROVE wg' = wg
    BY <2>3 DEF FlushStep, StartSignals, SignalReturns, EndSignals, MetricsReturns,
                LeaveFlush, sdkVars
  <2>4. CASE BodyStep
    <3>1. wg' = wg
      BY <2>4 DEF BodyStep, MarkShutdown, BeginWait, EndWait, StartCloser, CloserReturns,
                  FinishShutdown, sdkVars
    <3> QED
      BY <2>0, <3>1
  <2>5. ASSUME NEW c \in Callers,
               ReturnShutdown(c) \/ \E d \in Budgets \cup {NoDeadline} : EnterShutdown(c, d)
        PROVE  wg' = wg
    BY <2>5 DEF ReturnShutdown, EnterShutdown, sdkVars
  <2>6. CASE HelperWakes \/ Tick \/ Terminated \/ CancelShutdown
    <3>1. wg' = wg
      BY <2>6 DEF HelperWakes, Tick, Terminated, CancelShutdown, vars, sdkVars
    <3> QED
      BY <2>0, <3>1
  <2>7. wg' = wg => wg' <= wg
    BY <2>0
  <2> QED
    BY <2>1, <2>2, <2>3, <2>4, <2>5, <2>6, <2>7 DEF Next
<1> QED
  BY <1>1, Invariance, PTL DEF Spec, NoAddDuringWait

\* Shutdown runs the closers in order and each exactly once, however many
\* goroutines call it.
THEOREM ClosersOnce == Spec => []ClosedInOrder
BY Invariance, PTL

\* No Shutdown call returns before every closer has, and all return the same
\* joined error.
THEOREM SameOutcome == Spec => []CallersSeeOutcome
<1>1. Inv => CallersSeeOutcome
  BY DEF Inv, Phases, CallersSeeOutcome
<1> QED
  BY <1>1, Invariance, PTL

\* A deadline that allows a tick for the wait and one per closer gives every
\* closer a tick, however slow the ones before it are.
THEOREM ShareTheorem == Spec => []EveryCloserGetsAShare
<1>1. Inv => EveryCloserGetsAShare
  BY DEF Inv, Types, Shared, EveryCloserGetsAShare, Deadlines, NoDeadline
<1> QED
  BY <1>1, Invariance, PTL

\* Shutdown never works past its deadline.
THEOREM DeadlineTheorem == Spec => []ShutdownMeetsDeadline
<1>1. Inv => ShutdownMeetsDeadline
  BY DEF Inv, Types, OnTime, ShutdownMeetsDeadline, Deadlines, NoDeadline
<1> QED
  BY <1>1, Invariance, PTL

\* Any number of Shutdown calls run the closers once and agree on the outcome.
THEOREM OneOutcomeTheorem == Spec => []OneOutcome
  BY ClosersOnce, SameOutcome, PTL DEF OneOutcome

\* The deadline is shared between the closers and is never exceeded.
THEOREM TimeTheorem == Spec => []TimeShared
  BY ShareTheorem, DeadlineTheorem, PTL DEF TimeShared

\* Stage one of a flush with two ticks or more ends before the call's deadline when
\* the metrics are still to be flushed.
StageTime ==
  FlushHonoursCtx => \A f \in Flushers : flushGranted[f] >= 2 =>
    /\ flush[f] = "entered" => flushEnd[f] \in Nat /\ flushEnd[f] - now >= 2
    /\ flush[f] = "signals" =>
         /\ flushEnd[f] \in Nat /\ stageEnd[f] \in Nat /\ now <= stageEnd[f]
         /\ cfg.flushMetrics => stageEnd[f] < flushEnd[f]

\* Stage one keeps to its share.
LEMMA StageTimeStep == Types /\ StageTime /\ [Next]_vars => StageTime'
<1> SUFFICES ASSUME Types, StageTime, [Next]_vars PROVE StageTime'
  OBVIOUS
<1>1. CASE UNCHANGED <<cfg, now, flushVars>>
  BY <1>1 DEF StageTime, flushVars
<1>2. ASSUME NEW f \in Flushers, NEW d \in FlushBudgets \cup {NoDeadline}, EnterFlush(f, d) PROVE StageTime'
  <2>1. /\ now' = now /\ cfg' = cfg /\ stageEnd' = stageEnd
        /\ \A g \in Flushers : g # f => /\ flush'[g] = flush[g] /\ flushEnd'[g] = flushEnd[g]
                                        /\ flushGranted'[g] = flushGranted[g]
    BY <1>2 DEF EnterFlush, Types
  <2>2. \/ flush'[f] = "refused"
        \/ flush'[f] = "entered" /\ flushGranted'[f] = d /\ flushEnd'[f] = Ctx(d)
    BY <1>2 DEF EnterFlush, Types
  <2>3. d >= 2 => Ctx(d) \in Nat /\ Ctx(d) - now >= 2
    BY TimeAssumption DEF Ctx, NoDeadline, Types
  <2>4. ASSUME NEW g \in Flushers, FlushHonoursCtx, flushGranted'[g] >= 2
        PROVE  /\ flush'[g] = "entered" => flushEnd'[g] \in Nat /\ flushEnd'[g] - now' >= 2
               /\ flush'[g] = "signals" =>
                    /\ flushEnd'[g] \in Nat /\ stageEnd'[g] \in Nat /\ now' <= stageEnd'[g]
                    /\ cfg'.flushMetrics => stageEnd'[g] < flushEnd'[g]
    <3>1. CASE g = f
      BY <2>1, <2>2, <2>3, <2>4, <3>1
    <3>2. CASE g # f
      BY <2>1, <2>4, <3>2 DEF StageTime
    <3> QED
      BY <3>1, <3>2
  <2> QED
    BY <2>4 DEF StageTime
<1>3. ASSUME NEW f \in Flushers, StartSignals(f) PROVE StageTime'
  <2>1. /\ now' = now /\ cfg' = cfg /\ flushEnd' = flushEnd /\ flushGranted' = flushGranted
        /\ flush[f] = "entered"
        /\ \A g \in Flushers : g # f => flush'[g] = flush[g] /\ stageEnd'[g] = stageEnd[g]
    BY <1>3 DEF StartSignals, Types, sdkVars
  <2>2. \/ flush'[f] \in {"metrics", "leave"}
        \/ /\ flush'[f] = "signals"
           /\ stageEnd'[f] = ShutdownBudget(flushEnd[f], IF cfg.flushMetrics THEN 2 ELSE 1)
    BY <1>3 DEF StartSignals, AfterSignals, Types
  <2>3. ASSUME FlushHonoursCtx, flushGranted[f] >= 2, flush'[f] = "signals"
        PROVE  /\ flushEnd[f] \in Nat /\ stageEnd'[f] \in Nat /\ now <= stageEnd'[f]
               /\ cfg.flushMetrics => stageEnd'[f] < flushEnd[f]
    <3>1. PICK end \in Nat : end = flushEnd[f] /\ end - now >= 2
      BY <2>1, <2>3 DEF StageTime
    <3>2. PICK r \in {1, 2} : r = (IF cfg.flushMetrics THEN 2 ELSE 1)
      OBVIOUS
    <3>3. stageEnd'[f] = ShutdownBudget(end, r)
      BY <2>2, <2>3, <3>1, <3>2
    <3>4. now \in Nat /\ now <= end
      BY <3>1 DEF Types
    <3>5. ShutdownBudget(end, r) \in Nat /\ now <= ShutdownBudget(end, r)
      BY <3>4, BudgetWithin
    <3>6. r = 2 => ShutdownBudget(end, 2) <= end - (2 - 1)
      BY <3>1, <3>4, BudgetLeaves
    <3>7. cfg.flushMetrics => r = 2
      BY <3>2
    <3> QED
      BY <3>1, <3>3, <3>5, <3>6, <3>7
  <2>4. ASSUME NEW g \in Flushers, FlushHonoursCtx, flushGranted'[g] >= 2
        PROVE  /\ flush'[g] = "entered" => flushEnd'[g] \in Nat /\ flushEnd'[g] - now' >= 2
               /\ flush'[g] = "signals" =>
                    /\ flushEnd'[g] \in Nat /\ stageEnd'[g] \in Nat /\ now' <= stageEnd'[g]
                    /\ cfg'.flushMetrics => stageEnd'[g] < flushEnd'[g]
    <3>1. CASE g = f
      BY <2>1, <2>2, <2>3, <2>4, <3>1
    <3>2. CASE g # f
      BY <2>1, <2>4, <3>2 DEF StageTime
    <3> QED
      BY <3>1, <3>2
  <2> QED
    BY <2>4 DEF StageTime
<1>4. ASSUME NEW f \in Flushers,
             (\E s \in Signals : SignalReturns(f, s)) \/ EndSignals(f) \/ MetricsReturns(f) \/ LeaveFlush(f) \/ DoneFlush(f)
      PROVE  StageTime'
  <2>1. /\ UNCHANGED <<now, cfg, flushEnd, flushGranted, stageEnd>>
        /\ \A g \in Flushers : flush'[g] = flush[g] \/ flush'[g] \notin {"entered", "signals"}
    BY <1>4 DEF SignalReturns, EndSignals, MetricsReturns, LeaveFlush, DoneFlush, AfterSignals, Types, sdkVars
  <2> QED
    BY <2>1 DEF StageTime
<1>5. CASE Tick
  <2>1. /\ now' = now + 1 /\ UNCHANGED <<cfg, flush, flushEnd, flushGranted, stageEnd>>
        /\ FlushHonoursCtx => \A f \in Flushers :
              flush[f] # "entered" /\ (flush[f] = "signals" => ~Done(stageEnd[f]))
    BY <1>5 DEF Tick, flushVars, sdkVars
  <2>2. ASSUME NEW e \in Nat, ~Done(e), now <= e PROVE now + 1 <= e
    BY <2>2 DEF Done, Types, NoDeadline
  <2> QED
    BY <2>1, <2>2 DEF StageTime
<1> QED
  BY <1>1, <1>2, <1>3, <1>4, <1>5
  DEF Next, BodyStep, FlushStep, EnterShutdown, MarkShutdown, BeginWait, EndWait, StartCloser, CloserReturns,
      FinishShutdown, ReturnShutdown, CancelShutdown, HelperWakes, Terminated, vars, sdkVars

\* The metrics stage of a ForceFlush with two ticks or more starts before the call's
\* deadline, however slow the flushers of stage one are.
THEOREM StageTheorem == Spec => MetricsStageHasTime
<1>1. Init => StageTime
  BY DEF Init, StageTime
<1>2. Inv /\ StageTime /\ [Next]_vars =>
        [\A f \in Flushers :
           FlushHonoursCtx /\ flush[f] = "signals" /\ flush'[f] = "metrics" /\ flushGranted[f] >= 2
             => now < flushEnd[f]]_vars
  <2> SUFFICES ASSUME Types, StageTime, Next, NEW f \in Flushers,
                      FlushHonoursCtx, flush[f] = "signals", flush'[f] = "metrics", flushGranted[f] >= 2
               PROVE  now < flushEnd[f]
    BY DEF Inv
  <2>1. /\ flushEnd[f] \in Nat /\ stageEnd[f] \in Nat /\ now \in Nat /\ now <= stageEnd[f]
        /\ cfg.flushMetrics => stageEnd[f] < flushEnd[f]
    BY DEF StageTime, Types
  <2>2. CASE \E g \in Flushers : EndSignals(g)
    <3>1. cfg.flushMetrics
      BY <2>2 DEF EndSignals, AfterSignals, Types
    <3> QED
      BY <2>1, <3>1
  <2>3. CASE UNCHANGED flush
    BY <2>3
  <2>4. ASSUME NEW g \in Flushers, MetricsReturns(g) \/ LeaveFlush(g) \/ DoneFlush(g) \/ StartSignals(g) PROVE g # f /\ flush'[f] = flush[f]
    BY <2>4 DEF MetricsReturns, LeaveFlush, DoneFlush, StartSignals, Types
  <2>5. ASSUME NEW g \in Flushers, NEW d \in FlushBudgets \cup {NoDeadline}, EnterFlush(g, d) PROVE flush'[f] = flush[f]
    BY <2>5 DEF EnterFlush, Types
  <2> QED
    BY <2>2, <2>3, <2>4, <2>5
    DEF Next, BodyStep, FlushStep, SignalReturns, EnterShutdown, MarkShutdown, BeginWait, EndWait, StartCloser,
        CloserReturns, FinishShutdown, ReturnShutdown, CancelShutdown, HelperWakes, Tick, Terminated, vars, flushVars
<1>3. Inv => Types
  BY DEF Inv
<1>4. Spec => []StageTime
  BY <1>1, <1>3, StageTimeStep, Invariance, PTL DEF Spec
<1> QED
  BY <1>2, <1>4, Invariance, PTL DEF Spec, MetricsStageHasTime

-----------------------------------------------------------------------------
(***************************************************************************)
(* The instances.  At every step of Init what runs is what the step says   *)
(* was built (Built), and from the moment closers are there they are the   *)
(* closers of exactly what runs, each once, the scrape server's before the *)
(* meter provider's (InOrder).  The server's goroutine, the address, the   *)
(* profiler and its slot follow what runs (Scrapes, Slot).                 *)
(***************************************************************************)

-----------------------------------------------------------------------------
(***************************************************************************)
(* Lists of closers.                                                       *)
(***************************************************************************)

\* The closers of the components of S, each once, server before meter.
InOrder(t, S) ==
  /\ t \in Seq(Closers)
  /\ \A i \in 1..Len(t) : t[i] \in S
  /\ \A m \in S : \E i \in 1..Len(t) : t[i] = m
  /\ \A i, j \in 1..Len(t) : t[i] = t[j] => i = j
  /\ \A i, j \in 1..Len(t) : t[i] = "meter" /\ t[j] = "server" => j < i

\* No closer, for nothing.
LEMMA NoCloser == InOrder(<<>>, {})
  BY DEF InOrder

\* A single closer.
LEMMA OneCloser == ASSUME NEW m \in Closers PROVE InOrder(<<m>>, {m})
<1>. DEFINE t == <<m>>
<1>1. t \in Seq(Closers) /\ Len(t) = 1 /\ t[1] = m
  OBVIOUS
<1>. HIDE DEF t
<1>2. InOrder(t, {m})
  BY <1>1 DEF InOrder
<1>. QED
  BY <1>2 DEF t

\* The closer of a pillar, where it is enabled.
LEMMA PillarCloser ==
  ASSUME NEW on, NEW m \in Closers
  PROVE  InOrder(NonNil(on, m), IF on THEN {m} ELSE {})
  BY NoCloser, OneCloser DEF NonNil

\* Lists of different components, the first without the meter or the second
\* without the server, make one.
LEMMA JoinClosers ==
  ASSUME NEW a, NEW b, NEW A, NEW B, InOrder(a, A), InOrder(b, B), A \cap B = {},
         "meter" \notin A \/ "server" \notin B
  PROVE  InOrder(a \o b, A \cup B)
<1>. DEFINE t == a \o b
<1>1. a \in Seq(Closers) /\ b \in Seq(Closers) /\ Len(a) \in Nat /\ Len(b) \in Nat
  BY DEF InOrder
<1>2. /\ t \in Seq(Closers) /\ Len(t) = Len(a) + Len(b)
      /\ \A i \in 1..Len(a) : t[i] = a[i]
      /\ \A i \in (Len(a) + 1)..(Len(a) + Len(b)) : t[i] = b[i - Len(a)]
  BY <1>1, ConcatProperties
<1>. HIDE DEF t
<1>3. \A i \in 1..Len(t) :
        \/ i \in 1..Len(a) /\ t[i] = a[i] /\ t[i] \in A
        \/ i > Len(a) /\ i - Len(a) \in 1..Len(b) /\ t[i] = b[i - Len(a)] /\ t[i] \in B
  BY <1>1, <1>2 DEF InOrder
<1>4. \A m \in A : \E i \in 1..Len(t) : t[i] = m
  <2>. SUFFICES ASSUME NEW m \in A PROVE \E i \in 1..Len(t) : t[i] = m
    OBVIOUS
  <2>1. PICK i \in 1..Len(a) : a[i] = m
    BY DEF InOrder
  <2>. QED
    BY <1>1, <1>2, <2>1
<1>5. \A m \in B : \E i \in 1..Len(t) : t[i] = m
  <2>. SUFFICES ASSUME NEW m \in B PROVE \E i \in 1..Len(t) : t[i] = m
    OBVIOUS
  <2>1. PICK i \in 1..Len(b) : b[i] = m
    BY DEF InOrder
  <2>2. Len(a) + i \in (Len(a) + 1)..(Len(a) + Len(b)) /\ (Len(a) + i) - Len(a) = i
    BY <1>1
  <2>3. t[Len(a) + i] = m
    BY <1>2, <2>1, <2>2
  <2>4. Len(a) + i \in 1..Len(t)
    BY <1>1, <1>2, <2>2
  <2>. QED
    BY <2>3, <2>4
<1>6. \A i, j \in 1..Len(t) : t[i] = t[j] => i = j
  <2>. SUFFICES ASSUME NEW i \in 1..Len(t), NEW j \in 1..Len(t), t[i] = t[j] PROVE i = j
    OBVIOUS
  <2>1. CASE t[i] \in A
    BY <1>3, <2>1 DEF InOrder
  <2>2. CASE t[i] \in B
    <3>1. i > Len(a) /\ j > Len(a) /\ i - Len(a) \in 1..Len(b) /\ j - Len(a) \in 1..Len(b)
          /\ b[i - Len(a)] = b[j - Len(a)]
      BY <1>3, <2>2
    <3>2. i - Len(a) = j - Len(a)
      BY <3>1 DEF InOrder
    <3>. QED
      BY <1>1, <3>2
  <2>. QED
    BY <1>3, <2>1, <2>2
<1>7. \A i, j \in 1..Len(t) : t[i] = "meter" /\ t[j] = "server" => j < i
  <2>. SUFFICES ASSUME NEW i \in 1..Len(t), NEW j \in 1..Len(t), t[i] = "meter", t[j] = "server"
               PROVE  j < i
    OBVIOUS
  <2>1. CASE t[i] \in A /\ t[j] \in A
    BY <1>3, <2>1 DEF InOrder
  <2>2. CASE t[i] \in B /\ t[j] \in A
    BY <1>1, <1>3, <2>2
  <2>3. CASE t[i] \in B /\ t[j] \in B
    <3>1. i > Len(a) /\ j > Len(a) /\ i - Len(a) \in 1..Len(b) /\ j - Len(a) \in 1..Len(b)
          /\ b[i - Len(a)] = "meter" /\ b[j - Len(a)] = "server"
      BY <1>3, <2>3
    <3>2. j - Len(a) < i - Len(a)
      BY <3>1 DEF InOrder
    <3>. QED
      BY <1>1, <3>2
  <2>. QED
    BY <1>3, <2>1, <2>2, <2>3
<1>8. InOrder(t, A \cup B)
  BY <1>2, <1>3, <1>4, <1>5, <1>6, <1>7 DEF InOrder
<1>. QED
  BY <1>8 DEF t

\* The closers left after the first.
LEMMA NextCloser ==
  ASSUME NEW t, NEW S, InOrder(t, S), t # <<>>
  PROVE  /\ Head(t) \in S /\ InOrder(Tail(t), S \ {Head(t)})
         /\ Head(t) = "meter" => "server" \notin S
<1>1. t \in Seq(Closers) /\ Len(t) \in Nat /\ Len(t) > 0 /\ Head(t) = t[1]
  BY DEF InOrder
<1>2. /\ Tail(t) \in Seq(Closers) /\ Len(Tail(t)) = Len(t) - 1
      /\ \A i \in 1..(Len(t) - 1) : Tail(t)[i] = t[i + 1]
  BY <1>1
<1>3. \A i \in 1..(Len(t) - 1) : i + 1 \in 1..Len(t) /\ i + 1 # 1
  BY <1>1
<1>4. \A i \in 1..Len(Tail(t)) : Tail(t)[i] \in S \ {Head(t)}
  BY <1>1, <1>2, <1>3 DEF InOrder
<1>5. \A m \in S \ {Head(t)} : \E i \in 1..Len(Tail(t)) : Tail(t)[i] = m
  <2>. SUFFICES ASSUME NEW m \in S, m # Head(t) PROVE \E i \in 1..Len(Tail(t)) : Tail(t)[i] = m
    OBVIOUS
  <2>1. PICK k \in 1..Len(t) : t[k] = m
    BY DEF InOrder
  <2>2. k # 1
    BY <1>1, <2>1
  <2>3. k - 1 \in 1..(Len(t) - 1) /\ (k - 1) + 1 = k
    BY <1>1, <2>1, <2>2
  <2>. QED
    BY <1>2, <2>1, <2>3
<1>6. \A i, j \in 1..Len(Tail(t)) : Tail(t)[i] = Tail(t)[j] => i = j
  <2>. SUFFICES ASSUME NEW i \in 1..Len(Tail(t)), NEW j \in 1..Len(Tail(t)), Tail(t)[i] = Tail(t)[j]
               PROVE  i = j
    OBVIOUS
  <2>1. t[i + 1] = t[j + 1] /\ i + 1 \in 1..Len(t) /\ j + 1 \in 1..Len(t)
    BY <1>2, <1>3
  <2>2. i + 1 = j + 1
    BY <2>1 DEF InOrder
  <2>. QED
    BY <1>2, <2>2
<1>7. \A i, j \in 1..Len(Tail(t)) : Tail(t)[i] = "meter" /\ Tail(t)[j] = "server" => j < i
  <2>. SUFFICES ASSUME NEW i \in 1..Len(Tail(t)), NEW j \in 1..Len(Tail(t)),
                      Tail(t)[i] = "meter", Tail(t)[j] = "server"
               PROVE  j < i
    OBVIOUS
  <2>1. t[i + 1] = "meter" /\ t[j + 1] = "server" /\ i + 1 \in 1..Len(t) /\ j + 1 \in 1..Len(t)
    BY <1>2, <1>3
  <2>2. j + 1 < i + 1
    BY <2>1 DEF InOrder
  <2>. QED
    BY <1>2, <2>2
<1>8. Head(t) \in S
  BY <1>1 DEF InOrder
<1>9. ASSUME Head(t) = "meter" PROVE "server" \notin S
  <2>. SUFFICES ASSUME "server" \in S PROVE FALSE
    OBVIOUS
  <2>1. PICK j \in 1..Len(t) : t[j] = "server"
    BY DEF InOrder
  <2>2. j < 1
    BY <1>1, <1>9, <2>1 DEF InOrder
  <2>. QED
    BY <1>1, <2>2
<1>. QED
  BY <1>2, <1>4, <1>5, <1>6, <1>7, <1>8, <1>9 DEF InOrder

-----------------------------------------------------------------------------
(***************************************************************************)
(* The invariant.                                                          *)
(***************************************************************************)

\* What the first pillars of p are, once built.
Traces(p) == IF p.trace THEN {"traces"} ELSE {}
Scraped(p) == IF Assembly!Pull(p) THEN {"server"} ELSE {}
Metered(p) == Scraped(p) \cup (IF p.metrics THEN {"meter"} ELSE {})
Logs(p) == IF p.log THEN {"logs"} ELSE {}

Labels == {"options", "tracer", "meter", "runtime", "listen", "register", "logger", "profiler", "up",
           "closing", "shutdown", "failed", "down"}

LifeType ==
  /\ pillars \in [Sdks -> Pillars]
  /\ pc \in [Sdks -> Labels]
  /\ building \in [Sdks -> SUBSET Closers]
  /\ todo \in [Sdks -> Seq(Closers)]
  /\ serve \in [Sdks -> {"none", "spawned", "serving", "late", "done"}]
  /\ profiler \in [Sdks -> {"none", "running", "stopping", "stopped"}]

\* What runs at each label of an instance with the pillars p.
Built(p, label, runs, closers) ==
  /\ label \in {"options", "tracer", "failed", "down"} => runs = {}
  /\ label = "meter" => runs = Traces(p)
  /\ label \in {"runtime", "listen"} => p.metrics /\ runs = Traces(p) \cup {"meter"}
  /\ label = "listen" => Assembly!Pull(p)
  /\ label = "register" => p.metrics /\ runs = Traces(p) \cup Metered(p)
  /\ label = "logger" => runs = Traces(p) \cup Metered(p)
  /\ label = "profiler" => runs = Traces(p) \cup Metered(p) \cup Logs(p)
  /\ label \in {"up", "closing", "shutdown"} =>
       InOrder(closers, runs) /\ ("server" \in runs => "meter" \in runs)

\* The address is the server's that was not yet closed.
Scrapes ==
  \A s \in Sdks :
    /\ "server" \in building[s] <=> serve[s] \in {"spawned", "serving"}
    /\ serve[s] \in {"spawned", "serving", "late"} <=> port = s

Slot ==
  /\ Assembly!OneProfiler
  /\ \A s \in Sdks : "profiler" \in building[s] <=> profiler[s] = "running"

LifeInv ==
  /\ LifeType /\ Scrapes /\ Slot
  /\ \A s \in Sdks : Built(pillars[s], pc[s], building[s], todo[s])

\* Nothing runs before the first Init.
LEMMA LifeInit == Assembly!Init => LifeInv
<1>. SUFFICES ASSUME Assembly!Init PROVE LifeInv
  OBVIOUS
<1>1. LifeType
  BY RequestsAssumption DEF Assembly!Init, LifeType, Labels
<1>2. Scrapes
  BY SdksAssumption DEF Assembly!Init, Scrapes
<1>3. Slot
  BY DEF Assembly!Init, Slot, Assembly!OneProfiler, Assembly!Holds
<1>4. \A s \in Sdks : Built(pillars[s], pc[s], building[s], todo[s])
  BY DEF Assembly!Init, Built
<1>. QED
  BY <1>1, <1>2, <1>3, <1>4 DEF LifeInv

\* A step of one instance leaves the others alone.
LEMMA OneInstance ==
  ASSUME LifeInv, NEW s \in Sdks, NEW label \in Labels, NEW runs \in SUBSET Closers,
         NEW closers \in Seq(Closers), pc' = [pc EXCEPT ![s] = label],
         building' = [building EXCEPT ![s] = runs], todo' = [todo EXCEPT ![s] = closers],
         UNCHANGED pillars, Built(pillars[s], label, runs, closers)
  PROVE  /\ pillars' \in [Sdks -> Pillars] /\ pc' \in [Sdks -> Labels]
         /\ building' \in [Sdks -> SUBSET Closers] /\ todo' \in [Sdks -> Seq(Closers)]
         /\ \A t \in Sdks : Built(pillars'[t], pc'[t], building'[t], todo'[t])
         /\ building'[s] = runs /\ \A t \in Sdks : t # s => building'[t] = building[t]
<1>1. /\ pillars \in [Sdks -> Pillars] /\ pc \in [Sdks -> Labels]
      /\ building \in [Sdks -> SUBSET Closers] /\ todo \in [Sdks -> Seq(Closers)]
  BY DEF LifeInv, LifeType
<1>2. ASSUME NEW t \in Sdks, t # s PROVE Built(pillars'[t], pc'[t], building'[t], todo'[t])
  <2>1. pc'[t] = pc[t] /\ building'[t] = building[t] /\ todo'[t] = todo[t] /\ pillars'[t] = pillars[t]
    BY <1>1, <1>2
  <2>. QED
    BY <2>1 DEF LifeInv
<1>3. Built(pillars'[s], pc'[s], building'[s], todo'[s])
  BY <1>1
<1>. QED
  BY <1>1, <1>2, <1>3

\* A step that starts or stops neither server nor profiler.
LEMMA PlainStep ==
  ASSUME LifeInv, NEW s \in Sdks, NEW label \in Labels, NEW runs \in SUBSET Closers,
         NEW closers \in Seq(Closers), pc' = [pc EXCEPT ![s] = label],
         building' = [building EXCEPT ![s] = runs], todo' = [todo EXCEPT ![s] = closers],
         UNCHANGED <<pillars, port, serve, slot, profiler>>,
         Built(pillars[s], label, runs, closers),
         "server" \in runs <=> "server" \in building[s],
         "profiler" \in runs <=> "profiler" \in building[s]
  PROVE  LifeInv'
<1>1. /\ pillars' \in [Sdks -> Pillars] /\ pc' \in [Sdks -> Labels]
      /\ building' \in [Sdks -> SUBSET Closers] /\ todo' \in [Sdks -> Seq(Closers)]
      /\ \A t \in Sdks : Built(pillars'[t], pc'[t], building'[t], todo'[t])
      /\ building'[s] = runs /\ \A t \in Sdks : t # s => building'[t] = building[t]
  BY OneInstance
<1>2. LifeType'
  BY <1>1 DEF LifeInv, LifeType
<1>3. Scrapes'
  BY <1>1 DEF LifeInv, Scrapes
<1>4. Slot'
  BY <1>1 DEF LifeInv, Slot, Assembly!OneProfiler, Assembly!Holds
<1>. QED
  BY <1>1, <1>2, <1>3, <1>4 DEF LifeInv

\* The list of the closers InitMeter or Init runs on a failure.
LEMMA FailureClosers ==
  ASSUME NEW p
  PROVE  /\ InOrder(NonNil(p.trace, "traces"), Traces(p))
         /\ InOrder(NonNil(Assembly!Pull(p), "server") \o <<"meter">> \o NonNil(p.trace, "traces"),
                    Scraped(p) \cup {"meter"} \cup Traces(p))
         /\ InOrder(NonNil(Assembly!Pull(p), "server") \o NonNil(p.metrics, "meter")
                      \o NonNil(p.trace, "traces"), Metered(p) \cup Traces(p))
         /\ InOrder(NonNil(Assembly!Pull(p), "server") \o NonNil(p.metrics, "meter")
                      \o NonNil(p.log, "logs") \o NonNil(p.trace, "traces"),
                    Metered(p) \cup Logs(p) \cup Traces(p))
<1>. DEFINE server == NonNil(Assembly!Pull(p), "server")
           meter == NonNil(p.metrics, "meter")
           traces == NonNil(p.trace, "traces")
           logs == NonNil(p.log, "logs")
           Meter == IF p.metrics THEN {"meter"} ELSE {}
<1>1. /\ InOrder(server, Scraped(p)) /\ InOrder(meter, Meter) /\ InOrder(<<"meter">>, {"meter"})
      /\ InOrder(traces, Traces(p)) /\ InOrder(logs, Logs(p))
  BY PillarCloser, OneCloser DEF Closers, Scraped, Traces, Logs
<1>2. Scraped(p) \subseteq {"server"} /\ Meter \subseteq {"meter"} /\ Traces(p) \subseteq {"traces"}
      /\ Logs(p) \subseteq {"logs"}
  BY DEF Scraped, Traces, Logs
<1>3. Metered(p) = Scraped(p) \cup Meter
  BY DEF Metered
<1>. HIDE DEF server, meter, traces, logs, Meter
<1>4. InOrder(server \o <<"meter">>, Scraped(p) \cup {"meter"})
  BY <1>1, <1>2, JoinClosers
<1>5. InOrder(server \o <<"meter">> \o traces, Scraped(p) \cup {"meter"} \cup Traces(p))
  BY <1>1, <1>2, <1>4, JoinClosers
<1>6. InOrder(server \o meter, Metered(p))
  BY <1>1, <1>2, <1>3, JoinClosers
<1>7. InOrder(server \o meter \o traces, Metered(p) \cup Traces(p))
  BY <1>1, <1>2, <1>3, <1>6, JoinClosers
<1>8. InOrder(server \o meter \o logs, Metered(p) \cup Logs(p))
  BY <1>1, <1>2, <1>3, <1>6, JoinClosers
<1>9. InOrder(server \o meter \o logs \o traces, Metered(p) \cup Logs(p) \cup Traces(p))
  BY <1>1, <1>2, <1>3, <1>8, JoinClosers
<1>. QED
  BY <1>1, <1>5, <1>7, <1>9 DEF server, meter, traces, logs

\* The closers an SDK is given.
LEMMA SdkClosers ==
  ASSUME NEW p
  PROVE  InOrder(SdkFields(p).shutdowns,
                 Traces(p) \cup Metered(p) \cup Logs(p) \cup IF p.profiling THEN {"profiler"} ELSE {})
<1>. DEFINE prof == NonNil(p.profiling, "profiler")
           server == NonNil(p.metrics /\ ~p.push, "server")
           meter == NonNil(p.metrics, "meter")
           traces == NonNil(p.trace, "traces")
           logs == NonNil(p.log, "logs")
           Prof == IF p.profiling THEN {"profiler"} ELSE {}
           Meter == IF p.metrics THEN {"meter"} ELSE {}
<1>1. /\ InOrder(server, Scraped(p)) /\ InOrder(meter, Meter) /\ InOrder(prof, Prof)
      /\ InOrder(traces, Traces(p)) /\ InOrder(logs, Logs(p))
  BY PillarCloser, OneCloser DEF Closers, Scraped, Traces, Logs, Assembly!Pull
<1>2. Scraped(p) \subseteq {"server"} /\ Meter \subseteq {"meter"} /\ Traces(p) \subseteq {"traces"}
      /\ Logs(p) \subseteq {"logs"} /\ Prof \subseteq {"profiler"}
  BY DEF Scraped, Traces, Logs
<1>3. Metered(p) = Scraped(p) \cup Meter
  BY DEF Metered
<1>4. SdkFields(p).shutdowns = prof \o traces \o logs \o server \o meter
  BY DEF SdkFields, ShutdownSequence
<1>5. Prof = IF p.profiling THEN {"profiler"} ELSE {}
  OBVIOUS
<1>. HIDE DEF server, meter, traces, logs, prof, Meter, Prof
<1>6. InOrder(prof \o traces, Prof \cup Traces(p))
  BY <1>1, <1>2, JoinClosers
<1>7. InOrder(prof \o traces \o logs, Prof \cup Traces(p) \cup Logs(p))
  BY <1>1, <1>2, <1>6, JoinClosers
<1>8. InOrder(prof \o traces \o logs \o server, Prof \cup Traces(p) \cup Logs(p) \cup Scraped(p))
  BY <1>1, <1>2, <1>7, JoinClosers
<1>9. InOrder(prof \o traces \o logs \o server \o meter,
              Prof \cup Traces(p) \cup Logs(p) \cup Scraped(p) \cup Meter)
  BY <1>1, <1>2, <1>8, JoinClosers
<1>10. Prof \cup Traces(p) \cup Logs(p) \cup Scraped(p) \cup Meter
         = Traces(p) \cup Metered(p) \cup Logs(p) \cup Prof
  BY <1>3
<1>. QED
  BY <1>4, <1>5, <1>9, <1>10

\* What an instance has before a step.
LEMMA Before ==
  ASSUME LifeInv, NEW s \in Sdks
  PROVE  /\ pillars[s] \in Pillars /\ pc[s] \in Labels /\ building[s] \in SUBSET Closers
         /\ todo[s] \in Seq(Closers) /\ Built(pillars[s], pc[s], building[s], todo[s])
         /\ todo = [todo EXCEPT ![s] = todo[s]] /\ building = [building EXCEPT ![s] = building[s]]
         /\ pc = [pc EXCEPT ![s] = pc[s]]
  BY DEF LifeInv, LifeType

\* A step to another label that builds nothing and closes nothing.
LEMMA GotoStep ==
  ASSUME LifeInv, NEW s \in Sdks, NEW label \in Labels, Assembly!Goto(s, label),
         UNCHANGED <<pillars, building, port, serve, slot, profiler>>,
         Built(pillars[s], label, building[s], todo[s])
  PROVE  LifeInv'
<1>1. pc' = [pc EXCEPT ![s] = label] /\ todo' = [todo EXCEPT ![s] = todo[s]]
      /\ building' = [building EXCEPT ![s] = building[s]]
  BY Before DEF Assembly!Goto
<1>. QED
  BY <1>1, Before, PlainStep

\* A step that builds a component, neither server nor profiler.
LEMMA BuildStep ==
  ASSUME LifeInv, NEW s \in Sdks, NEW label \in Labels, NEW m \in Closers \ {"server", "profiler"},
         Assembly!Goto(s, label), Assembly!Build(s, m),
         UNCHANGED <<pillars, port, serve, slot, profiler>>,
         Built(pillars[s], label, building[s] \cup {m}, todo[s])
  PROVE  LifeInv'
<1>1. /\ pc' = [pc EXCEPT ![s] = label] /\ todo' = [todo EXCEPT ![s] = todo[s]]
      /\ building' = [building EXCEPT ![s] = building[s] \cup {m}]
      /\ building[s] \cup {m} \in SUBSET Closers
  BY Before DEF Assembly!Goto, Assembly!Build
<1>. QED
  BY <1>1, Before, PlainStep

\* A step that fails and closes what runs.
LEMMA CloseStep ==
  ASSUME LifeInv, NEW s \in Sdks, NEW closers, Assembly!CloseAll(s, closers),
         UNCHANGED <<pillars, building, port, serve, slot, profiler>>,
         InOrder(closers, building[s]), "server" \in building[s] => "meter" \in building[s]
  PROVE  LifeInv'
<1>1. /\ pc' = [pc EXCEPT ![s] = "closing"] /\ todo' = [todo EXCEPT ![s] = closers]
      /\ building' = [building EXCEPT ![s] = building[s]]
  BY Before DEF Assembly!CloseAll
<1>2. Built(pillars[s], "closing", building[s], closers) /\ closers \in Seq(Closers)
  BY DEF Built, InOrder
<1>. QED
  BY <1>1, <1>2, Before, PlainStep DEF Labels

\* InitMeter fails before there is a listener.
LEMMA MeterFailsStep ==
  ASSUME LifeInv, NEW s \in Sdks, pc[s] \in {"meter", "runtime", "listen"}, Assembly!MeterFails(s),
         UNCHANGED <<pillars, port, serve, slot, profiler>>
  PROVE  LifeInv'
<1>. DEFINE closers == NonNil(pillars[s].trace, "traces")
<1>1. /\ pc' = [pc EXCEPT ![s] = "closing"] /\ todo' = [todo EXCEPT ![s] = closers]
      /\ building' = [building EXCEPT ![s] = building[s] \ {"meter"}]
  BY DEF Assembly!MeterFails, Assembly!CloseAll, Assembly!NonNil, NonNil
<1>2. building[s] \ {"meter"} = Traces(pillars[s])
  BY Before DEF Built, Traces
<1>3. InOrder(closers, Traces(pillars[s])) /\ "server" \notin Traces(pillars[s])
  BY FailureClosers DEF Traces
<1>. HIDE DEF closers
<1>4. Built(pillars[s], "closing", building[s] \ {"meter"}, closers) /\ closers \in Seq(Closers)
  BY <1>2, <1>3 DEF Built, InOrder
<1>5. "server" \notin building[s] \ {"meter"} /\ "profiler" \notin building[s] \ {"meter"}
  BY <1>2 DEF Traces
<1>. QED
  BY <1>1, <1>4, <1>5, Before, PlainStep DEF Labels

\* The steps of Init that start neither server nor profiler.
LEMMA ValidateStep == ASSUME LifeInv, NEW s \in Sdks, Assembly!Validate(s) PROVE LifeInv'
<1>1. building[s] = {}
  BY Before DEF Assembly!Validate, Built
<1>2. Built(pillars[s], "tracer", building[s], todo[s]) /\ Built(pillars[s], "failed", building[s], todo[s])
  BY <1>1 DEF Built
<1>. QED
  BY <1>2, GotoStep DEF Assembly!Validate, Labels

\* The tracer provider.
LEMMA TracerStep == ASSUME LifeInv, NEW s \in Sdks, Assembly!InitTracer(s) PROVE LifeInv'
<1>1. building[s] = {}
  BY Before DEF Assembly!InitTracer, Built
<1>2. CASE pillars[s].trace /\ Assembly!Build(s, "traces") /\ Assembly!Goto(s, "meter")
  <2>1. Built(pillars[s], "meter", building[s] \cup {"traces"}, todo[s])
    BY <1>1, <1>2 DEF Built, Traces
  <2>. QED
    BY <1>2, <2>1, BuildStep DEF Assembly!InitTracer, Labels, Closers
<1>3. CASE Assembly!Goto(s, "failed") /\ UNCHANGED building
  <2>1. Built(pillars[s], "failed", building[s], todo[s])
    BY <1>1 DEF Built
  <2>. QED
    BY <1>3, <2>1, GotoStep DEF Assembly!InitTracer, Labels
<1>4. CASE ~pillars[s].trace /\ Assembly!Goto(s, "meter") /\ UNCHANGED building
  <2>1. Built(pillars[s], "meter", building[s], todo[s])
    BY <1>1, <1>4 DEF Built, Traces
  <2>. QED
    BY <1>4, <2>1, GotoStep DEF Assembly!InitTracer, Labels
<1>. QED
  BY <1>2, <1>3, <1>4 DEF Assembly!InitTracer

\* The meter provider.
LEMMA MeterStep == ASSUME LifeInv, NEW s \in Sdks, Assembly!NewMeterProvider(s) PROVE LifeInv'
<1>1. building[s] = Traces(pillars[s])
  BY Before DEF Assembly!NewMeterProvider, Built
<1>2. CASE pillars[s].metrics /\ Assembly!Build(s, "meter") /\ Assembly!Goto(s, "runtime")
  <2>1. Built(pillars[s], "runtime", building[s] \cup {"meter"}, todo[s])
    BY <1>1, <1>2 DEF Built
  <2>. QED
    BY <1>2, <2>1, BuildStep DEF Assembly!NewMeterProvider, Labels, Closers
<1>3. CASE Assembly!MeterFails(s)
  BY <1>3, MeterFailsStep DEF Assembly!NewMeterProvider
<1>4. CASE ~pillars[s].metrics /\ Assembly!Goto(s, "logger") /\ UNCHANGED building
  <2>1. Built(pillars[s], "logger", building[s], todo[s])
    BY <1>1, <1>4 DEF Built, Metered, Scraped, Assembly!Pull
  <2>. QED
    BY <1>4, <2>1, GotoStep DEF Assembly!NewMeterProvider, Labels
<1>. QED
  BY <1>2, <1>3, <1>4 DEF Assembly!NewMeterProvider

\* The runtime metrics.
LEMMA RuntimeStep == ASSUME LifeInv, NEW s \in Sdks, Assembly!StartRuntime(s) PROVE LifeInv'
<1>1. pillars[s].metrics /\ building[s] = Traces(pillars[s]) \cup {"meter"}
  BY Before DEF Assembly!StartRuntime, Built
<1>2. CASE Assembly!Pull(pillars[s]) /\ Assembly!Goto(s, "listen") /\ UNCHANGED building
  <2>1. Built(pillars[s], "listen", building[s], todo[s])
    BY <1>1, <1>2 DEF Built
  <2>. QED
    BY <1>2, <2>1, GotoStep DEF Assembly!StartRuntime, Labels
<1>3. CASE ~Assembly!Pull(pillars[s]) /\ Assembly!Goto(s, "register") /\ UNCHANGED building
  <2>1. Metered(pillars[s]) = {"meter"}
    BY <1>1, <1>3 DEF Metered, Scraped
  <2>2. Built(pillars[s], "register", building[s], todo[s])
    BY <1>1, <2>1 DEF Built
  <2>. QED
    BY <1>3, <2>2, GotoStep DEF Assembly!StartRuntime, Labels
<1>4. CASE Assembly!MeterFails(s)
  BY <1>4, MeterFailsStep DEF Assembly!StartRuntime
<1>. QED
  BY <1>2, <1>3, <1>4 DEF Assembly!StartRuntime

\* The export-failure counter.
LEMMA RegisterStep == ASSUME LifeInv, NEW s \in Sdks, Assembly!Register(s) PROVE LifeInv'
<1>1. pillars[s].metrics /\ building[s] = Traces(pillars[s]) \cup Metered(pillars[s])
  BY Before DEF Assembly!Register, Built
<1>2. CASE Assembly!Goto(s, "logger")
  <2>1. Built(pillars[s], "logger", building[s], todo[s])
    BY <1>1 DEF Built
  <2>. QED
    BY <1>2, <2>1, GotoStep DEF Assembly!Register, Labels
<1>3. CASE ~Assembly!Goto(s, "logger")
  <2>. DEFINE closers == NonNil(Assembly!Pull(pillars[s]), "server") \o <<"meter">>
                           \o NonNil(pillars[s].trace, "traces")
  <2>1. InOrder(closers, Scraped(pillars[s]) \cup {"meter"} \cup Traces(pillars[s]))
    BY FailureClosers
  <2>2. building[s] = Scraped(pillars[s]) \cup {"meter"} \cup Traces(pillars[s])
    BY <1>1 DEF Metered
  <2>3. Assembly!CloseAll(s, closers)
    BY <1>3 DEF Assembly!Register, Assembly!NonNil, NonNil
  <2>. HIDE DEF closers
  <2>. QED
    BY <2>1, <2>2, <2>3, CloseStep DEF Assembly!Register
<1>. QED
  BY <1>2, <1>3

\* Metrics imply a meter provider.
LEMMA ServedByMeter == ASSUME NEW p PROVE "server" \in Metered(p) => "meter" \in Metered(p)
  BY DEF Metered, Scraped, Assembly!Pull

\* The logger provider.
LEMMA LoggerStep == ASSUME LifeInv, NEW s \in Sdks, Assembly!InitLogger(s) PROVE LifeInv'
<1>1. building[s] = Traces(pillars[s]) \cup Metered(pillars[s])
  BY Before DEF Assembly!InitLogger, Built
<1>2. CASE pillars[s].log /\ Assembly!Build(s, "logs") /\ Assembly!Goto(s, "profiler")
  <2>1. Built(pillars[s], "profiler", building[s] \cup {"logs"}, todo[s])
    BY <1>1, <1>2 DEF Built, Logs
  <2>. QED
    BY <1>2, <2>1, BuildStep DEF Assembly!InitLogger, Labels, Closers
<1>. DEFINE closers == NonNil(Assembly!Pull(pillars[s]), "server") \o NonNil(pillars[s].metrics, "meter")
                         \o NonNil(pillars[s].trace, "traces")
<1>3. CASE UNCHANGED building /\ Assembly!CloseAll(s, closers)
  <2>1. InOrder(closers, Metered(pillars[s]) \cup Traces(pillars[s]))
    BY FailureClosers
  <2>2. /\ building[s] = Metered(pillars[s]) \cup Traces(pillars[s])
        /\ "server" \in building[s] => "meter" \in building[s]
    BY <1>1, ServedByMeter DEF Traces
  <2>. HIDE DEF closers
  <2>. QED
    BY <1>3, <2>1, <2>2, CloseStep DEF Assembly!InitLogger
<1>4. CASE ~pillars[s].log /\ Assembly!Goto(s, "profiler") /\ UNCHANGED building
  <2>1. Built(pillars[s], "profiler", building[s], todo[s])
    BY <1>1, <1>4 DEF Built, Logs
  <2>. QED
    BY <1>4, <2>1, GotoStep DEF Assembly!InitLogger, Labels
<1>. QED
  BY <1>2, <1>3, <1>4 DEF Assembly!InitLogger, Assembly!NonNil, NonNil

\* profiling.Start and the return of Init.
LEMMA ProfilerStep == ASSUME LifeInv, NEW s \in Sdks, Assembly!StartProfiler(s) PROVE LifeInv'
<1>. DEFINE p == pillars[s]
           q(started) == [p EXCEPT !.profiling = started]
           runs == Traces(p) \cup Metered(p) \cup Logs(p)
           closers(started) == SdkFields(q(started)).shutdowns
<1>1. building[s] = runs /\ p \in Pillars
  BY Before DEF Assembly!StartProfiler, Built
<1>2. /\ InOrder(closers(TRUE), runs \cup {"profiler"}) /\ InOrder(closers(FALSE), runs)
      /\ "server" \in runs => "meter" \in runs
  <2>1. \A b \in BOOLEAN :
          /\ q(b).trace = p.trace /\ q(b).log = p.log /\ q(b).metrics = p.metrics /\ q(b).push = p.push
          /\ q(b).profiling <=> b
    BY <1>1 DEF Pillars
  <2>2. \A b \in BOOLEAN : Traces(q(b)) \cup Metered(q(b)) \cup Logs(q(b)) = runs
    BY <2>1 DEF Traces, Metered, Scraped, Logs, Assembly!Pull
  <2>3. "server" \in runs => "meter" \in runs
    BY ServedByMeter DEF Traces, Logs
  <2>. HIDE DEF q, runs
  <2>. QED
    BY <2>1, <2>2, <2>3, SdkClosers
<1>3. Assembly!SdkFields(q(TRUE)) = SdkFields(q(TRUE)) /\ Assembly!SdkFields(q(FALSE)) = SdkFields(q(FALSE))
  BY DEF Assembly!SdkFields, SdkFields, Assembly!ShutdownSequence, ShutdownSequence, Assembly!NonNil, NonNil,
         Assembly!Range, Range
<1>. HIDE DEF q
<1>4. CASE /\ ~slot /\ slot' = TRUE /\ profiler' = [profiler EXCEPT ![s] = "running"]
           /\ Assembly!Build(s, "profiler") /\ Assembly!Return(s, TRUE)
  <2>1. /\ pc' = [pc EXCEPT ![s] = "up"] /\ todo' = [todo EXCEPT ![s] = closers(TRUE)]
        /\ building' = [building EXCEPT ![s] = runs \cup {"profiler"}]
        /\ UNCHANGED <<pillars, port, serve>>
    BY <1>1, <1>3, <1>4 DEF Assembly!Return, Assembly!Build, Assembly!StartProfiler, q
  <2>. HIDE DEF closers, runs
  <2>2. /\ Built(p, "up", runs \cup {"profiler"}, closers(TRUE)) /\ closers(TRUE) \in Seq(Closers)
        /\ runs \cup {"profiler"} \in SUBSET Closers
    BY <1>1, <1>2, Before DEF Built, InOrder, Closers
  <2>3. /\ pillars' \in [Sdks -> Pillars] /\ pc' \in [Sdks -> Labels]
        /\ building' \in [Sdks -> SUBSET Closers] /\ todo' \in [Sdks -> Seq(Closers)]
        /\ \A t \in Sdks : Built(pillars'[t], pc'[t], building'[t], todo'[t])
        /\ building'[s] = runs \cup {"profiler"} /\ \A t \in Sdks : t # s => building'[t] = building[t]
    BY <2>1, <2>2, OneInstance DEF Labels
  <2>4. LifeType'
    BY <1>4, <2>1, <2>3 DEF LifeInv, LifeType
  <2>5. Scrapes'
    BY <1>1, <2>1, <2>3 DEF LifeInv, Scrapes
  <2>6. Slot'
    BY <1>4, <2>3 DEF LifeInv, LifeType, Slot, Assembly!OneProfiler, Assembly!Holds
  <2>. QED
    BY <2>3, <2>4, <2>5, <2>6 DEF LifeInv
<1>. DEFINE failing == NonNil(Assembly!Pull(p), "server") \o NonNil(p.metrics, "meter")
                         \o NonNil(p.log, "logs") \o NonNil(p.trace, "traces")
<1>5. CASE Assembly!CloseAll(s, failing) /\ UNCHANGED <<building, slot, profiler>>
  <2>1. InOrder(failing, Metered(p) \cup Logs(p) \cup Traces(p))
    BY FailureClosers
  <2>2. building[s] = Metered(p) \cup Logs(p) \cup Traces(p)
    BY <1>1
  <2>3. UNCHANGED <<pillars, port, serve>>
    BY DEF Assembly!StartProfiler
  <2>. HIDE DEF failing
  <2>. QED
    BY <1>1, <1>2, <1>5, <2>1, <2>2, <2>3, CloseStep
<1>6. CASE Assembly!Return(s, FALSE) /\ UNCHANGED <<building, slot, profiler>>
  <2>1. /\ pc' = [pc EXCEPT ![s] = "up"] /\ todo' = [todo EXCEPT ![s] = closers(FALSE)]
        /\ building' = [building EXCEPT ![s] = building[s]]
        /\ UNCHANGED <<pillars, port, serve>>
    BY <1>3, <1>6, Before DEF Assembly!Return, Assembly!StartProfiler, q
  <2>2. Built(p, "up", building[s], closers(FALSE)) /\ closers(FALSE) \in Seq(Closers)
    BY <1>1, <1>2 DEF Built, InOrder
  <2>. HIDE DEF closers
  <2>. QED
    BY <1>6, <2>1, <2>2, Before, PlainStep DEF Labels
<1>. QED
  BY <1>4, <1>5, <1>6 DEF Assembly!StartProfiler, Assembly!NonNil, NonNil

\* net.Listen.
LEMMA ListenStep == ASSUME LifeInv, NEW s \in Sdks, Assembly!Listen(s) PROVE LifeInv'
<1>1. /\ building[s] = Traces(pillars[s]) \cup {"meter"} /\ pillars[s].metrics /\ Assembly!Pull(pillars[s])
      /\ "server" \notin building[s]
  BY Before DEF Assembly!Listen, Built, Traces
<1>2. CASE /\ port = Assembly!Nobody /\ port' = s /\ serve' = [serve EXCEPT ![s] = "spawned"]
           /\ Assembly!Build(s, "server") /\ Assembly!Goto(s, "register")
  <2>. DEFINE runs == building[s] \cup {"server"}
  <2>1. /\ pc' = [pc EXCEPT ![s] = "register"] /\ todo' = [todo EXCEPT ![s] = todo[s]]
        /\ building' = [building EXCEPT ![s] = runs]
        /\ UNCHANGED <<pillars, slot, profiler>>
    BY <1>2, Before DEF Assembly!Goto, Assembly!Build, Assembly!Listen
  <2>2. runs = Traces(pillars[s]) \cup Metered(pillars[s]) /\ runs \in SUBSET Closers
    BY <1>1, Before DEF Metered, Scraped, Closers
  <2>3. "profiler" \in runs <=> "profiler" \in building[s]
    OBVIOUS
  <2>. HIDE DEF runs
  <2>4. Built(pillars[s], "register", runs, todo[s])
    BY <1>1, <2>2 DEF Built
  <2>5. /\ pillars' \in [Sdks -> Pillars] /\ pc' \in [Sdks -> Labels]
        /\ building' \in [Sdks -> SUBSET Closers] /\ todo' \in [Sdks -> Seq(Closers)]
        /\ \A t \in Sdks : Built(pillars'[t], pc'[t], building'[t], todo'[t])
        /\ building'[s] = runs /\ \A t \in Sdks : t # s => building'[t] = building[t]
    BY <2>1, <2>2, <2>4, Before, OneInstance DEF Labels
  <2>6. LifeType'
    BY <1>2, <2>1, <2>5 DEF LifeInv, LifeType
  <2>7. Scrapes'
    <3>1. \A t \in Sdks : serve[t] \notin {"spawned", "serving", "late"}
      BY <1>2, SdksAssumption DEF LifeInv, Scrapes
    <3>2. \A t \in Sdks : t # s => serve'[t] = serve[t] /\ port' # t
      BY <1>2 DEF LifeInv, LifeType
    <3>3. serve'[s] = "spawned" /\ port' = s /\ "server" \in building'[s]
      BY <1>2, <2>5 DEF LifeInv, LifeType, runs
    <3>. QED
      BY <2>5, <3>1, <3>2, <3>3 DEF LifeInv, Scrapes
  <2>8. Slot'
    BY <2>1, <2>3, <2>5 DEF LifeInv, Slot, Assembly!OneProfiler, Assembly!Holds
  <2>. QED
    BY <2>5, <2>6, <2>7, <2>8 DEF LifeInv
<1>3. CASE Assembly!MeterFails(s) /\ UNCHANGED <<port, serve>>
  BY <1>3, MeterFailsStep DEF Assembly!Listen
<1>. QED
  BY <1>2, <1>3 DEF Assembly!Listen

\* Shutdown begins.
LEMMA BeginStep == ASSUME LifeInv, NEW s \in Sdks, Assembly!BeginShutdown(s) PROVE LifeInv'
<1>1. Built(pillars[s], "shutdown", building[s], todo[s])
  BY Before DEF Assembly!BeginShutdown, Built
<1>. QED
  BY <1>1, GotoStep DEF Assembly!BeginShutdown, Labels

\* Every closer has run.
LEMMA ClosedStep == ASSUME LifeInv, NEW s \in Sdks, Assembly!Closed(s) PROVE LifeInv'
<1>1. building[s] = {}
  BY Before DEF Assembly!Closed, Built, InOrder
<1>2. Built(pillars[s], "failed", building[s], todo[s]) /\ Built(pillars[s], "down", building[s], todo[s])
  BY <1>1 DEF Built
<1>. QED
  BY <1>2, GotoStep DEF Assembly!Closed, Labels

\* A closer runs: what it closes is gone, and of the server and the profiler only
\* what their goroutines still have to do is left.
LEMMA CloserStep == ASSUME LifeInv, NEW s \in Sdks, Assembly!RunCloser(s) PROVE LifeInv'
<1>. DEFINE m == Head(todo[s])
           runs == building[s] \ {m}
           rest == Tail(todo[s])
<1>1. /\ pc[s] \in {"closing", "shutdown"} /\ todo[s] # <<>>
      /\ InOrder(todo[s], building[s]) /\ ("server" \in building[s] => "meter" \in building[s])
  BY Before DEF Assembly!RunCloser, Built
<1>2. /\ m \in building[s] /\ InOrder(rest, runs) /\ (m = "meter" => "server" \notin building[s])
      /\ rest \in Seq(Closers)
  <2>1. m \in building[s] /\ InOrder(rest, runs) /\ (m = "meter" => "server" \notin building[s])
    BY <1>1, NextCloser
  <2>. HIDE DEF rest, runs, m
  <2>. QED
    BY <2>1 DEF InOrder
<1>3. /\ pc' = [pc EXCEPT ![s] = pc[s]] /\ todo' = [todo EXCEPT ![s] = rest]
      /\ building' = [building EXCEPT ![s] = runs] /\ UNCHANGED <<pillars, slot>>
      /\ profiler' = IF m = "profiler" THEN [profiler EXCEPT ![s] = "stopping"] ELSE profiler
      /\ IF m = "server" THEN Assembly!StopServer(s) ELSE UNCHANGED <<port, serve>>
  BY Before DEF Assembly!RunCloser
<1>4. "server" \in runs => "meter" \in runs
  BY <1>1, <1>2
<1>5. \A x : x \in runs <=> x \in building[s] /\ x # m
  OBVIOUS
<1>. HIDE DEF m, runs, rest
<1>6. Built(pillars[s], pc[s], runs, rest) /\ runs \in SUBSET Closers
  BY <1>1, <1>2, <1>4, <1>5, Before DEF Built
<1>7. /\ pillars' \in [Sdks -> Pillars] /\ pc' \in [Sdks -> Labels]
      /\ building' \in [Sdks -> SUBSET Closers] /\ todo' \in [Sdks -> Seq(Closers)]
      /\ \A t \in Sdks : Built(pillars'[t], pc'[t], building'[t], todo'[t])
      /\ building'[s] = runs /\ \A t \in Sdks : t # s => building'[t] = building[t]
  BY <1>2, <1>3, <1>6, Before, OneInstance
<1>8. serve \in [Sdks -> {"none", "spawned", "serving", "late", "done"}]
      /\ profiler \in [Sdks -> {"none", "running", "stopping", "stopped"}]
  BY DEF LifeInv, LifeType
<1>9. Scrapes' /\ serve' \in [Sdks -> {"none", "spawned", "serving", "late", "done"}]
  <2>1. CASE m = "server"
    <3>1. serve[s] \in {"spawned", "serving"} /\ port = s
      BY <1>2, <2>1 DEF LifeInv, Scrapes
    <3>2. /\ \A t \in Sdks : t # s => serve'[t] = serve[t]
          /\ serve' \in [Sdks -> {"none", "spawned", "serving", "late", "done"}]
          /\ serve'[s] = IF serve[s] = "serving" THEN "done" ELSE "late"
          /\ port' = IF serve[s] = "serving" THEN Assembly!Nobody ELSE port
      BY <1>3, <1>8, <2>1 DEF Assembly!StopServer
    <3>3. \A t \in Sdks : t # s => serve[t] \notin {"spawned", "serving", "late"} /\ port' # t
      BY <3>1, <3>2, SdksAssumption DEF LifeInv, Scrapes
    <3>4. "server" \notin building'[s]
      BY <1>5, <1>7, <2>1
    <3>5. serve'[s] \in {"spawned", "serving", "late"} <=> port' = s
      BY <3>1, <3>2, SdksAssumption
    <3>. QED
      BY <1>7, <3>2, <3>3, <3>4, <3>5 DEF LifeInv, Scrapes
  <2>2. CASE m # "server"
    <3>1. UNCHANGED <<port, serve>>
      BY <1>3, <2>2
    <3>. QED
      BY <1>5, <1>7, <1>8, <2>2, <3>1 DEF LifeInv, Scrapes
  <2>. QED
    BY <2>1, <2>2
<1>10. Slot' /\ profiler' \in [Sdks -> {"none", "running", "stopping", "stopped"}]
  <2>1. CASE m = "profiler"
    <3>1. profiler[s] = "running"
      BY <1>2, <2>1 DEF LifeInv, Slot
    <3>2. /\ \A t \in Sdks : t # s => profiler'[t] = profiler[t]
          /\ profiler'[s] = "stopping" /\ slot' = slot
          /\ profiler' \in [Sdks -> {"none", "running", "stopping", "stopped"}]
      BY <1>3, <1>8, <2>1
    <3>3. \A t \in Sdks : profiler'[t] # "none" <=> profiler[t] # "none"
      BY <3>1, <3>2
    <3>4. Assembly!OneProfiler'
      BY <3>2, <3>3 DEF LifeInv, Slot, Assembly!OneProfiler, Assembly!Holds
    <3>5. \A t \in Sdks : "profiler" \in building'[t] <=> profiler'[t] = "running"
      BY <1>5, <1>7, <2>1, <3>2 DEF LifeInv, Slot
    <3>. QED
      BY <3>2, <3>4, <3>5 DEF Slot
  <2>2. CASE m # "profiler"
    <3>1. UNCHANGED <<profiler, slot>>
      BY <1>3, <2>2
    <3>. QED
      BY <1>5, <1>7, <1>8, <2>2, <3>1 DEF LifeInv, Slot, Assembly!OneProfiler, Assembly!Holds
  <2>. QED
    BY <2>1, <2>2
<1>. QED
  BY <1>7, <1>9, <1>10 DEF LifeInv, LifeType

\* The goroutines of the server and of the profiler.
LEMMA BackgroundStep == ASSUME LifeInv, NEW s \in Sdks, Assembly!Background(s) PROVE LifeInv'
<1>1. serve \in [Sdks -> {"none", "spawned", "serving", "late", "done"}]
      /\ profiler \in [Sdks -> {"none", "running", "stopping", "stopped"}]
  BY DEF LifeInv, LifeType
<1>2. CASE Assembly!ServeStarts(s)
  <2>1. UNCHANGED <<pillars, pc, building, todo, slot, profiler>>
    BY <1>2 DEF Assembly!ServeStarts
  <2>2. serve' \in [Sdks -> {"none", "spawned", "serving", "late", "done"}]
        /\ \A t \in Sdks : t # s => serve'[t] = serve[t]
    BY <1>1, <1>2 DEF Assembly!ServeStarts
  <2>3. \/ serve[s] = "spawned" /\ serve'[s] = "serving" /\ port' = port
        \/ serve[s] = "late" /\ serve'[s] = "done" /\ port' = Assembly!Nobody
    BY <1>1, <1>2 DEF Assembly!ServeStarts
  <2>4. port = s
    BY <2>3 DEF LifeInv, Scrapes
  <2>5. Scrapes'
    BY <2>1, <2>2, <2>3, <2>4, SdksAssumption DEF LifeInv, Scrapes
  <2>. QED
    BY <2>1, <2>2, <2>5 DEF LifeInv, LifeType, Slot, Assembly!OneProfiler, Assembly!Holds
<1>3. CASE Assembly!StopReturns(s)
  <2>1. UNCHANGED <<pillars, pc, building, todo, port, serve, slot>>
    BY <1>3 DEF Assembly!StopReturns
  <2>2. /\ profiler' \in [Sdks -> {"none", "running", "stopping", "stopped"}]
        /\ \A t \in Sdks : t # s => profiler'[t] = profiler[t]
        /\ profiler[s] = "stopping" /\ profiler'[s] = "stopped"
    BY <1>1, <1>3 DEF Assembly!StopReturns
  <2>3. \A t \in Sdks : (profiler'[t] # "none" <=> profiler[t] # "none")
                        /\ (profiler'[t] = "running" <=> profiler[t] = "running")
    BY <2>2
  <2>4. Slot'
    BY <2>1, <2>3 DEF LifeInv, Slot, Assembly!OneProfiler, Assembly!Holds
  <2>. QED
    BY <2>1, <2>2, <2>4 DEF LifeInv, LifeType, Scrapes
<1>4. CASE Assembly!ReleaseSlot(s)
  <2>1. UNCHANGED <<pillars, pc, building, todo, port, serve>> /\ ~slot'
    BY <1>4 DEF Assembly!ReleaseSlot
  <2>2. /\ profiler' \in [Sdks -> {"none", "running", "stopping", "stopped"}]
        /\ \A t \in Sdks : t # s => profiler'[t] = profiler[t]
        /\ profiler[s] = "stopped" /\ profiler'[s] = "none"
    BY <1>1, <1>4 DEF Assembly!ReleaseSlot
  <2>3. \A t \in Sdks : profiler'[t] = "none"
    BY <2>2 DEF LifeInv, Slot, Assembly!OneProfiler, Assembly!Holds
  <2>4. \A t \in Sdks : "profiler" \notin building[t]
    BY <2>2 DEF LifeInv, Slot, Assembly!OneProfiler, Assembly!Holds
  <2>5. Slot'
    BY <2>1, <2>3, <2>4 DEF Slot, Assembly!OneProfiler, Assembly!Holds
  <2>. QED
    BY <2>1, <2>2, <2>5 DEF LifeInv, LifeType, Scrapes
<1>. QED
  BY <1>2, <1>3, <1>4 DEF Assembly!Background

\* Every step of the process keeps the invariant.
LEMMA LifeNext == LifeInv /\ [Assembly!Next]_Assembly!vars => LifeInv'
<1>. SUFFICES ASSUME LifeInv, [Assembly!Next]_Assembly!vars PROVE LifeInv'
  OBVIOUS
<1>1. ASSUME NEW s \in Sdks, Assembly!InitStep(s) PROVE LifeInv'
  BY <1>1, ValidateStep, TracerStep, MeterStep, RuntimeStep, ListenStep, RegisterStep, LoggerStep,
     ProfilerStep DEF Assembly!InitStep
<1>2. ASSUME NEW s \in Sdks, Assembly!CloseStep(s) PROVE LifeInv'
  BY <1>2, CloserStep, ClosedStep DEF Assembly!CloseStep
<1>3. CASE UNCHANGED Assembly!vars
  BY <1>3 DEF Assembly!vars, LifeInv, LifeType, Scrapes, Slot, Assembly!OneProfiler, Assembly!Holds
<1>. QED
  BY <1>1, <1>2, <1>3, BeginStep, BackgroundStep DEF Assembly!Next, Assembly!Terminated

\* However many Init calls race for the address and the profiler's slot, and at
\* whatever step each fails: when Init has returned its error, or Shutdown has
\* returned, nothing that was built runs; no two instances run a profiler and the
\* slot says whether one does; a server that accepts scrapes has its meter provider.
THEOREM UnwindTheorem == Assembly!Spec => []InitUnwinds
<1>1. LifeInv => InitUnwinds
  <2>. SUFFICES ASSUME LifeInv PROVE InitUnwinds
    OBVIOUS
  <2>1. Assembly!NothingLeaks
    BY DEF LifeInv, Built, Assembly!NothingLeaks, Assembly!Gone
  <2>2. Assembly!OneProfiler
    BY DEF LifeInv, Slot
  <2>3. Assembly!NoScrapeAfterMeter
    <3>. SUFFICES ASSUME NEW s \in Sdks, serve[s] = "serving"
                 PROVE  port = s /\ "meter" \in building[s]
      BY DEF Assembly!NoScrapeAfterMeter
    <3>1. port = s /\ "server" \in building[s]
      BY DEF LifeInv, Scrapes
    <3>2. "meter" \in building[s]
      BY <3>1, Before DEF Built, Labels, Traces, Metered, Scraped, Logs, Assembly!Pull
    <3>. QED
      BY <3>1, <3>2
  <2>. QED
    BY <2>1, <2>2, <2>3 DEF InitUnwinds
<1>. QED
  BY <1>1, LifeInit, LifeNext, PTL DEF Assembly!Spec
=============================================================================
