---------------------------- MODULE SignalsProofs ----------------------------
(***************************************************************************)
(* Proofs about MCSignals, part by part: the suppressor, for any number of *)
(* reporters and messages, any window and any bound, then baggage, gin and *)
(* the records of derived loggers.                                         *)
(* The suppressor's invariant adds to the properties that the table never  *)
(* disagrees with what was logged (Faithful), and that a message still in  *)
(* its window has left the table only for MaxTracked younger ones          *)
(* (Displaced).                                                            *)
(***************************************************************************)
EXTENDS MCSignals, FiniteSetTheorems, FunctionTheorems, SequenceTheorems, NaturalsInduction,
        WellFoundedInduction, TLAPS

\* The table holds the time of the last record of each message it tracks.
Faithful == \A m \in Tracked : lastSeen[m] = lastLog[m]

Inv == TypeOK /\ TableBounded /\ Faithful /\ SuppressedOnlyAfterRecord

\* The bound is at least one.
LEMMA MaxTrackedPositive == MaxTracked \in Nat /\ MaxTracked >= 1
BY SuppressorAssumption DEF MaxTracked

\* After the eviction there is room for one more.
LEMMA SurvivorsLeaveRoom ==
  ASSUME TypeOK, TableBounded, NEW t \in Nat, NEW S \in Survivors(Unexpired(t))
  PROVE  /\ S \subseteq Tracked /\ IsFiniteSet(S)
         /\ Cardinality(S) \in Nat /\ Cardinality(S) + 1 <= MaxTracked
<1> DEFINE U == Unexpired(t)
<1>1. U \subseteq Tracked /\ IsFiniteSet(Tracked)
  BY SuppressorAssumption, FS_Subset DEF Unexpired, TypeOK
<1>2. IsFiniteSet(U) /\ Cardinality(U) <= Cardinality(Tracked)
  BY <1>1, FS_Subset
<1>3. Cardinality(U) \in Nat /\ Cardinality(Tracked) \in Nat
  BY <1>1, <1>2, FS_CardinalityType
<1>4. CASE Cardinality(U) >= MaxTracked
  <2>1. PICK m \in Oldest(U) : S = U \ {m}
    BY <1>4 DEF Survivors
  <2>2. m \in U
    BY DEF Oldest
  <2>3. IsFiniteSet(S) /\ Cardinality(S) = Cardinality(U) - 1
    BY <1>2, <2>1, <2>2, FS_RemoveElement
  <2>4. Cardinality(S) \in Nat
    BY <2>3, FS_CardinalityType
  <2> QED
    BY <1>1, <1>2, <1>3, <2>1, <2>3, <2>4, MaxTrackedPositive DEF TableBounded
<1>5. CASE ~(Cardinality(U) >= MaxTracked)
  <2>1. S = U
    BY <1>5 DEF Survivors
  <2> QED
    BY <1>1, <1>2, <1>3, <1>5, <2>1, MaxTrackedPositive
<1> QED
  BY <1>4, <1>5

\* Every initial state satisfies the invariant.
LEMMA InitInv == Init => Inv
<1> SUFFICES ASSUME Init PROVE Inv
  OBVIOUS
<1>1. Tracked = {}
  BY DEF Init, Tracked
<1>2. TypeOK
  BY <1>1 DEF Init, TypeOK
<1>3. TableBounded
  BY <1>1, FS_EmptySet, MaxTrackedPositive DEF TableBounded
<1>4. Faithful /\ SuppressedOnlyAfterRecord
  BY <1>1 DEF Init, Faithful, SuppressedOnlyAfterRecord
<1> QED
  BY <1>2, <1>3, <1>4 DEF Inv

\* Every step keeps the invariant.
LEMMA StepInv == Inv /\ [Next]_vars => Inv'
<1> SUFFICES ASSUME Inv, [Next]_vars PROVE Inv'
  OBVIOUS
<1> USE DEF Inv
<1>1. ASSUME NEW r \in Reporters, NEW m \in Messages, Report(r, m) PROVE Inv'
  <2>1. /\ lastSeen' = lastSeen /\ lastLog' = lastLog /\ decision' = decision /\ now' = now
        /\ latest' = latest
    BY <1>1 DEF Report
  <2>2. \A q \in Reporters : report'[q] = Idle \/ report'[q] \in Messages \X Nat
    BY <1>1 DEF Report, TypeOK
  <2> QED
    BY <2>1, <2>2 DEF TypeOK, Tracked, TableBounded, Faithful, SuppressedOnlyAfterRecord,
                      InWindow
<1>2. ASSUME NEW r \in Reporters, Suppress(r) PROVE Inv'
  <2>1. PICK m, t : /\ m = report[r][1] /\ t = report[r][2]
                    /\ m \in Tracked /\ Recent(m, t) /\ Decide(m, t, TRUE)
    BY <1>2 DEF Suppress
  <2>2. m \in Messages /\ t \in Nat
    BY <1>2, <2>1 DEF Suppress, TypeOK
  <2>3. lastSeen' = lastSeen /\ lastLog' = lastLog /\ now' = now
    BY <1>2 DEF Suppress
  <2>4. \A q \in Reporters : report'[q] = Idle \/ report'[q] \in Messages \X Nat
    BY <1>2 DEF Suppress, TypeOK
  <2>5. lastLog[m] = lastSeen[m] /\ lastSeen[m] \in Nat
    BY <2>1 DEF Faithful, TypeOK
  <2>6. decision' = [msg |-> m, at |-> t, suppressed |-> TRUE, prev |-> lastLog[m]]
    BY <2>1 DEF Decide
  <2>7. InWindow'
    BY <2>1, <2>2, <2>5, <2>6 DEF InWindow, Recent, Never
  <2>8. decision' \in [msg : Messages, at : Nat, suppressed : BOOLEAN, prev : Nat \cup {Never}]
    BY <2>2, <2>5, <2>6
  <2>9. latest' \in Nat \cup {Never}
    BY <2>1, <2>2 DEF Decide
  <2> QED
    BY <2>3, <2>4, <2>7, <2>8, <2>9 DEF TypeOK, Tracked, TableBounded, Faithful,
                                  SuppressedOnlyAfterRecord
<1>3. ASSUME NEW r \in Reporters, LetThrough(r) PROVE Inv'
  <2>1. PICK m, t : /\ m = report[r][1] /\ t = report[r][2]
                    /\ \E S \in Survivors(Unexpired(t)) :
                         lastSeen' = [x \in S \cup {m} |-> IF x = m THEN t ELSE lastSeen[x]]
                    /\ lastLog' = [lastLog EXCEPT ![m] = t]
                    /\ Decide(m, t, FALSE)
    BY <1>3 DEF LetThrough
  <2>2. m \in Messages /\ t \in Nat
    BY <1>3, <2>1 DEF LetThrough, TypeOK
  <2>3. PICK S \in Survivors(Unexpired(t)) :
          lastSeen' = [x \in S \cup {m} |-> IF x = m THEN t ELSE lastSeen[x]]
    BY <2>1
  <2>4. /\ S \subseteq Tracked /\ IsFiniteSet(S)
        /\ Cardinality(S) \in Nat /\ Cardinality(S) + 1 <= MaxTracked
    BY <2>2, <2>3, SurvivorsLeaveRoom
  <2>5. Tracked' = S \cup {m}
    BY <2>3 DEF Tracked
  <2>6. TableBounded'
    <3>1. Cardinality(S \cup {m}) <= Cardinality(S) + 1
      BY <2>4, FS_AddElement, SMTT(60)
    <3>2. Cardinality(S \cup {m}) \in Nat
      BY <2>4, FS_AddElement, FS_CardinalityType
    <3> QED
      BY <2>4, <2>5, <3>1, <3>2, MaxTrackedPositive DEF TableBounded, MaxTracked
  <2>7. Faithful'
    BY <2>1, <2>2, <2>3, <2>4, <2>5 DEF Faithful, TypeOK
  <2>8. decision' = [msg |-> m, at |-> t, suppressed |-> FALSE, prev |-> lastLog[m]]
    BY <2>1 DEF Decide
  <2>9. SuppressedOnlyAfterRecord'
    BY <2>8 DEF SuppressedOnlyAfterRecord
  <2>10. TypeOK'
    <3>1. \A q \in Reporters : report'[q] = Idle \/ report'[q] \in Messages \X Nat
      BY <1>3 DEF LetThrough, TypeOK
    <3>2. lastSeen' \in [Tracked' -> Nat] /\ Tracked' \subseteq Messages
      BY <2>2, <2>3, <2>4, <2>5 DEF TypeOK
    <3>3. lastLog' \in [Messages -> Nat \cup {Never}]
      BY <2>1, <2>2 DEF TypeOK
    <3>4. decision' \in [msg : Messages, at : Nat, suppressed : BOOLEAN,
                         prev : Nat \cup {Never}]
      BY <2>2, <2>8 DEF TypeOK
    <3>5. now' \in Nat
      BY <1>3 DEF LetThrough, TypeOK
    <3>6. latest' \in Nat \cup {Never}
      BY <2>1, <2>2 DEF Decide
    <3> QED
      BY <3>1, <3>2, <3>3, <3>4, <3>5, <3>6 DEF TypeOK
  <2> QED
    BY <2>6, <2>7, <2>9, <2>10
<1>4. CASE Tick
  <2>1. now' \in Nat
    BY <1>4 DEF Tick, TypeOK
  <2> QED
    BY <1>4, <2>1 DEF Tick, TypeOK, Tracked, TableBounded, Faithful,
                      SuppressedOnlyAfterRecord, InWindow
<1>5. CASE UNCHANGED vars
  BY <1>5 DEF vars, TypeOK, Tracked, TableBounded, Faithful, SuppressedOnlyAfterRecord, InWindow
<1> QED
  BY <1>1, <1>2, <1>3, <1>4, <1>5 DEF Next

\* The table never holds more than NewSuppressor's bound, whatever is reported.
THEOREM Bounded == Spec => []TableBounded
<1>1. Inv => TableBounded
  BY DEF Inv
<1> QED
  BY <1>1, InitInv, StepInv, PTL DEF Spec

\* SuppressedAt hides a message only inside the window of its last record.
THEOREM NeverSilenced == Spec => []SuppressedOnlyAfterRecord
<1>1. Inv => SuppressedOnlyAfterRecord
  BY DEF Inv
<1> QED
  BY <1>1, InitInv, StepInv, PTL DEF Spec

\* The table is bounded and silences nothing for longer than a window.
THEOREM SafeTheorem == Spec => []SuppressesSafely
  BY Bounded, NeverSilenced, PTL DEF SuppressesSafely

-----------------------------------------------------------------------------
(***************************************************************************)
(* Repeats inside the window.                                              *)
(***************************************************************************)

\* The other messages logged no earlier than m was.
Younger(m) == {x \in Messages \ {m} : lastLog[x] >= lastLog[m]}

\* While readings come in order nothing was logged after the last of them, and
\* a message the table has dropped inside its window has made room for others.
Displaced ==
  latest # Never =>
    /\ \A m \in Messages : lastLog[m] <= latest
    /\ \A m \in Messages \ Tracked :
         lastLog[m] # Never /\ latest - lastLog[m] < Window =>
           Cardinality(Younger(m)) >= MaxTracked

FullInv == Inv /\ Displaced /\ EarlyRepeatOnlyWhenFull

\* Sets of messages are finite, and a larger one has at least as many members.
LEMMA MessageSets ==
  ASSUME NEW S, NEW T, S \subseteq T, T \subseteq Messages
  PROVE  /\ IsFiniteSet(S) /\ IsFiniteSet(T)
         /\ Cardinality(S) \in Nat /\ Cardinality(T) \in Nat /\ Cardinality(S) <= Cardinality(T)
<1>1. IsFiniteSet(T)
  BY SuppressorAssumption, FS_Subset
<1>2. IsFiniteSet(S) /\ Cardinality(S) <= Cardinality(T)
  BY <1>1, FS_Subset
<1>. QED
  BY <1>1, <1>2, FS_CardinalityType

\* The entry that makes room leaves MaxTracked younger messages behind, the one
\* being recorded among them.
LEMMA EvictedForYounger ==
  ASSUME Inv, NEW t \in Nat, NEW m \in Messages, ~(m \in Tracked /\ Recent(m, t)),
         NEW S \in Survivors(Unexpired(t)), NEW x \in Unexpired(t) \ S
  PROVE  /\ \A y \in Unexpired(t) : lastLog[x] <= lastLog[y]
         /\ Cardinality((Unexpired(t) \ {x}) \cup {m}) >= MaxTracked
<1>. DEFINE U == Unexpired(t)
<1>1. U \subseteq Messages /\ m \notin U /\ x \in U /\ U \subseteq Tracked
  BY DEF Unexpired, Inv, TypeOK
<1>2. IsFiniteSet(U) /\ Cardinality(U) \in Nat
  BY <1>1, MessageSets
<1>3. PICK o \in Oldest(U) : S = U \ {o} /\ Cardinality(U) >= MaxTracked
  BY DEF Survivors
<1>4. x = o
  BY <1>1, <1>3
<1>5. \A y \in U : lastLog[x] <= lastLog[y]
  BY <1>1, <1>3, <1>4 DEF Oldest, Inv, Faithful
<1>6. IsFiniteSet(U \ {x}) /\ Cardinality(U \ {x}) = Cardinality(U) - 1
  BY <1>1, <1>2, FS_RemoveElement
<1>7. Cardinality((U \ {x}) \cup {m}) = Cardinality(U \ {x}) + 1
  BY <1>1, <1>6, FS_AddElement
<1>. QED
  BY <1>2, <1>3, <1>5, <1>6, <1>7, MaxTrackedPositive

\* Steps that decide nothing.
LEMMA FullUndecided ==
  ASSUME FullInv, UNCHANGED <<lastSeen, lastLog, decision, latest>>
  PROVE  Displaced' /\ EarlyRepeatOnlyWhenFull'
<1>1. /\ lastSeen' = lastSeen /\ lastLog' = lastLog /\ decision' = decision /\ latest' = latest
      /\ Tracked' = Tracked
  BY DEF Tracked
<1>2. \A m : Younger(m)' = Younger(m)
  BY <1>1 DEF Younger
<1>. QED
  BY <1>1, <1>2 DEF FullInv, Displaced, EarlyRepeatOnlyWhenFull, InWindow, MaxTracked

\* A decision in order is no earlier than the last one.
LEMMA InOrder ==
  ASSUME TypeOK, NEW t \in Nat, NEW m, NEW b, Decide(m, t, b), latest' # Never
  PROVE  latest # Never /\ latest \in Nat /\ latest <= t /\ latest' = t
  BY DEF Decide, TypeOK, Never

\* A message is suppressed: the table stays, readings move on.
LEMMA FullSuppress ==
  ASSUME FullInv, NEW r \in Reporters, Suppress(r)
  PROVE  Displaced' /\ EarlyRepeatOnlyWhenFull'
<1>1. PICK m, t : m = report[r][1] /\ t = report[r][2] /\ Decide(m, t, TRUE)
  BY DEF Suppress
<1>2. m \in Messages /\ t \in Nat
  BY <1>1 DEF Suppress, FullInv, Inv, TypeOK
<1>3. /\ lastSeen' = lastSeen /\ lastLog' = lastLog /\ Tracked' = Tracked
      /\ decision'.suppressed
  BY <1>1 DEF Suppress, Tracked, Decide
<1>4. \A x : Younger(x)' = Younger(x)
  BY <1>3 DEF Younger
<1>5. Displaced'
  <2>. SUFFICES ASSUME latest' # Never PROVE Displaced'
    BY DEF Displaced
  <2>1. latest # Never /\ latest \in Nat /\ latest <= t /\ latest' = t
    BY <1>1, <1>2, InOrder DEF FullInv, Inv
  <2>2. \A x \in Messages : lastLog[x] \in Int /\ lastLog[x] <= latest
    BY <2>1 DEF FullInv, Displaced, Inv, TypeOK, Never
  <2>3. \A x \in Messages \ Tracked :
          lastLog[x] # Never /\ latest - lastLog[x] < Window => Cardinality(Younger(x)) >= MaxTracked
    BY <2>1 DEF FullInv, Displaced
  <2>4. \A x \in Messages : t - lastLog[x] < Window => latest - lastLog[x] < Window
    BY <1>2, <2>1, <2>2, SuppressorAssumption
  <2>. QED
    BY <1>2, <1>3, <1>4, <2>1, <2>2, <2>3, <2>4 DEF Displaced, MaxTracked
<1>. QED
  BY <1>3, <1>5 DEF EarlyRepeatOnlyWhenFull

\* A message is let through: what the eviction drops, and what it repeats, has
\* MaxTracked younger ones.
LEMMA FullLetThrough ==
  ASSUME FullInv, NEW r \in Reporters, LetThrough(r)
  PROVE  Displaced' /\ EarlyRepeatOnlyWhenFull'
<1>1. PICK m, t : /\ m = report[r][1] /\ t = report[r][2]
                  /\ ~(m \in Tracked /\ Recent(m, t))
                  /\ \E S \in Survivors(Unexpired(t)) :
                       lastSeen' = [x \in S \cup {m} |-> IF x = m THEN t ELSE lastSeen[x]]
                  /\ lastLog' = [lastLog EXCEPT ![m] = t]
                  /\ Decide(m, t, FALSE)
  BY DEF LetThrough
<1>2. m \in Messages /\ t \in Nat
  BY <1>1 DEF LetThrough, FullInv, Inv, TypeOK
<1>3. PICK S \in Survivors(Unexpired(t)) :
        lastSeen' = [x \in S \cup {m} |-> IF x = m THEN t ELSE lastSeen[x]]
  BY <1>1
<1>4. Tracked' = S \cup {m}
  BY <1>3 DEF Tracked
<1>5. /\ lastLog \in [Messages -> Nat \cup {Never}] /\ lastLog'[m] = t
      /\ \A x \in Messages \ {m} : lastLog'[x] = lastLog[x]
  BY <1>1, <1>2 DEF FullInv, Inv, TypeOK
<1>. SUFFICES ASSUME latest' # Never PROVE Displaced' /\ EarlyRepeatOnlyWhenFull'
  BY DEF Displaced, EarlyRepeatOnlyWhenFull
<1>6. latest # Never /\ latest \in Nat /\ latest <= t /\ latest' = t
  BY <1>1, <1>2, InOrder DEF FullInv, Inv
<1>7. \A x \in Messages : lastLog[x] \in Int /\ lastLog[x] <= t
  BY <1>2, <1>5, <1>6 DEF FullInv, Displaced, Never
<1>8. \A x \in Messages \ Tracked :
        lastLog[x] # Never /\ t - lastLog[x] < Window => Cardinality(Younger(x)) >= MaxTracked
  <2>. SUFFICES ASSUME NEW x \in Messages \ Tracked, lastLog[x] # Never, t - lastLog[x] < Window
                PROVE  Cardinality(Younger(x)) >= MaxTracked
    OBVIOUS
  <2>1. latest - lastLog[x] < Window
    BY <1>2, <1>6, <1>7, SuppressorAssumption
  <2>. QED
    BY <1>6, <2>1 DEF FullInv, Displaced
<1>9. ASSUME NEW x \in Messages \ (S \cup {m}), lastLog[x] # Never, t - lastLog[x] < Window
      PROVE  Cardinality(Younger(x)') >= MaxTracked
  <2>1. Younger(x)' \subseteq Messages
    BY DEF Younger
  <2>2. m \in Younger(x)' /\ lastLog'[x] = lastLog[x]
    BY <1>2, <1>5, <1>7, <1>9 DEF Younger
  <2>3. CASE x \notin Tracked
    <3>1. Younger(x) \subseteq Younger(x)'
      <4>. SUFFICES ASSUME NEW y \in Younger(x), y # m PROVE y \in Younger(x)'
        BY <2>2
      <4>. QED
        BY <1>5, <2>2 DEF Younger
    <3>2. Cardinality(Younger(x)) >= MaxTracked
      BY <1>8, <1>9, <2>3
    <3>. QED
      BY <2>1, <3>1, <3>2, MessageSets, MaxTrackedPositive
  <2>4. CASE x \in Tracked
    <3>. DEFINE Y == (Unexpired(t) \ {x}) \cup {m}
    <3>1. x \in Unexpired(t) \ S
      BY <1>9, <2>4, SMTT(60) DEF Unexpired, Recent, FullInv, Inv, Faithful
    <3>2. (\A y \in Unexpired(t) : lastLog[x] <= lastLog[y]) /\ Cardinality(Y) >= MaxTracked
      BY <1>1, <1>2, <1>3, <3>1, EvictedForYounger, SMTT(60) DEF FullInv
    <3>3. \A y \in Unexpired(t) : y \in Messages /\ y # m
      BY <1>1 DEF Unexpired, FullInv, Inv, TypeOK
    <3>4. Y \subseteq Younger(x)'
      <4>. SUFFICES ASSUME NEW y \in Unexpired(t) \ {x} PROVE y \in Younger(x)'
        BY <2>2
      <4>1. y \in Messages \ {x} /\ lastLog'[y] = lastLog[y] /\ lastLog[y] >= lastLog[x]
        BY <1>5, <1>7, <1>9, <3>2, <3>3
      <4>. QED
        BY <2>2, <4>1 DEF Younger
    <3>. HIDE DEF Y
    <3>. QED
      BY <2>1, <3>2, <3>4, MessageSets, MaxTrackedPositive
  <2>. QED
    BY <2>3, <2>4
<1>10. Displaced'
  <2>1. \A x \in Messages : lastLog'[x] <= t
    BY <1>2, <1>5, <1>7
  <2>2. \A x \in Messages \ (S \cup {m}) : lastLog'[x] = lastLog[x]
    BY <1>5
  <2>. QED
    BY <1>4, <1>6, <1>9, <2>1, <2>2 DEF Displaced, MaxTracked
<1>11. EarlyRepeatOnlyWhenFull'
  <2>1. decision' = [msg |-> m, at |-> t, suppressed |-> FALSE, prev |-> lastLog[m]]
    BY <1>1 DEF Decide
  <2>2. decision'.msg = m /\ decision'.at = t /\ decision'.prev = lastLog[m]
    BY <2>1
  <2>. SUFFICES ASSUME lastLog[m] # Never, t - lastLog[m] < Window
                PROVE  Cardinality({x \in Messages \ {m} : lastLog'[x] >= lastLog[m]}) >= MaxTracked
    BY <2>2 DEF EarlyRepeatOnlyWhenFull, InWindow, MaxTracked
  <2>3. m \notin Tracked
    BY <1>1 DEF Recent, FullInv, Inv, Faithful
  <2>4. {x \in Messages \ {m} : lastLog'[x] >= lastLog[m]} = Younger(m)
    BY <1>5 DEF Younger
  <2>. QED
    BY <1>2, <1>8, <2>3, <2>4
<1>. QED
  BY <1>10, <1>11

\* While clock readings reach the table in order, a message is logged twice inside
\* one window only when the bounded table could not have held it: for any number
\* of reporters and messages, any window and any bound.
THEOREM FullTheorem == Spec => []EarlyRepeatOnlyWhenFull
<1>1. Init => FullInv
  <2>. SUFFICES ASSUME Init PROVE Displaced /\ EarlyRepeatOnlyWhenFull
    BY InitInv DEF FullInv
  <2>1. latest = 0 /\ decision = Idle /\ \A m \in Messages : lastLog[m] = Never
    BY DEF Init
  <2>. QED
    BY <2>1 DEF Displaced, EarlyRepeatOnlyWhenFull, Never
<1>2. FullInv /\ [Next]_vars => FullInv'
  <2>. SUFFICES ASSUME FullInv, [Next]_vars PROVE Displaced' /\ EarlyRepeatOnlyWhenFull'
    BY StepInv DEF FullInv
  <2>1. ASSUME NEW r \in Reporters, NEW m \in Messages, Report(r, m)
        PROVE  Displaced' /\ EarlyRepeatOnlyWhenFull'
    BY <2>1, FullUndecided DEF Report
  <2>2. CASE Tick \/ UNCHANGED vars
    BY <2>2, FullUndecided DEF Tick, vars
  <2>. QED
    BY <2>1, <2>2, FullSuppress, FullLetThrough DEF Next
<1>3. FullInv => EarlyRepeatOnlyWhenFull
  BY DEF FullInv
<1>. QED
  BY <1>1, <1>2, <1>3, PTL DEF Spec

-----------------------------------------------------------------------------
(***************************************************************************)
(* Baggage.  Every context has a well-formed baggage (Wellformed) that is  *)
(* within the limits or nothing but what came in (Kept).                   *)
(***************************************************************************)

BagKeys == Bag!Keys \cup UNION {DOMAIN bag : bag \in Incoming}

Baggages == UNION {[D -> [raw : Nat, wire : Nat]] : D \in SUBSET BagKeys}

\* The members are finitely many; only an empty value is encoded as nothing.
Wellformed(bag) ==
  /\ bag \in Baggages /\ IsFiniteSet(DOMAIN bag)
  /\ bag \in [DOMAIN bag -> [raw : Nat, wire : Nat]]
  /\ \A k \in DOMAIN bag : bag[k].raw = 0 => bag[k].wire = 0

\* What is sent on from a context is within the limits, or has no more members than came in.
Kept(first, bag) ==
  /\ Bag!Sendable(bag) \/ (~Bag!Sendable(first) /\ \A k \in DOMAIN bag : k \in DOMAIN first)
  /\ "reserved" \in DOMAIN bag => "reserved" \in DOMAIN first

\* What a span and a record took of the context.
Took ==
  bagSpan # <<>> =>
    /\ bagSpan.ctx \in DOMAIN contexts
    /\ bagSpan.log \subseteq DOMAIN contexts[bagSpan.ctx]
    /\ {k \in DOMAIN bagSpan.attrs : bagSpan.attrs[k] = "baggage"} \subseteq bagSpan.log
    /\ bagSpan.log \subseteq DOMAIN bagSpan.attrs \cap whitelist
    /\ \A k \in bagSpan.log : contexts[bagSpan.ctx][k].raw \in 1..MaxBaggageValueBytes

BagInv ==
  /\ contexts \in Seq(Baggages) /\ Len(contexts) > 0
  /\ \A i \in DOMAIN contexts : Wellformed(contexts[i]) /\ Kept(contexts[1], contexts[i])
  /\ from \in DOMAIN contexts
  /\ refused => contexts[Len(contexts)] = contexts[from]
  /\ Took

\* The component's Cardinality is the library's.
LEMMA BagCardinality == ASSUME NEW S PROVE Bag!Cardinality(S) = Cardinality(S)
  BY DEF Bag!Cardinality, Cardinality

\* The bytes of a header are finitely many.
LEMMA BytesFinite ==
  ASSUME NEW bag, Wellformed(bag)
  PROVE  IsFiniteSet(Bag!OnWire(bag)) /\ IsFiniteSet(Bag!Bytes(bag))
<1>. DEFINE W == Bag!OnWire(bag)
           f == [k \in W |-> {k} \X (0..bag[k].wire)]
           S == {{k} \X (0..bag[k].wire) : k \in W}
<1>1. W \subseteq DOMAIN bag
  BY DEF Bag!OnWire
<1>2. IsFiniteSet(W)
  BY <1>1, FS_Subset DEF Wellformed
<1>. HIDE DEF W
<1>3. f \in Surjection(W, S)
  BY DEF Surjection
<1>4. IsFiniteSet(S)
  BY <1>2, <1>3, FS_Surjection
<1>5. ASSUME NEW T \in S PROVE IsFiniteSet(T)
  <2>1. PICK k \in W : T = {k} \X (0..bag[k].wire)
    OBVIOUS
  <2>2. bag[k].wire \in Nat
    BY <1>1 DEF Wellformed
  <2>3. PICK n \in Nat : n = bag[k].wire
    BY <2>2
  <2>4. IsFiniteSet(0..n)
    BY 0 \in Int, n \in Int, FS_Interval
  <2>5. IsFiniteSet({k})
    BY FS_Singleton, Zenon
  <2>6. T = {k} \X (0..n)
    BY <2>1, <2>3
  <2>. QED
    BY <2>4, <2>5, <2>6, FS_Product
<1>6. IsFiniteSet(UNION S)
  BY <1>4, <1>5, FS_UNION
<1>. QED
  BY <1>2, <1>6 DEF Bag!Bytes, W

\* Fewer members stay within the limits.
LEMMA FewerMembers ==
  ASSUME NEW bag, Wellformed(bag), NEW K
  PROVE  LET less == [k \in DOMAIN bag \ K |-> bag[k]]
         IN  Wellformed(less) /\ (Bag!Sendable(bag) => Bag!Sendable(less)) /\ DOMAIN less \subseteq DOMAIN bag
<1>. DEFINE less == [k \in DOMAIN bag \ K |-> bag[k]]
<1>1. DOMAIN less = DOMAIN bag \ K /\ \A k \in DOMAIN less : less[k] = bag[k]
  OBVIOUS
<1>2. IsFiniteSet(DOMAIN less)
  BY <1>1, FS_Subset DEF Wellformed
<1>3. PICK D \in SUBSET BagKeys : bag \in [D -> [raw : Nat, wire : Nat]]
  BY DEF Wellformed, Baggages
<1>4. D = DOMAIN bag /\ DOMAIN less \in SUBSET BagKeys
  BY <1>1, <1>3
<1>5. less \in [DOMAIN less -> [raw : Nat, wire : Nat]]
  BY <1>1, <1>3, <1>4
<1>6. less \in Baggages
  BY <1>4, <1>5 DEF Baggages
<1>. HIDE DEF less
<1>7. Wellformed(less)
  BY <1>1, <1>2, <1>5, <1>6 DEF Wellformed
<1>8. Bag!OnWire(less) \subseteq Bag!OnWire(bag)
  BY <1>1 DEF Bag!OnWire
<1>9. Bag!Bytes(less) \subseteq Bag!Bytes(bag)
  BY <1>1, <1>8 DEF Bag!Bytes, Bag!OnWire
<1>10. IsFiniteSet(Bag!OnWire(bag)) /\ IsFiniteSet(Bag!Bytes(bag))
  BY BytesFinite
<1>11. /\ Cardinality(Bag!OnWire(less)) <= Cardinality(Bag!OnWire(bag))
       /\ Cardinality(Bag!Bytes(less)) <= Cardinality(Bag!Bytes(bag))
       /\ IsFiniteSet(Bag!OnWire(less)) /\ IsFiniteSet(Bag!Bytes(less))
  BY <1>8, <1>9, <1>10, FS_Subset
<1>12. /\ Cardinality(Bag!OnWire(less)) \in Nat /\ Cardinality(Bag!OnWire(bag)) \in Nat
       /\ Cardinality(Bag!Bytes(less)) \in Nat /\ Cardinality(Bag!Bytes(bag)) \in Nat
  BY <1>10, <1>11, FS_CardinalityType
<1>13. Bag!Sendable(bag) => Bag!Sendable(less)
  BY <1>11, <1>12, BagCardinality, BaggageAssumption DEF Bag!Sendable, Bag!WireBytes
<1>. QED
  BY <1>1, <1>7, <1>13 DEF less

\* A member that is set.
LEMMA OneMore ==
  ASSUME NEW bag, Wellformed(bag), NEW k \in Bag!Keys, NEW v \in Bag!Values, v.wire > 0
  PROVE  LET more == Bag!SetMember(bag, k, v)
         IN  Wellformed(more) /\ DOMAIN more = DOMAIN bag \cup {k}
<1>. DEFINE more == Bag!SetMember(bag, k, v)
<1>1. v \in [raw : Nat, wire : Nat]
  BY DEF Bag!Values, Bag!Value, Bag!NoValue
<1>2. /\ DOMAIN more = DOMAIN bag \cup {k} /\ more[k] = v
      /\ \A x \in DOMAIN bag \ {k} : more[x] = bag[x]
  BY DEF Bag!SetMember
<1>3. IsFiniteSet(DOMAIN more)
  BY <1>2, FS_AddElement DEF Wellformed
<1>4. PICK D \in SUBSET BagKeys : bag \in [D -> [raw : Nat, wire : Nat]]
  BY DEF Wellformed, Baggages
<1>5. D = DOMAIN bag /\ DOMAIN more \in SUBSET BagKeys
  BY <1>2, <1>4 DEF BagKeys
<1>6. more \in [DOMAIN more -> [raw : Nat, wire : Nat]]
  BY <1>1, <1>2, <1>4, <1>5 DEF Bag!SetMember
<1>7. more \in Baggages
  BY <1>5, <1>6 DEF Baggages
<1>8. \A x \in DOMAIN more : more[x].raw = 0 => more[x].wire = 0
  <2>1. v.raw # 0
    BY DEF Bag!Values, Bag!Value, Bag!NoValue
  <2>. QED
    BY <1>2, <2>1 DEF Wellformed
<1>. QED
  BY <1>2, <1>3, <1>6, <1>7, <1>8 DEF Wellformed

\* A call that sets a member leaves the baggage within the limits, or as it was.
LEMMA SetOrRefused ==
  ASSUME NEW bag, NEW first, Wellformed(bag), Kept(first, bag),
         NEW k \in {"k1", "k2", "user"}, NEW v \in Bag!Values
  PROVE  LET r == Bag!ContextWithValueOf(bag, k, v)
         IN  Wellformed(r.bag) /\ Kept(first, r.bag) /\ (r.err => r.bag = bag)
<1>. DEFINE r == Bag!ContextWithValueOf(bag, k, v)
           more == Bag!SetMember(bag, k, v)
<1>1. CASE r = [bag |-> more, err |-> FALSE] /\ v.wire > 0 /\ Bag!WithinLimits(bag, k, v)
  <2>1. k \in Bag!Keys /\ k # "reserved"
    BY DEF Bag!Keys, Bag!UserNameKey
  <2>2. Wellformed(more) /\ DOMAIN more = DOMAIN bag \cup {k}
    BY <1>1, <2>1, OneMore
  <2>3. Bag!Sendable(more)
    BY <1>1 DEF Bag!WithinLimits, Bag!Sendable
  <2>4. r.bag = more /\ ~r.err
    BY <1>1
  <2>. HIDE DEF r, more
  <2>5. Kept(first, more)
    BY <2>1, <2>2, <2>3 DEF Kept
  <2>. QED
    BY <2>2, <2>4, <2>5 DEF r
<1>2. CASE r.bag = bag
  BY <1>2
<1>3. (r = [bag |-> more, err |-> FALSE] /\ v.wire > 0 /\ Bag!WithinLimits(bag, k, v)) \/ r.bag = bag
  BY DEF Bag!ContextWithValueOf
<1>. QED
  BY <1>1, <1>2, <1>3

\* A context is derived.
LEMMA DeriveStep ==
  ASSUME BagInv, NEW i \in DOMAIN contexts, NEW r, Bag!Derive(i, r),
         Wellformed(r.bag), Kept(contexts[1], r.bag), r.err => r.bag = contexts[i]
  PROVE  BagInv'
<1>1. contexts' = Append(contexts, r.bag) /\ refused' = r.err /\ from' = i /\ UNCHANGED <<whitelist, bagSpan>>
  BY DEF Bag!Derive
<1>2. r.bag \in Baggages /\ contexts \in Seq(Baggages) /\ Len(contexts) \in Nat /\ Len(contexts) > 0
  BY DEF Wellformed, BagInv
<1>3. /\ contexts' \in Seq(Baggages) /\ Len(contexts') = Len(contexts) + 1
      /\ contexts'[Len(contexts')] = r.bag
      /\ \A j \in DOMAIN contexts : contexts'[j] = contexts[j] /\ j \in DOMAIN contexts'
      /\ \A j \in DOMAIN contexts' : j \in DOMAIN contexts \/ j = Len(contexts')
  BY <1>1, <1>2
<1>4. contexts'[1] = contexts[1]
  BY <1>2, <1>3
<1>5. \A j \in DOMAIN contexts' : Wellformed(contexts'[j]) /\ Kept(contexts'[1], contexts'[j])
  BY <1>3, <1>4 DEF BagInv
<1>6. from' \in DOMAIN contexts' /\ (refused' => contexts'[Len(contexts')] = contexts'[from'])
  BY <1>1, <1>3
<1>7. Took'
  BY <1>1, <1>3 DEF BagInv, Took
<1>. QED
  BY <1>2, <1>3, <1>5, <1>6, <1>7, SMTT(60) DEF BagInv, Wellformed, Kept

\* A span starts.
LEMMA StartStep ==
  ASSUME BagInv, NEW i \in DOMAIN contexts, NEW own, Bag!OnStart(i, own)
  PROVE  BagInv'
<1>. DEFINE attrs == Bag!AttributesFromContext(contexts[i])
           a == [k \in own \cup attrs |-> IF k \in own THEN "own" ELSE "baggage"]
<1>1. bagSpan' = [ctx |-> i, log |-> attrs, attrs |-> a] /\ UNCHANGED <<whitelist, contexts, refused, from>>
  BY DEF Bag!OnStart
<1>2. \A k \in attrs : /\ k \in whitelist /\ k \in DOMAIN contexts[i]
                      /\ contexts[i][k] # Bag!NoValue /\ contexts[i][k].raw <= MaxBaggageValueBytes
  BY DEF Bag!AttributesFromContext
<1>3. ASSUME NEW k \in attrs PROVE contexts[i][k].raw \in 1..MaxBaggageValueBytes
  <2>1. PICK v \in [raw : Nat, wire : Nat] : v = contexts[i][k]
    BY <1>2, <1>3 DEF BagInv, Wellformed
  <2>2. v.raw = 0 => v.wire = 0
    BY <1>2, <1>3, <2>1 DEF BagInv, Wellformed
  <2>3. v.raw # 0
    BY <1>2, <1>3, <2>1, <2>2 DEF Bag!NoValue, Bag!Value
  <2>4. v.raw \in Nat /\ v.raw <= MaxBaggageValueBytes
    BY <1>2, <1>3, <2>1
  <2>. QED
    BY <2>1, <2>3, <2>4, BaggageAssumption
<1>. HIDE DEF attrs
<1>4. DOMAIN a = own \cup attrs /\ {k \in DOMAIN a : a[k] = "baggage"} \subseteq attrs
  OBVIOUS
<1>5. bagSpan'.ctx = i /\ bagSpan'.log = attrs /\ bagSpan'.attrs = a
  BY <1>1
<1>. HIDE DEF a
<1>6. Took'
  BY <1>1, <1>2, <1>3, <1>4, <1>5 DEF Took
<1>. QED
  BY <1>1, <1>6 DEF BagInv, Wellformed, Kept

\* The request comes in.
LEMMA BagInit == Bag!Init => BagInv
<1>. SUFFICES ASSUME Bag!Init PROVE BagInv
  OBVIOUS
<1>1. PICK bag \in Incoming : contexts = <<bag>>
  BY DEF Bag!Init
<1>2. DOMAIN bag \in SUBSET BagKeys /\ bag \in [DOMAIN bag -> [raw : Nat, wire : Nat]]
  BY BaggageAssumption DEF BagKeys
<1>3. bag \in Baggages
  BY <1>2 DEF Baggages
<1>4. Wellformed(bag) /\ Kept(bag, bag)
  BY <1>3, BaggageAssumption DEF Wellformed, Kept
<1>5. contexts \in Seq(Baggages) /\ Len(contexts) = 1 /\ DOMAIN contexts = {1} /\ contexts[1] = bag
  BY <1>1, <1>3
<1>6. ~refused /\ from = 1 /\ bagSpan = <<>>
  BY DEF Bag!Init
<1>. QED
  BY <1>4, <1>5, <1>6 DEF BagInv, Took

\* Every call keeps the invariant.
LEMMA BagNext == BagInv /\ [Bag!Next]_Bag!vars => BagInv'
<1>. SUFFICES ASSUME BagInv, [Bag!Next]_Bag!vars PROVE BagInv'
  OBVIOUS
<1>1. \A i \in DOMAIN contexts : Wellformed(contexts[i]) /\ Kept(contexts[1], contexts[i])
  BY DEF BagInv
<1>2. ASSUME NEW i \in DOMAIN contexts, NEW k \in Bag!Keys, NEW v \in Bag!Values, Bag!ContextWithValue(i, k, v)
      PROVE  BagInv'
  <2>1. PICK r : /\ Bag!Derive(i, r)
                 /\ \/ k \in {"k1", "k2", "user"} /\ r = Bag!ContextWithValueOf(contexts[i], k, v)
                    \/ r = [bag |-> contexts[i], err |-> TRUE]
    BY <1>2 DEF Bag!ContextWithValue, Bag!ValidBaggageKey
  <2>2. Wellformed(r.bag) /\ Kept(contexts[1], r.bag) /\ (r.err => r.bag = contexts[i])
    BY <1>1, <2>1, SetOrRefused, SMTT(60)
  <2>. QED
    BY <2>1, <2>2, DeriveStep
<1>3. ASSUME NEW i \in DOMAIN contexts, NEW v \in Bag!Values, Bag!ContextWithUser(i, v) PROVE BagInv'
  <2>1. PICK r : Bag!Derive(i, r) /\ r = Bag!ContextWithValueOf(contexts[i], "user", v)
    BY <1>3 DEF Bag!ContextWithUser, Bag!UserNameKey
  <2>2. Wellformed(r.bag) /\ Kept(contexts[1], r.bag) /\ (r.err => r.bag = contexts[i])
    BY <1>1, <2>1, SetOrRefused
  <2>. QED
    BY <2>1, <2>2, DeriveStep
<1>4. ASSUME NEW i \in DOMAIN contexts, NEW K, Bag!ContextWithoutValues(i, K) PROVE BagInv'
  <2>1. PICK less : less = [k \in DOMAIN contexts[i] \ K |-> contexts[i][k]]
    OBVIOUS
  <2>2. Bag!Derive(i, [bag |-> less, err |-> FALSE])
    BY <1>4, <2>1 DEF Bag!ContextWithoutValues
  <2>3. /\ Wellformed(less) /\ (Bag!Sendable(contexts[i]) => Bag!Sendable(less))
        /\ DOMAIN less \subseteq DOMAIN contexts[i]
    BY <1>1, <2>1, FewerMembers
  <2>4. Kept(contexts[1], less)
    BY <1>1, <2>3 DEF Kept
  <2>. QED
    BY <2>2, <2>3, <2>4, DeriveStep
<1>5. CASE UNCHANGED Bag!vars
  BY <1>5 DEF Bag!vars, BagInv, Wellformed, Kept, Took
<1>. QED
  BY <1>2, <1>3, <1>4, <1>5, StartStep DEF Bag!Next

\* Baggage: what a service sends on keeps the limits of a header or has no more in it
\* than came in, a refused call changes nothing, and what is recorded keeps the whitelist,
\* for any baggage that comes in, any limits and any number of derived contexts.
THEOREM BaggageTheorem == Bag!Spec => []BaggageWithinLimits
<1>1. BagInv => BaggageWithinLimits
  BY DEF BagInv, Kept, Took, BaggageWithinLimits, Bag!BaggageWithinLimits
<1>. QED
  BY <1>1, BagInit, BagNext, PTL DEF Bag!Spec

-----------------------------------------------------------------------------
(***************************************************************************)
(* Gin.  A request has a way: the chains it has entered.  What a chain has *)
(* put in the context is what is there when the request comes back to it   *)
(* (Home), unless the application replaced it; a chain that is still to    *)
(* record has recorded nothing (Quiet).                                    *)
(***************************************************************************)

GinEvents == [type : SUBSET {"any", "bind", "render", "private", "public", "other"}, of : Nat]

GinTypes ==
  /\ kind \in [1..Chains -> {"plain", "filtered", "recorder"}]
  /\ depth \in 1..Chains
  /\ pc \in {"outer", "inner", "handler", "unwind", "leave", "after", "done"}
  /\ ctx \in 0..(Chains + 1)
  /\ saved \in [1..Chains -> 0..(Chains + 1)]
  /\ ginSpan \in [1..Chains -> 0..(Chains + 1)]
  /\ traced \subseteq 1..Chains
  /\ errors \in Seq(Gin!Entries)
  /\ events \in [1..(Chains + 1) -> Seq(GinEvents)]
  /\ status \in [1..Chains -> SUBSET Nat]
  /\ seen \in [1..Chains -> Nat]
  /\ \A c \in 1..Chains : seen[c] <= Len(errors)

\* Events ev are those of the first n of errs, each once and in order.
OneEach(ev, errs, n) ==
  /\ {ev[i].of : i \in DOMAIN ev} = {i \in 1..n : ~errs[i].nil}
  /\ \A i, j \in DOMAIN ev : i < j => ev[i].of < ev[j].of

Typed(ev, errs) == \A i \in DOMAIN ev : ev[i].type = errs[ev[i].of].bits

OfLast(ev, st) == \A i \in st : ev # <<>> /\ i = ev[Len(ev)].of

\* What the property says of chain c.
OwnOK(c) ==
  /\ \/ c \in traced /\ OneEach(events[c], errors, seen[c])
     \/ events[c] = <<>> /\ (c \notin traced \/ kind[c] = "recorder")
  /\ Typed(events[c], errors)
  /\ OfLast(events[c], status[c])

Down == pc \in {"outer", "inner", "handler"}

\* What is in the context behind chain c.
Home(c) == IF c \in traced THEN c ELSE saved[c]

\* Chain c, which the request is in.
WayOK(c) ==
  /\ c \notin traced => kind[c] = "filtered"
  /\ c > 1 => saved[c] \in {Home(c - 1), Chains + 1}

\* Chain c holds its own span, if it has one.
Holds(c) == kind[c] # "recorder" => ginSpan[c] = IF c \in traced THEN c ELSE 0

Quiet(c) == events[c] = <<>> /\ seen[c] = 0 /\ status[c] = {}

\* Where the request is on its way.
PathInv ==
  /\ \A c \in 1..Chains : c < depth => WayOK(c) /\ Holds(c)
  /\ pc # "outer" => WayOK(depth) /\ ctx \in {Home(depth), Chains + 1}
  /\ pc = "outer" /\ depth > 1 => ctx \in {Home(depth - 1), Chains + 1}
  /\ pc \notin {"outer", "inner"} => Holds(depth)
  /\ \A c \in 1..Chains : Down /\ c > depth => c \notin traced
  /\ pc = "outer" => depth \notin traced

\* The chains that have not recorded.
QuietInv ==
  /\ \A c \in 1..Chains : c < depth \/ (Down /\ c > depth) => Quiet(c)
  /\ pc \notin {"unwind", "leave"} => Quiet(depth)
  /\ pc = "unwind" =>
       /\ status[depth] = {}
       /\ IF Gin!SpanToRecord(depth) = depth THEN OneEach(events[depth], errors, seen[depth])
          ELSE events[depth] = <<>>
  /\ pc = "leave" /\ depth \in traced => seen[depth] = Len(errors)

KeysInv ==
  /\ pc # "inner" => keys = {}
  /\ pc = "inner" =>
       /\ keys \subseteq {depth} /\ ctx = Home(depth)
       /\ kind[depth] = "filtered" => (depth \in keys <=> depth \in traced)

GinInv ==
  /\ GinTypes
  /\ \A c \in 1..Chains : OwnOK(c)
  /\ pc # "done" => PathInv /\ QuietInv
  /\ KeysInv

\* An error more leaves the events as they are.
LEMMA ErrorMore ==
  ASSUME NEW ev \in Seq(GinEvents), NEW errs \in Seq(Gin!Entries), NEW e \in Gin!Entries,
         NEW n \in Nat, n <= Len(errs)
  PROVE  /\ OneEach(ev, errs, n) => OneEach(ev, Append(errs, e), n)
         /\ OneEach(ev, errs, n) /\ Typed(ev, errs) => Typed(ev, Append(errs, e))
<1>1. \A i \in 1..n : Append(errs, e)[i] = errs[i]
  BY AppendProperties
<1>2. ASSUME OneEach(ev, errs, n) PROVE OneEach(ev, Append(errs, e), n)
  BY <1>1, <1>2 DEF OneEach
<1>3. ASSUME OneEach(ev, errs, n), NEW i \in DOMAIN ev PROVE ev[i].of \in 1..n
  BY <1>3 DEF OneEach
<1>4. ASSUME OneEach(ev, errs, n), Typed(ev, errs) PROVE Typed(ev, Append(errs, e))
  BY <1>1, <1>3, <1>4 DEF Typed
<1>. QED
  BY <1>2, <1>4

\* ginErrorTypeString has a name for every type.
LEMMA TypeName ==
  ASSUME NEW e \in Gin!Entries
  PROVE  /\ Gin!GinErrorTypeString(e.bits) = e.bits /\ e.nil \in BOOLEAN
         /\ e.bits \in SUBSET {"any", "bind", "render", "private", "public", "other"}
<1>1. e.bits \in {{"any"}, {"bind"}, {"render", "other"}, {"private"}} /\ e.nil \in BOOLEAN
  <2>1. CASE e = Gin!Entry({"any"}, FALSE)
    BY <2>1 DEF Gin!Entry
  <2>2. CASE e = Gin!Entry({"bind"}, FALSE)
    BY <2>2 DEF Gin!Entry
  <2>3. CASE e = Gin!Entry({"render", "other"}, FALSE)
    BY <2>3 DEF Gin!Entry
  <2>4. CASE e = Gin!Entry({"private"}, TRUE)
    BY <2>4 DEF Gin!Entry
  <2>. QED
    BY <2>1, <2>2, <2>3, <2>4 DEF Gin!Entries
<1>2. PICK b : b = e.bits
  OBVIOUS
<1>3. CASE b = {"any"}
  BY <1>1, <1>2, <1>3 DEF Gin!GinErrorTypeString
<1>4. CASE b = {"bind"}
  BY <1>1, <1>2, <1>4 DEF Gin!GinErrorTypeString
<1>5. CASE b = {"render", "other"}
  <2>1. b \cap {"bind", "render", "private", "public"} = {"render"} /\ b # {"any"} /\ b # {"render"}
    BY <1>5
  <2>2. {"render"} \cup {"other"} = b
    BY <1>5
  <2>. QED
    BY <1>1, <1>2, <1>5, <2>1, <2>2 DEF Gin!GinErrorTypeString
<1>6. CASE b = {"private"}
  BY <1>1, <1>2, <1>6 DEF Gin!GinErrorTypeString
<1>. QED
  BY <1>1, <1>2, <1>3, <1>4, <1>5, <1>6
\* The next error is recorded, unless it is nil, with its type.
LEMMA EventMore ==
  ASSUME NEW ev \in Seq(GinEvents), NEW errs \in Seq(Gin!Entries),
         NEW n \in Nat, n + 1 <= Len(errs), OneEach(ev, errs, n), Typed(ev, errs)
  PROVE  LET e == errs[n + 1]
             x == [type |-> Gin!GinErrorTypeString(e.bits), of |-> n + 1]
             next == IF e.nil THEN ev ELSE Append(ev, x)
         IN  next \in Seq(GinEvents) /\ OneEach(next, errs, n + 1) /\ Typed(next, errs)
<1>. DEFINE x == [type |-> Gin!GinErrorTypeString(errs[n + 1].bits), of |-> n + 1]
<1>1. errs[n + 1] \in Gin!Entries /\ n + 1 \in 1..Len(errs)
  OBVIOUS
<1>2. PICK e \in Gin!Entries : e = errs[n + 1]
  BY <1>1
<1>3. /\ Gin!GinErrorTypeString(e.bits) = e.bits /\ e.nil \in BOOLEAN
      /\ e.bits \in SUBSET {"any", "bind", "render", "private", "public", "other"}
  BY TypeName
<1>4. x \in GinEvents /\ x.of = n + 1 /\ x.type = errs[n + 1].bits
  BY <1>2, <1>3 DEF GinEvents
<1>5. \A i \in DOMAIN ev : ev[i].of \in 1..n
  BY DEF OneEach
<1>6. CASE e.nil
  <2>1. {i \in 1..n : ~errs[i].nil} = {i \in 1..(n + 1) : ~errs[i].nil}
    BY <1>2, <1>6
  <2>2. OneEach(ev, errs, n + 1)
    BY <2>1, SMTT(60) DEF OneEach
  <2>. QED
    BY <1>2, <1>6, <2>2
<1>7. CASE ~e.nil
  <2>. HIDE DEF x
  <2>1. PICK next \in Seq(GinEvents) : next = Append(ev, x)
    BY <1>4, AppendProperties
  <2>2. /\ Len(ev) \in Nat /\ DOMAIN ev = 1..Len(ev)
        /\ DOMAIN next = DOMAIN ev \cup {Len(ev) + 1}
        /\ next[Len(ev) + 1] = x /\ \A i \in DOMAIN ev : next[i] = ev[i]
    BY <1>4, <2>1
  <2>3. {next[i].of : i \in DOMAIN next} = {ev[i].of : i \in DOMAIN ev} \cup {n + 1}
    <3>1. ASSUME NEW i \in DOMAIN next PROVE next[i].of \in {ev[j].of : j \in DOMAIN ev} \cup {n + 1}
      BY <1>4, <2>2
    <3>2. ASSUME NEW i \in DOMAIN ev PROVE ev[i].of \in {next[j].of : j \in DOMAIN next}
      BY <2>2
    <3>3. n + 1 \in {next[j].of : j \in DOMAIN next}
      BY <1>4, <2>2
    <3>. QED
      BY <3>1, <3>2, <3>3
  <2>4. {i \in 1..(n + 1) : ~errs[i].nil} = {i \in 1..n : ~errs[i].nil} \cup {n + 1}
    BY <1>2, <1>7
  <2>5. {next[i].of : i \in DOMAIN next} = {i \in 1..(n + 1) : ~errs[i].nil}
    BY <2>3, <2>4 DEF OneEach
  <2>6. ASSUME NEW i \in DOMAIN next, NEW j \in DOMAIN next, i < j PROVE next[i].of < next[j].of
    <3>1. i \in DOMAIN ev
      BY <2>2, <2>6
    <3>2. CASE j \in DOMAIN ev
      BY <2>2, <2>6, <3>1, <3>2, SMTT(60) DEF OneEach
    <3>3. CASE j = Len(ev) + 1
      BY <1>4, <1>5, <2>2, <3>1, <3>3, SMTT(60)
    <3>. QED
      BY <2>2, <3>2, <3>3
  <2>7. OneEach(next, errs, n + 1)
    BY <2>5, <2>6 DEF OneEach
  <2>8. Typed(next, errs)
    BY <1>4, <2>2 DEF Typed
  <2>. QED
    BY <1>2, <1>7, <2>1, <2>7, <2>8 DEF x
<1>. QED
  BY <1>3, <1>6, <1>7

\* lastError is the error of the last event.
LEMMA LastRecorded ==
  ASSUME NEW ev \in Seq(GinEvents), NEW errs \in Seq(Gin!Entries), OneEach(ev, errs, Len(errs))
  PROVE  OfLast(ev, Gin!LastError(errs)) /\ Gin!LastError(errs) \subseteq Nat
<1>1. Gin!LastError(errs) \subseteq 1..Len(errs)
  BY DEF Gin!LastError
<1>2. ASSUME NEW i \in Gin!LastError(errs) PROVE ev # <<>> /\ i = ev[Len(ev)].of
  <2>1. /\ i \in 1..Len(errs) /\ ~errs[i].nil
        /\ \A j \in 1..Len(errs) : j > i => errs[j].nil
    BY <1>2 DEF Gin!LastError
  <2>2. PICK k \in DOMAIN ev : ev[k].of = i
    BY <2>1 DEF OneEach
  <2>3. Len(ev) \in Nat /\ DOMAIN ev = 1..Len(ev) /\ Len(ev) \in DOMAIN ev
    BY <2>2
  <2>4. ev[Len(ev)].of \in 1..Len(errs) /\ ~errs[ev[Len(ev)].of].nil
    BY <2>3 DEF OneEach
  <2>5. k < Len(ev) => i < ev[Len(ev)].of
    BY <2>2, <2>3, SMTT(60) DEF OneEach
  <2>. QED
    BY <2>1, <2>2, <2>3, <2>4, <2>5
<1>. QED
  BY <1>1, <1>2 DEF OfLast

\* otelgin on the way in.
LEMMA OtelginStep == ASSUME GinInv, Gin!Otelgin PROVE GinInv'
<1>1. /\ pc = "outer" /\ pc' = "inner" /\ pc # "done" /\ depth \in 1..Chains
      /\ saved' = [saved EXCEPT ![depth] = ctx]
      /\ UNCHANGED <<kind, depth, ginSpan, errors, events, status, seen>>
  BY DEF Gin!Otelgin, GinInv, GinTypes
<1>2. \/ /\ ctx' = depth /\ traced' = traced \cup {depth}
         /\ keys' = IF kind[depth] = "filtered" THEN keys \cup {depth} ELSE keys
      \/ kind[depth] = "filtered" /\ UNCHANGED <<ctx, traced, keys>>
  BY DEF Gin!Otelgin
<1>3. keys = {} /\ depth \notin traced /\ Quiet(depth)
  BY <1>1 DEF GinInv, KeysInv, PathInv, QuietInv
<1>4. GinTypes'
  <2>1. GinTypes /\ depth \in 0..(Chains + 1)
    BY <1>1, ChainsAssumption DEF GinInv
  <2>2. ctx' \in 0..(Chains + 1) /\ traced' \subseteq 1..Chains /\ saved' \in [1..Chains -> 0..(Chains + 1)]
    BY <1>1, <1>2, <2>1 DEF GinTypes
  <2>. QED
    BY <1>1, <2>1, <2>2 DEF GinTypes
<1>5. \A c \in 1..Chains : c # depth => (c \in traced' <=> c \in traced) /\ saved'[c] = saved[c]
  BY <1>1, <1>2 DEF GinInv, GinTypes
<1>6. saved'[depth] = ctx
  BY <1>1 DEF GinInv, GinTypes
<1>7. ASSUME NEW c \in 1..Chains PROVE OwnOK(c)'
  <2>1. CASE c = depth
    BY <1>1, <1>2, <1>3, <2>1 DEF Quiet, OwnOK, OneEach, Typed, OfLast
  <2>2. CASE c # depth
    BY <1>1, <1>5, <2>2 DEF GinInv, OwnOK
  <2>. QED
    BY <2>1, <2>2
<1>8. \A c \in 1..Chains : c < depth => Home(c)' = Home(c)
  BY <1>1, <1>5 DEF Home
<1>9. ASSUME NEW c \in 1..Chains, c < depth PROVE WayOK(c)' /\ Holds(c)'
  <2>1. WayOK(c) /\ Holds(c)
    BY <1>1, <1>9 DEF GinInv, PathInv
  <2>2. c > 1 => c - 1 \in 1..Chains /\ c - 1 < depth
    BY <1>1, <1>9, ChainsAssumption
  <2>3. c > 1 => Home(c - 1)' = Home(c - 1)
    BY <1>8, <2>2
  <2>. QED
    BY <1>1, <1>5, <1>9, <2>1, <2>3 DEF WayOK, Holds
<1>10. WayOK(depth)'
  <2>1. PICK d : d = depth
    OBVIOUS
  <2>2. d > 1 => ctx \in {Home(d - 1), Chains + 1} /\ d - 1 \in 1..Chains /\ d - 1 < depth
    BY <1>1, <2>1, ChainsAssumption DEF GinInv, PathInv
  <2>3. d > 1 => Home(d - 1)' = Home(d - 1)
    BY <1>8, <2>2
  <2>4. WayOK(d)'
    BY <1>1, <1>2, <1>6, <2>1, <2>2, <2>3 DEF WayOK
  <2>. QED
    BY <1>1, <2>1, <2>4
<1>11. ctx' = Home(depth)'
  BY <1>1, <1>2, <1>3, <1>6 DEF Home
<1>12. PathInv'
  <2>1. \A c \in 1..Chains : c > depth => c \notin traced'
    BY <1>1, <1>5 DEF GinInv, PathInv, Down
  <2>. QED
    BY <1>1, <1>9, <1>10, <1>11, <2>1 DEF PathInv
<1>13. QuietInv'
  BY <1>1 DEF GinInv, QuietInv, Quiet, Down
<1>14. KeysInv'
  BY <1>1, <1>2, <1>3, <1>11 DEF KeysInv
<1>. QED
  BY <1>4, <1>7, <1>12, <1>13, <1>14 DEF GinInv

\* The chain's handler on the way in.
LEMMA ChainErrorsStep == ASSUME GinInv, Gin!ChainErrors PROVE GinInv'
<1>1. /\ pc = "inner" /\ pc' = "handler" /\ pc # "done" /\ depth \in 1..Chains
      /\ keys' = keys \ {depth}
      /\ ginSpan' = [ginSpan EXCEPT ![depth] =
                      IF kind[depth] = "filtered" /\ depth \notin keys THEN 0 ELSE ctx]
      /\ UNCHANGED <<kind, depth, ctx, saved, traced, errors, events, status, seen>>
  BY DEF Gin!ChainErrors, Gin!NoSpan, GinInv, GinTypes
<1>2. GinTypes'
  <2>1. GinTypes
    BY DEF GinInv
  <2>2. ginSpan' \in [1..Chains -> 0..(Chains + 1)]
    BY <1>1, <2>1, ChainsAssumption, SMTT(60) DEF GinTypes
  <2>. QED
    BY <1>1, <2>1, <2>2 DEF GinTypes
<1>3. ASSUME NEW c \in 1..Chains PROVE OwnOK(c)'
  BY <1>1 DEF GinInv, OwnOK
<1>4. /\ ctx = Home(depth) /\ keys \subseteq {depth} /\ WayOK(depth)
      /\ kind[depth] = "filtered" => (depth \in keys <=> depth \in traced)
  BY <1>1 DEF GinInv, KeysInv, PathInv
<1>5. Holds(depth)'
  BY <1>1, <1>4 DEF Holds, Home, WayOK, GinInv, GinTypes
<1>6. \A c \in 1..Chains : c < depth => WayOK(c)' /\ Holds(c)'
  BY <1>1 DEF GinInv, GinTypes, PathInv, WayOK, Home, Holds
<1>7. PathInv'
  BY <1>1, <1>4, <1>5, <1>6 DEF GinInv, PathInv, WayOK, Home, Down
<1>8. QuietInv'
  BY <1>1 DEF GinInv, QuietInv, Quiet, Down
<1>9. KeysInv'
  BY <1>1, <1>4 DEF KeysInv
<1>. QED
  BY <1>2, <1>3, <1>7, <1>8, <1>9 DEF GinInv

\* A handler adds an error.
LEMMA AddErrorStep == ASSUME GinInv, NEW e \in Gin!Entries, Gin!AddError(e) PROVE GinInv'
<1>1. /\ pc \in {"handler", "after"} /\ errors' = Append(errors, e) /\ depth \in 1..Chains
      /\ UNCHANGED <<kind, depth, pc, ctx, saved, keys, ginSpan, traced, events, status, seen>>
  BY DEF Gin!AddError, GinInv, GinTypes
<1>2. errors \in Seq(Gin!Entries) /\ errors' \in Seq(Gin!Entries) /\ Len(errors') = Len(errors) + 1 /\ Len(errors) \in Nat
  BY <1>1, AppendProperties DEF GinInv, GinTypes
<1>3. GinTypes'
  <2>1. GinTypes
    BY DEF GinInv
  <2>2. ASSUME NEW c \in 1..Chains PROVE seen[c] <= Len(errors')
    <3>1. PICK n \in Nat, m \in Nat : n = seen[c] /\ m = Len(errors) /\ n <= m
      BY <1>2, <2>1 DEF GinTypes
    <3>2. n <= m + 1
      BY <3>1
    <3>. QED
      BY <1>2, <3>1, <3>2
  <2>. QED
    BY <1>1, <1>2, <2>1, <2>2 DEF GinTypes
<1>4. ASSUME NEW c \in 1..Chains PROVE OwnOK(c)'
  <2>1. PICK ev \in Seq(GinEvents) : ev = events[c]
    BY ChainsAssumption, SMTT(60) DEF GinInv, GinTypes
  <2>2. PICK n \in Nat : n = seen[c] /\ n <= Len(errors)
    BY DEF GinInv, GinTypes
  <2>3. /\ OneEach(ev, errors, n) => OneEach(ev, errors', n)
        /\ OneEach(ev, errors, n) /\ Typed(ev, errors) => Typed(ev, errors')
    BY <1>1, <1>2, <2>2, ErrorMore
  <2>4. ev = <<>> => Typed(ev, errors')
    BY DEF Typed
  <2>. QED
    BY <1>1, <2>1, <2>2, <2>3, <2>4 DEF GinInv, OwnOK
<1>5. PathInv'
  BY <1>1 DEF GinInv, PathInv, WayOK, Home, Holds, Down
<1>6. QuietInv'
  BY <1>1 DEF GinInv, QuietInv, Quiet, Down
<1>7. KeysInv'
  BY <1>1 DEF GinInv, KeysInv
<1>. QED
  BY <1>3, <1>4, <1>5, <1>6, <1>7 DEF GinInv

\* The application replaces the context.
LEMMA ReplaceContextStep == ASSUME GinInv, Gin!ReplaceContext PROVE GinInv'
<1>1. /\ pc = "handler" /\ ctx' = Chains + 1 /\ depth \in 1..Chains
      /\ UNCHANGED <<kind, depth, pc, saved, keys, ginSpan, traced, errors, events, status, seen>>
  BY DEF Gin!ReplaceContext, Gin!Foreign, GinInv, GinTypes
<1>2. GinTypes'
  <2>1. GinTypes
    BY DEF GinInv
  <2>2. ctx' \in 0..(Chains + 1)
    BY <1>1, <2>1, ChainsAssumption DEF GinTypes
  <2>. QED
    BY <1>1, <2>1, <2>2 DEF GinTypes
<1>3. \A c \in 1..Chains : OwnOK(c)'
  BY <1>1 DEF GinInv, OwnOK
<1>4. PathInv'
  BY <1>1 DEF GinInv, PathInv, WayOK, Home, Holds, Down
<1>5. QuietInv'
  BY <1>1 DEF GinInv, QuietInv, Quiet, Down
<1>6. KeysInv'
  BY <1>1 DEF GinInv, KeysInv
<1>. QED
  BY <1>2, <1>3, <1>4, <1>5, <1>6 DEF GinInv

\* The request enters the next chain.
LEMMA EnterStep == ASSUME GinInv, Gin!Enter PROVE GinInv'
<1>1. /\ pc = "handler" /\ pc' = "outer" /\ depth \in 1..Chains /\ depth < Chains /\ depth' = depth + 1
      /\ UNCHANGED <<kind, ctx, saved, keys, ginSpan, traced, errors, events, status, seen>>
  BY DEF Gin!Enter, GinInv, GinTypes
<1>2. GinTypes'
  <2>1. GinTypes
    BY DEF GinInv
  <2>2. depth' \in 1..Chains /\ pc' = "outer"
    BY <1>1, <2>1, ChainsAssumption DEF GinTypes
  <2>. QED
    BY <1>1, <2>1, <2>2 DEF GinTypes
<1>3. \A c \in 1..Chains : OwnOK(c)'
  BY <1>1 DEF GinInv, OwnOK
<1>4. ASSUME NEW c \in 1..Chains, c < depth + 1 PROVE WayOK(c) /\ Holds(c) /\ Quiet(c)
  BY <1>1, <1>4 DEF GinInv, PathInv, QuietInv
<1>5. \A c \in 1..Chains : c > depth => c \notin traced /\ Quiet(c)
  BY <1>1 DEF GinInv, PathInv, QuietInv, Down
<1>6. ctx \in {Home(depth), Chains + 1} /\ depth + 1 - 1 = depth /\ depth + 1 \in 1..Chains
  BY <1>1, ChainsAssumption DEF GinInv, PathInv
<1>7. PathInv'
  <2>1. \A c \in 1..Chains : c < depth' => WayOK(c)' /\ Holds(c)'
    BY <1>1, <1>4 DEF WayOK, Home, Holds
  <2>2. PICK d : d = depth
    OBVIOUS
  <2>3. Home(d)' = Home(d) /\ depth' - 1 = d /\ ctx' \in {Home(d), Chains + 1} /\ depth' \in 1..Chains
    BY <1>1, <1>6, <2>2 DEF Home
  <2>4. ctx' \in {Home(depth - 1)', Chains + 1}
    BY <2>3 DEF Home
  <2>5. \A c \in 1..Chains : c > depth' => c \notin traced'
    BY <1>1, <1>5
  <2>6. depth' \notin traced'
    BY <1>1, <1>5, <1>6
  <2>. QED
    BY <1>1, <2>1, <2>4, <2>5, <2>6 DEF PathInv
<1>8. QuietInv'
  <2>1. \A c \in 1..Chains : Quiet(c)'
    BY <1>1, <1>4, <1>5 DEF Quiet
  <2>. QED
    BY <1>1, <1>6, <2>1 DEF QuietInv
<1>9. KeysInv'
  BY <1>1 DEF GinInv, KeysInv
<1>. QED
  BY <1>2, <1>3, <1>7, <1>8, <1>9 DEF GinInv

\* What the chain's handler finds when c.Next returns.
LEMMA ToRecord ==
  ASSUME GinInv, pc \in {"handler", "after", "unwind"}
  PROVE  /\ Gin!SpanToRecord(depth) \in {depth, 0, Chains + 1}
         /\ Gin!SpanToRecord(depth) = 0 <=> depth \notin traced
         /\ Gin!SpanToRecord(depth) = Chains + 1 => kind[depth] = "recorder"
<1>1. WayOK(depth) /\ Holds(depth) /\ ctx \in {Home(depth), Chains + 1} /\ depth \in 1..Chains
  BY DEF GinInv, GinTypes, PathInv
<1>. QED
  BY <1>1, ChainsAssumption DEF Gin!SpanToRecord, WayOK, Holds, Home

\* c.Next returns to the chain's handler.
LEMMA ReturnStep == ASSUME GinInv, Gin!Return PROVE GinInv'
<1>1. /\ pc \in {"handler", "after"} /\ pc' = "unwind" /\ depth \in 1..Chains
      /\ UNCHANGED <<kind, depth, ctx, saved, keys, ginSpan, traced, errors, events, status, seen>>
  BY DEF Gin!Return, GinInv, GinTypes
<1>2. GinTypes'
  BY <1>1 DEF GinInv, GinTypes
<1>3. \A c \in 1..Chains : OwnOK(c)'
  BY <1>1 DEF GinInv, OwnOK
<1>4. PathInv'
  BY <1>1 DEF GinInv, PathInv, WayOK, Home, Holds, Down
<1>5. Quiet(depth)
  BY <1>1 DEF GinInv, QuietInv
<1>6. OneEach(events[depth], errors, seen[depth])
  BY <1>5 DEF Quiet, OneEach
<1>7. QuietInv'
  <2>1. \A c \in 1..Chains : c < depth => Quiet(c)'
    BY <1>1 DEF GinInv, QuietInv, Quiet
  <2>2. status'[depth] = {} /\ events'[depth] = <<>> /\ OneEach(events'[depth], errors', seen'[depth])
    BY <1>1, <1>5, <1>6 DEF Quiet
  <2>. QED
    BY <1>1, <2>1, <2>2 DEF QuietInv, Down
<1>8. KeysInv'
  BY <1>1 DEF GinInv, KeysInv
<1>. QED
  BY <1>2, <1>3, <1>4, <1>7, <1>8 DEF GinInv

\* One error is recorded.
LEMMA RecordStep == ASSUME GinInv, Gin!RecordTypedException PROVE GinInv'
<1>1. PICK s, n : s = Gin!SpanToRecord(depth) /\ n = seen[depth]
  OBVIOUS
<1>2. /\ pc = "unwind" /\ s # 0 /\ n \in Nat /\ n + 1 <= Len(errors) /\ depth \in 1..Chains
      /\ events' = IF errors[n + 1].nil THEN events
                   ELSE [events EXCEPT ![s] =
                      Append(@, [type |-> Gin!GinErrorTypeString(errors[n + 1].bits), of |-> n + 1])]
      /\ seen' = [seen EXCEPT ![depth] = n + 1]
      /\ UNCHANGED <<kind, depth, pc, ctx, saved, keys, ginSpan, traced, errors, status>>
  BY <1>1 DEF Gin!RecordTypedException, Gin!NoSpan, GinInv, GinTypes
<1>3. /\ s \in {depth, Chains + 1} /\ depth \in traced /\ s \in 1..(Chains + 1)
      /\ s = Chains + 1 => kind[depth] = "recorder" /\ s # depth
  BY <1>1, <1>2, ToRecord, ChainsAssumption
<1>4. PICK x : x = [type |-> Gin!GinErrorTypeString(errors[n + 1].bits), of |-> n + 1]
  OBVIOUS
<1>5. /\ errors \in Seq(Gin!Entries) /\ Len(errors) \in Nat /\ events \in [1..(Chains + 1) -> Seq(GinEvents)]
      /\ seen \in [1..Chains -> Nat]
  BY DEF GinInv, GinTypes
<1>60. PICK ev \in Seq(GinEvents) : ev = events[s]
  BY <1>3, <1>5
<1>6. PICK next : ev = events[s] /\ next = IF errors[n + 1].nil THEN ev ELSE Append(ev, x)
  BY <1>60
<1>7. /\ \A t \in 1..(Chains + 1) : t # s => events'[t] = events[t]
      /\ events'[s] = next
  BY <1>2, <1>3, <1>4, <1>5, <1>6
<1>8. seen'[depth] = n + 1 /\ \A c \in 1..Chains : c # depth => seen'[c] = seen[c]
  BY <1>2, <1>5
<1>9. next \in Seq(GinEvents)
  <2>1. CASE errors[n + 1].nil
    BY <1>6, <2>1
  <2>2. CASE ~errors[n + 1].nil
    <3>2. errors[n + 1] \in Gin!Entries
      BY <1>2, <1>5
    <3>3. x \in GinEvents
      BY <1>2, <1>4, <1>5, <3>2, TypeName, SMTT(60) DEF GinEvents
    <3>. QED
      BY <1>6, <2>2, <3>3, AppendProperties
  <2>. QED
    BY <2>1, <2>2
<1>10. events' \in [1..(Chains + 1) -> Seq(GinEvents)]
  BY <1>2, <1>4, <1>5, <1>6, <1>9, <1>3
<1>11. GinTypes'
  BY <1>2, <1>5, <1>8, <1>10, SMTT(60) DEF GinInv, GinTypes
<1>12. s = depth => OneEach(next, errors, n + 1) /\ Typed(next, errors)
  <2>1. ASSUME s = depth PROVE OneEach(ev, errors, n) /\ Typed(ev, errors)
    BY <1>1, <1>2, <1>6, <2>1, SMTT(60) DEF GinInv, QuietInv, OwnOK
  <2>. QED
    BY <1>2, <1>4, <1>5, <1>6, <2>1, EventMore
<1>13. s # depth => events[depth] = <<>> /\ events'[depth] = <<>>
  BY <1>1, <1>2, <1>3, <1>7 DEF GinInv, QuietInv
<1>14. status[depth] = {} /\ status' = status
  BY <1>2 DEF GinInv, QuietInv
<1>15. ASSUME NEW c \in 1..Chains PROVE OwnOK(c)'
  <2>1. CASE c # depth
    <3>1. c # s /\ c \in 1..(Chains + 1)
      BY <1>3, <2>1, ChainsAssumption
    <3>2. events'[c] = events[c] /\ seen'[c] = seen[c]
      BY <1>7, <1>8, <2>1, <3>1
    <3>. QED
      BY <1>2, <3>2 DEF GinInv, OwnOK
  <2>2. CASE c = depth /\ s = depth
    BY <1>2, <1>3, <1>7, <1>8, <1>12, <1>14, <2>2 DEF OwnOK, OfLast
  <2>3. CASE c = depth /\ s # depth
    BY <1>2, <1>3, <1>13, <1>14, <2>3 DEF OwnOK, OfLast, Typed
  <2>. QED
    BY <2>1, <2>2, <2>3
<1>16. PathInv'
  BY <1>2 DEF GinInv, PathInv, WayOK, Home, Holds, Down
<1>17. QuietInv'
  <2>1. ASSUME NEW c \in 1..Chains, c < depth PROVE Quiet(c)'
    <3>1. c # s /\ c \in 1..(Chains + 1) /\ Quiet(c)
      BY <1>2, <1>3, <2>1, ChainsAssumption DEF GinInv, QuietInv
    <3>. QED
      BY <1>2, <1>7, <1>8, <2>1, <3>1, SMTT(60) DEF Quiet
  <2>2. Gin!SpanToRecord(depth)' = s
    BY <1>1, <1>2, SMTT(60) DEF Gin!SpanToRecord
  <2>3. CASE s = depth
    <3>1. OneEach(events'[depth], errors', seen'[depth])
      BY <1>2, <1>7, <1>8, <1>12, <2>3
    <3>. QED
      BY <1>2, <1>14, <2>1, <2>2, <2>3, <3>1 DEF QuietInv, Down
  <2>4. CASE s # depth
    BY <1>2, <1>13, <1>14, <2>1, <2>2, <2>4 DEF QuietInv, Down
  <2>. QED
    BY <2>3, <2>4
<1>18. KeysInv'
  BY <1>2 DEF GinInv, KeysInv
<1>. QED
  BY <1>11, <1>15, <1>16, <1>17, <1>18 DEF GinInv

\* The chain's handler returns.
LEMMA RecordedStep == ASSUME GinInv, Gin!Recorded PROVE GinInv'
<1>1. PICK s : s = Gin!SpanToRecord(depth)
  OBVIOUS
<1>2. /\ pc = "unwind" /\ pc' = "leave" /\ depth \in 1..Chains /\ (s # 0 => seen[depth] = Len(errors))
      /\ \/ status' = status
         \/ s = depth /\ status' = [status EXCEPT ![depth] = Gin!LastError(errors)]
      /\ UNCHANGED <<kind, depth, ctx, saved, keys, ginSpan, traced, errors, events, seen>>
  BY <1>1 DEF Gin!Recorded, Gin!NoSpan, GinInv, GinTypes
<1>3. depth \in traced => s # 0 /\ seen[depth] = Len(errors)
  BY <1>1, <1>2, ToRecord, SMTT(60)
<1>4. PICK ev \in Seq(GinEvents) : ev = events[depth]
  BY <1>2, ChainsAssumption, SMTT(60) DEF GinInv, GinTypes
<1>5. errors \in Seq(Gin!Entries) /\ status \in [1..Chains -> SUBSET Nat] /\ depth # 0
  BY <1>2 DEF GinInv, GinTypes
<1>6. s = depth => OneEach(ev, errors, Len(errors))
  BY <1>1, <1>2, <1>4, <1>5 DEF GinInv, QuietInv
<1>7. s = depth => OfLast(ev, Gin!LastError(errors)) /\ Gin!LastError(errors) \subseteq Nat
  BY <1>5, <1>6, LastRecorded
<1>8. OfLast(ev, status'[depth]) /\ status' \in [1..Chains -> SUBSET Nat]
  BY <1>2, <1>4, <1>5, <1>7 DEF GinInv, OwnOK
<1>9. \A c \in 1..Chains : c # depth => status'[c] = status[c]
  BY <1>2, <1>5
<1>10. GinTypes'
  BY <1>2, <1>8 DEF GinInv, GinTypes
<1>11. ASSUME NEW c \in 1..Chains PROVE OwnOK(c)'
  <2>1. CASE c # depth
    BY <1>2, <1>9, <2>1 DEF GinInv, OwnOK
  <2>2. CASE c = depth
    BY <1>2, <1>4, <1>8, <2>2 DEF GinInv, OwnOK
  <2>. QED
    BY <2>1, <2>2
<1>12. PathInv'
  BY <1>2 DEF GinInv, PathInv, WayOK, Home, Holds, Down
<1>13. QuietInv'
  <2>1. ASSUME NEW c \in 1..Chains, c < depth PROVE Quiet(c)'
    BY <1>2, <1>9, <2>1 DEF GinInv, QuietInv, Quiet
  <2>. QED
    BY <1>2, <1>3, <2>1 DEF QuietInv, Down
<1>14. KeysInv'
  BY <1>2 DEF GinInv, KeysInv
<1>. QED
  BY <1>10, <1>11, <1>12, <1>13, <1>14 DEF GinInv

\* The request leaves the chain.
LEMMA LeaveStep == ASSUME GinInv, Gin!Leave PROVE GinInv'
<1>1. /\ pc = "leave" /\ depth \in 1..Chains
      /\ ctx' = IF depth \in traced THEN saved[depth] ELSE ctx
      /\ depth' = IF depth = 1 THEN 1 ELSE depth - 1
      /\ pc' = IF depth = 1 THEN "done" ELSE "after"
      /\ UNCHANGED <<kind, saved, keys, ginSpan, traced, errors, events, status, seen>>
  BY DEF Gin!Leave, GinInv, GinTypes
<1>2. GinTypes'
  <2>1. GinTypes
    BY DEF GinInv
  <2>2. depth' \in 1..Chains /\ ctx' \in 0..(Chains + 1) /\ pc' \in {"done", "after"}
    BY <1>1, <2>1, ChainsAssumption, SMTT(60) DEF GinTypes
  <2>. QED
    BY <1>1, <2>1, <2>2 DEF GinTypes
<1>3. \A c \in 1..Chains : OwnOK(c)'
  BY <1>1 DEF GinInv, OwnOK
<1>4. KeysInv'
  BY <1>1 DEF GinInv, KeysInv
<1>5. CASE depth = 1
  BY <1>1, <1>2, <1>3, <1>4, <1>5 DEF GinInv
<1>6. CASE depth # 1
  <2>1. depth' = depth - 1 /\ depth - 1 \in 1..Chains /\ depth - 1 < depth /\ depth > 1 /\ pc' = "after"
    BY <1>1, <1>6, ChainsAssumption
  <2>2. /\ WayOK(depth) /\ ctx \in {Home(depth), Chains + 1}
        /\ \A c \in 1..Chains : c < depth => WayOK(c) /\ Holds(c) /\ Quiet(c)
    BY <1>1 DEF GinInv, PathInv, QuietInv
  <2>3. ctx' \in {Home(depth - 1), Chains + 1}
    BY <1>1, <2>1, <2>2 DEF WayOK, Home
  <2>4. \A c \in 1..Chains : c < depth => WayOK(c)' /\ Holds(c)' /\ Quiet(c)'
    BY <1>1, <2>2 DEF WayOK, Holds, Home, Quiet
  <2>5. PICK d \in 1..Chains : d = depth - 1
    BY <2>1
  <2>6. /\ WayOK(d)' /\ Holds(d)' /\ Quiet(d)' /\ depth' = d
        /\ Home(d)' = Home(d) /\ ctx' \in {Home(d)', Chains + 1}
    BY <1>1, <2>1, <2>3, <2>4, <2>5 DEF Home
  <2>10. WayOK(depth)' /\ Holds(depth)' /\ Quiet(depth)' /\ ctx' \in {Home(depth)', Chains + 1}
    BY <2>6
  <2>7. \A c \in 1..Chains : c < depth' => WayOK(c)' /\ Holds(c)' /\ Quiet(c)'
    BY <1>1, <2>1, <2>4
  <2>8. PathInv'
    BY <2>1, <2>7, <2>10 DEF PathInv, Down
  <2>9. QuietInv'
    BY <2>1, <2>7, <2>10 DEF QuietInv, Down
  <2>. QED
    BY <1>2, <1>3, <1>4, <2>8, <2>9 DEF GinInv
<1>. QED
  BY <1>5, <1>6

\* The request comes in.
LEMMA GinStart == Gin!Init => GinInv
<1>. SUFFICES ASSUME Gin!Init PROVE GinInv
  OBVIOUS
<1>1. /\ kind \in [1..Chains -> {"plain", "filtered", "recorder"}]
      /\ depth = 1 /\ pc = "outer" /\ ctx = 0 /\ keys = {} /\ traced = {}
      /\ errors = <<>> /\ events = [s \in 1..(Chains + 1) |-> <<>>] /\ status = [c \in 1..Chains |-> {}]
      /\ saved = [c \in 1..Chains |-> 0] /\ ginSpan = saved /\ seen = [c \in 1..Chains |-> 0]
  BY DEF Gin!Init, Gin!NoSpan, Gin!Foreign
<1>2. errors \in Seq(Gin!Entries) /\ Len(errors) = 0 /\ <<>> \in Seq(GinEvents)
  BY <1>1
<1>3. GinTypes
  BY <1>1, <1>2, ChainsAssumption DEF GinTypes
<1>4. \A c \in 1..Chains : Quiet(c) /\ c \notin traced
  <2>1. \A c \in 1..Chains : c \in 1..(Chains + 1)
    BY ChainsAssumption
  <2>. QED
    BY <1>1, <2>1 DEF Quiet
<1>5. \A c \in 1..Chains : OwnOK(c)
  BY <1>4 DEF Quiet, OwnOK, Typed, OfLast
<1>6. PathInv /\ QuietInv /\ KeysInv
  BY <1>1, <1>4, ChainsAssumption DEF PathInv, QuietInv, KeysInv
<1>. QED
  BY <1>3, <1>5, <1>6 DEF GinInv

\* Every step keeps the invariant.
LEMMA GinNext == GinInv /\ [Gin!Next]_Gin!vars => GinInv'
<1>. SUFFICES ASSUME GinInv, [Gin!Next]_Gin!vars PROVE GinInv'
  OBVIOUS
<1>1. CASE Gin!Panic
  <2>1. pc = "handler" /\ pc' = "done" /\ UNCHANGED <<kind, depth, ctx, saved, keys, ginSpan, traced, errors, events, status, seen>>
    BY <1>1 DEF Gin!Panic
  <2>2. GinTypes' /\ KeysInv' /\ \A c \in 1..Chains : OwnOK(c)'
    BY <2>1 DEF GinInv, GinTypes, KeysInv, OwnOK
  <2>. QED
    BY <2>1, <2>2 DEF GinInv
<1>2. CASE UNCHANGED Gin!vars
  <2>1. UNCHANGED <<kind, depth, pc, ctx, saved, keys, ginSpan, traced, errors, events, status, seen>>
    BY <1>2 DEF Gin!vars
  <2>2. GinTypes' /\ KeysInv' /\ \A c \in 1..Chains : OwnOK(c)'
    BY <2>1 DEF GinInv, GinTypes, KeysInv, OwnOK, Home
  <2>3. PathInv => PathInv'
    BY <2>1 DEF PathInv, WayOK, Home, Holds, Down
  <2>4. QuietInv => QuietInv'
    BY <2>1, SMTT(60) DEF QuietInv, Quiet, Down, Gin!SpanToRecord
  <2>. QED
    BY <2>1, <2>2, <2>3, <2>4 DEF GinInv
<1>. QED
  BY <1>1, <1>2, OtelginStep, ChainErrorsStep, AddErrorStep, ReplaceContextStep, EnterStep, ReturnStep,
     RecordStep, RecordedStep, LeaveStep, SMTT(60) DEF Gin!Next

\* Gin: however many chains are nested, whatever their filters answer, wherever the
\* application adds errors, replaces the context or panics, a chain's errors are on its
\* own span, each once and in order, and a chain that did not trace leaves nothing.
THEOREM ErrorsTheorem == Gin!Spec => []ErrorsOnOwnSpan
<1>1. GinInv => ErrorsOnOwnSpan
  <2>. SUFFICES ASSUME GinInv PROVE ErrorsOnOwnSpan
    OBVIOUS
  <2>1. pc \in {"handler", "after", "done"} => keys = {}
    BY DEF GinInv, KeysInv
  <2>2. pc = "leave" /\ depth \in traced => seen[depth] = Len(errors)
    BY DEF GinInv, QuietInv
  <2>3. \A c \in 1..Chains : OwnOK(c)
    BY DEF GinInv
  <2>4. \A c, n : Gin!InOrder(c, n) <=> OneEach(events[c], errors, n)
    BY DEF Gin!InOrder, OneEach
  <2>. QED
    BY <2>1, <2>2, <2>3, <2>4 DEF OwnOK, Typed, OfLast, ErrorsOnOwnSpan, Gin!ErrorsOnOwnSpan
<1>. QED
  BY <1>1, GinStart, GinNext, PTL DEF Gin!Spec

-----------------------------------------------------------------------------
(***************************************************************************)
(* Records.  Stdout keeps a logger's attributes in a base and in frames,   *)
(* OTLP in one sequence; the invariant says that they amount to the same,  *)
(* which is what the derivations gave.                                     *)
(***************************************************************************)

\* A set of numbers has a least one.
LEMMA LeastNumber ==
  ASSUME NEW S, S \subseteq Nat, S # {} PROVE \E m \in S : \A k \in S : m <= k
<1>1. \A k, m \in Nat : k < m => <<k, m>> \in OpToRel(<, Nat)
  BY Zenon DEF OpToRel
<1>2. PICK m \in S : \A k \in S : <<k, m>> \notin OpToRel(<, Nat)
  BY NatLessThanWellFounded, WFMin, Zenon
<1>3. \A k \in S : ~(k < m)
  BY <1>1, <1>2, Zenon
<1>. QED
  BY <1>3

\* Counting up to n.
LEMMA UpTo ==
  ASSUME NEW n \in Nat, NEW P, 0 \in P, \A i \in 1..n : i - 1 \in P => i \in P
  PROVE  0..n \subseteq P
<1>. DEFINE bad == {i \in 0..n : i \notin P}
<1>1. SUFFICES ASSUME bad # {} PROVE FALSE
  OBVIOUS
<1>2. PICK m \in bad : \A k \in bad : m <= k
  <2>1. bad \subseteq Nat
    OBVIOUS
  <2>. HIDE DEF bad
  <2>. QED
    BY <1>1, <2>1, LeastNumber
<1>3. m \in 1..n /\ m - 1 \in 0..n /\ m \notin P
  OBVIOUS
<1>4. m - 1 \notin bad
  BY <1>2, <1>3
<1>. QED
  BY <1>3, <1>4

\* A pass with the steps of st, from a.
IsWalk(f, a, st, n, D) ==
  /\ f \in [0..n -> D] /\ f[0] = a
  /\ \A i \in 1..n : f[i] = st[<<f[i - 1], i>>]

\* There is such a pass.
LEMMA WalkExists ==
  ASSUME NEW D, NEW a \in D, NEW st \in [D \X Nat -> D], NEW n \in Nat
  PROVE  \E f : IsWalk(f, a, st, n, D)
<1>. DEFINE P == {m \in Nat : \E f : IsWalk(f, a, st, m, D)}
<1>1. 0 \in P
  <2>1. PICK f : f = [i \in 0..0 |-> a]
    OBVIOUS
  <2>2. IsWalk(f, a, st, 0, D)
    BY <2>1 DEF IsWalk
  <2>. QED
    BY <2>2
<1>2. ASSUME NEW m \in 1..n, m - 1 \in P PROVE m \in P
  <2>1. PICK h : IsWalk(h, a, st, m - 1, D)
    BY <1>2
  <2>2. h \in [0..(m - 1) -> D] /\ h[0] = a /\ \A i \in 1..(m - 1) : h[i] = st[<<h[i - 1], i>>]
    BY <2>1 DEF IsWalk
  <2>3. m \in Nat /\ m # 0 /\ m - 1 \in 0..(m - 1)
    OBVIOUS
  <2>4. PICK x : x = st[<<h[m - 1], m>>] /\ x \in D
    BY <2>2, <2>3
  <2>5. PICK f : f = [i \in 0..m |-> IF i = m THEN x ELSE h[i]]
    OBVIOUS
  <2>6. \A i \in 0..m : i # m => i \in 0..(m - 1)
    BY <2>3
  <2>7. f \in [0..m -> D] /\ f[0] = a
    BY <2>2, <2>3, <2>4, <2>5, <2>6
  <2>8. ASSUME NEW i \in 1..m PROVE f[i] = st[<<f[i - 1], i>>]
    <3>1. i - 1 \in 0..m /\ i - 1 # m /\ f[i - 1] = h[i - 1]
      BY <2>3, <2>5
    <3>2. CASE i = m
      BY <2>4, <2>5, <3>1, <3>2
    <3>3. CASE i # m
      BY <2>2, <2>5, <3>1, <3>3
    <3>. QED
      BY <3>2, <3>3
  <2>9. IsWalk(f, a, st, m, D)
    BY <2>7, <2>8 DEF IsWalk
  <2>. QED
    BY <2>3, <2>9
<1>. HIDE DEF P
<1>3. 0..n \subseteq P
  BY <1>1, <1>2, UpTo
<1>4. n \in P
  BY <1>3
<1>. QED
  BY <1>4 DEF P

Chosen(q, s, i, places) == IF i \in places THEN Append(q, s[i]) ELSE q

\* Selecting from a sequence: the last of a pass over it.
LEMMA SelectedWalk ==
  ASSUME NEW T, NEW s \in Seq(T), NEW places
  PROVE  \E f : /\ f \in [0..Len(s) -> Seq(T)] /\ f[0] = <<>>
                /\ \A i \in 1..Len(s) : f[i] = Chosen(f[i - 1], s, i, places)
                /\ Logs!Selected(s, places) = f[Len(s)]
<1>. DEFINE n == Len(s)
            Is(g) == g = [i \in 0..n |-> IF i = 0 THEN <<>> ELSE Chosen(g[i - 1], s, i, places)]
            f == CHOOSE g : Is(g)
<1>1. Logs!Selected(s, places) = f[n]
  BY Zenon DEF Logs!Selected, Chosen
<1>2. PICK st : st = [p \in Seq(T) \X Nat |-> IF p[2] \in 1..n THEN Chosen(p[1], s, p[2], places) ELSE p[1]]
  OBVIOUS
<1>3. n \in Nat /\ \A i \in 1..n : s[i] \in T
  OBVIOUS
<1>. HIDE DEF n
<1>4. st \in [Seq(T) \X Nat -> Seq(T)]
  BY <1>2, <1>3 DEF Chosen
<1>5. <<>> \in Seq(T)
  OBVIOUS
<1>6. PICK h : IsWalk(h, <<>>, st, n, Seq(T))
  BY <1>3, <1>4, <1>5, WalkExists
<1>7. h \in [0..n -> Seq(T)] /\ h[0] = <<>>
      /\ \A i \in 1..n : h[i] = Chosen(h[i - 1], s, i, places)
  <2>1. h \in [0..n -> Seq(T)] /\ h[0] = <<>> /\ \A i \in 1..n : h[i] = st[<<h[i - 1], i>>]
    BY <1>6 DEF IsWalk
  <2>2. \A i \in 1..n : i - 1 \in 0..n /\ i \in Nat
    BY <1>3
  <2>. QED
    BY <1>2, <2>1, <2>2
<1>8. Is(h)
  BY <1>3, <1>7
<1>9. Is(f)
  BY <1>8, Zenon
<1>10. PICK e : e = f
  OBVIOUS
<1>11. e = [i \in 0..n |-> IF i = 0 THEN <<>> ELSE Chosen(e[i - 1], s, i, places)]
  BY <1>9, <1>10, Zenon
<1>12. DOMAIN e = 0..n /\ e[0] = <<>>
       /\ \A i \in 1..n : e[i] = Chosen(e[i - 1], s, i, places)
  BY <1>3, <1>11
<1>13. \A i \in 0..n : e[i] = h[i]
  <2>. DEFINE P == {i \in 0..n : e[i] = h[i]}
  <2>1. 0 \in P
    BY <1>3, <1>7, <1>12
  <2>2. ASSUME NEW i \in 1..n, i - 1 \in P PROVE i \in P
    BY <1>3, <1>7, <1>12, <2>2
  <2>. HIDE DEF P
  <2>3. 0..n \subseteq P
    BY <1>3, <2>1, <2>2, UpTo
  <2>. QED
    BY <2>3 DEF P
<1>14. Logs!Selected(s, places) = h[n]
  BY <1>1, <1>3, <1>10, <1>13
<1>. QED
  BY <1>7, <1>14 DEF n

\* One element more, at a place of those selected or not.
LEMMA SelectedMore ==
  ASSUME NEW T, NEW s \in Seq(T), NEW x \in T, NEW P, NEW Q, \A i \in 1..Len(s) : i \in P <=> i \in Q
  PROVE  /\ Logs!Selected(s, P) \in Seq(T)
         /\ Logs!Selected(Append(s, x), Q) =
              IF Len(s) + 1 \in Q THEN Append(Logs!Selected(s, P), x) ELSE Logs!Selected(s, P)
<1>. DEFINE n == Len(s)
<1>1. PICK t : t = Append(s, x)
  OBVIOUS
<1>2. t \in Seq(T) /\ Len(t) = n + 1 /\ n \in Nat /\ t[n + 1] = x /\ \A i \in 1..n : t[i] = s[i]
  BY <1>1
<1>3. PICK f : /\ f \in [0..n -> Seq(T)] /\ f[0] = <<>>
               /\ \A i \in 1..n : f[i] = Chosen(f[i - 1], s, i, P)
               /\ Logs!Selected(s, P) = f[n]
  BY SelectedWalk, ZenonT(60)
<1>4. PICK g : /\ g \in [0..Len(t) -> Seq(T)] /\ g[0] = <<>>
               /\ \A i \in 1..Len(t) : g[i] = Chosen(g[i - 1], t, i, Q)
               /\ Logs!Selected(t, Q) = g[Len(t)]
  BY <1>2, SelectedWalk, ZenonT(60)
<1>. HIDE DEF n
<1>5. \A i \in 0..n : f[i] = g[i]
  <2>. DEFINE R == {i \in 0..n : f[i] = g[i]}
  <2>1. 0 \in R
    BY <1>2, <1>3, <1>4
  <2>2. ASSUME NEW i \in 1..n, i - 1 \in R PROVE i \in R
    <3>1. i \in 1..(n + 1) /\ f[i - 1] = g[i - 1] /\ t[i] = s[i] /\ (i \in P <=> i \in Q) /\ i \in 0..n
      BY <1>2, <2>2 DEF n
    <3>2. f[i] = Chosen(f[i - 1], s, i, P) /\ g[i] = Chosen(g[i - 1], t, i, Q)
      BY <1>2, <1>3, <1>4, <3>1
    <3>3. f[i] = g[i]
      BY <3>1, <3>2 DEF Chosen
    <3>. QED
      BY <3>1, <3>3
  <2>. HIDE DEF R
  <2>3. 0..n \subseteq R
    BY <1>2, <2>1, <2>2, UpTo
  <2>. QED
    BY <2>3 DEF R
<1>6. f[n] \in Seq(T) /\ g[n + 1] = IF n + 1 \in Q THEN Append(g[n], x) ELSE g[n]
  <2>1. n + 1 \in 1..Len(t) /\ (n + 1) - 1 = n
    BY <1>2
  <2>2. g[n + 1] = Chosen(g[n], t, n + 1, Q)
    BY <1>4, <2>1
  <2>. QED
    BY <1>2, <1>3, <2>2 DEF Chosen
<1>7. g[n] = f[n]
  BY <1>2, <1>5
<1>8. Logs!Selected(s, P) \in Seq(T)
      /\ Logs!Selected(t, Q) = IF n + 1 \in Q THEN Append(Logs!Selected(s, P), x) ELSE Logs!Selected(s, P)
  BY <1>2, <1>3, <1>4, <1>6, <1>7
<1>. QED
  BY <1>1, <1>8 DEF n

\* Every place.
LEMMA SelectedAll ==
  ASSUME NEW T, NEW s \in Seq(T), NEW P, \A i \in 1..Len(s) : i \in P
  PROVE  Logs!Selected(s, P) = s
<1>. DEFINE n == Len(s)
<1>1. n \in Nat
  OBVIOUS
<1>2. PICK f : /\ f \in [0..n -> Seq(T)] /\ f[0] = <<>>
               /\ \A i \in 1..n : f[i] = Chosen(f[i - 1], s, i, P)
               /\ Logs!Selected(s, P) = f[n]
  BY SelectedWalk, ZenonT(60)
<1>3. \A i \in 1..n : f[i] = Append(f[i - 1], s[i]) /\ s[i] \in T
  <2>1. \A q, i : i \in P => Chosen(q, s, i, P) = Append(q, s[i])
    BY Zenon DEF Chosen
  <2>2. \A i \in 1..n : i \in P /\ s[i] \in T
    OBVIOUS
  <2>. QED
    BY <1>2, <2>1, <2>2, Zenon
<1>. HIDE DEF n
<1>4. \A i \in 0..n : Len(f[i]) = i /\ \A j \in 1..i : f[i][j] = s[j]
  <2>. DEFINE R == {i \in 0..n : Len(f[i]) = i /\ \A j \in 1..i : f[i][j] = s[j]}
  <2>1. 0 \in R
    BY <1>1, <1>2
  <2>2. ASSUME NEW i \in 1..n, i - 1 \in R PROVE i \in R
    <3>1. f[i - 1] \in Seq(T) /\ Len(f[i - 1]) = i - 1 /\ i \in 0..n /\ \A j \in 1..(i - 1) : f[i - 1][j] = s[j]
      <4>1. i - 1 \in 0..n /\ i \in 0..n
        BY <1>1
      <4>. QED
        BY <1>2, <2>2, <4>1
    <3>2. f[i] = Append(f[i - 1], s[i]) /\ s[i] \in T
      BY <1>3
    <3>3. Len(f[i]) = i /\ f[i][i] = s[i] /\ \A j \in 1..(i - 1) : f[i][j] = f[i - 1][j]
      BY <3>1, <3>2
    <3>. QED
      BY <3>1, <3>3
  <2>. HIDE DEF R
  <2>3. 0..n \subseteq R
    BY <1>1, <2>1, <2>2, UpTo
  <2>. QED
    BY <2>3 DEF R
<1>5. f[n] \in Seq(T) /\ Len(f[n]) = n /\ \A j \in 1..n : f[n][j] = s[j]
  <2>1. n \in 0..n
    BY <1>1
  <2>. QED
    BY <1>2, <1>4, <2>1
<1>6. f[n] = s
  BY <1>5 DEF n
<1>. QED
  BY <1>2, <1>6

\* Flattening: the last of a pass as well.
LEMMA FlattenWalk ==
  ASSUME NEW T, NEW s \in Seq(Seq(T))
  PROVE  \E f : /\ f \in [0..Len(s) -> Seq(T)] /\ f[0] = <<>>
                /\ \A i \in 1..Len(s) : f[i] = f[i - 1] \o s[i]
                /\ Logs!FlattenSeq(s) = f[Len(s)]
<1>. DEFINE n == Len(s)
            Is(g) == g = [i \in 1..n |-> IF i = 1 THEN s[i] ELSE g[i - 1] \o s[i]]
            f == CHOOSE g : Is(g)
<1>1. Logs!FlattenSeq(s) = IF n = 0 THEN s ELSE f[n]
  BY Zenon DEF Logs!FlattenSeq
<1>2. PICK st : st = [p \in Seq(T) \X Nat |-> IF p[2] \in 1..n THEN p[1] \o s[p[2]] ELSE p[1]]
  OBVIOUS
<1>3. n \in Nat /\ (\A i \in 1..n : s[i] \in Seq(T)) /\ (n = 0 => s = <<>>)
  OBVIOUS
<1>. HIDE DEF n
<1>4. st \in [Seq(T) \X Nat -> Seq(T)]
  <2>1. \A q, r \in Seq(T) : q \o r \in Seq(T)
    OBVIOUS
  <2>. QED
    BY <1>2, <1>3, <2>1
<1>5. <<>> \in Seq(T)
  OBVIOUS
<1>6. PICK h : IsWalk(h, <<>>, st, n, Seq(T))
  BY <1>3, <1>4, <1>5, WalkExists
<1>7. h \in [0..n -> Seq(T)] /\ h[0] = <<>> /\ \A i \in 1..n : h[i] = h[i - 1] \o s[i]
  <2>1. h \in [0..n -> Seq(T)] /\ h[0] = <<>> /\ \A i \in 1..n : h[i] = st[<<h[i - 1], i>>]
    BY <1>6 DEF IsWalk
  <2>2. \A i \in 1..n : i - 1 \in 0..n /\ i \in Nat
    BY <1>3
  <2>3. \A i \in 1..n : <<h[i - 1], i>> \in Seq(T) \X Nat
    BY <2>1, <2>2
  <2>4. \A i \in 1..n : st[<<h[i - 1], i>>] = h[i - 1] \o s[i]
    BY <1>2, <2>3
  <2>. QED
    BY <2>1, <2>4
<1>8. 1 \in 1..n => h[1] = s[1]
  <2>1. \A q \in Seq(T) : <<>> \o q = q
    OBVIOUS
  <2>2. 1 - 1 = 0
    OBVIOUS
  <2>. QED
    BY <1>3, <1>7, <2>1, <2>2, ZenonT(60)
<1>9. PICK g : g = [i \in 1..n |-> h[i]]
  OBVIOUS
<1>10. Is(g)
  <2>1. ASSUME NEW i \in 1..n PROVE g[i] = IF i = 1 THEN s[i] ELSE g[i - 1] \o s[i]
    <3>1. CASE i = 1
      BY <1>8, <1>9, <3>1
    <3>2. CASE i # 1
      <4>1. i - 1 \in 1..n
        BY <1>3, <3>2
      <4>. QED
        BY <1>7, <1>9, <3>2, <4>1
    <3>. QED
      BY <3>1, <3>2
  <2>. QED
    BY <1>9, <2>1, SMTT(60)
<1>11. Is(f)
  BY <1>10, Zenon
<1>12. PICK e : e = f
  OBVIOUS
<1>13. e = [i \in 1..n |-> IF i = 1 THEN s[i] ELSE e[i - 1] \o s[i]]
  BY <1>11, <1>12, ZenonT(60)
<1>14. \A i \in 0..n : i = 0 \/ e[i] = h[i]
  <2>. DEFINE P == {i \in 0..n : i = 0 \/ e[i] = h[i]}
  <2>1. 0 \in P
    BY <1>3
  <2>2. ASSUME NEW i \in 1..n, i - 1 \in P PROVE i \in P
    <3>1. i \in 0..n
      BY <1>3
    <3>2. CASE i = 1
      BY <1>8, <1>13, <3>1, <3>2
    <3>3. CASE i # 1
      <4>1. i - 1 # 0 /\ e[i - 1] = h[i - 1]
        BY <2>2, <3>3
      <4>2. e[i] = e[i - 1] \o s[i]
        BY <1>13, <3>3
      <4>3. h[i] = h[i - 1] \o s[i]
        BY <1>7
      <4>. QED
        BY <3>1, <4>1, <4>2, <4>3
    <3>. QED
      BY <3>2, <3>3
  <2>. HIDE DEF P
  <2>3. 0..n \subseteq P
    BY <1>3, <2>1, <2>2, UpTo
  <2>. QED
    BY <2>3 DEF P
<1>15. Logs!FlattenSeq(s) = h[n]
  <2>1. CASE n = 0
    BY <1>1, <1>3, <1>7, <2>1, SMTT(60)
  <2>2. CASE n # 0
    <3>1. n \in 0..n
      BY <1>3
    <3>2. e[n] = h[n]
      BY <1>14, <2>2, <3>1
    <3>. QED
      BY <1>1, <1>12, <2>2, <3>2, Zenon
  <2>. QED
    BY <2>1, <2>2
<1>. QED
  BY <1>7, <1>15 DEF n

\* One sequence more.
LEMMA FlattenMore ==
  ASSUME NEW T, NEW s \in Seq(Seq(T)), NEW x \in Seq(T)
  PROVE  /\ Logs!FlattenSeq(s) \in Seq(T)
         /\ Logs!FlattenSeq(Append(s, x)) = Logs!FlattenSeq(s) \o x
<1>. DEFINE n == Len(s)
<1>1. PICK t : t = Append(s, x)
  OBVIOUS
<1>2. t \in Seq(Seq(T)) /\ Len(t) = n + 1 /\ n \in Nat /\ t[n + 1] = x /\ \A i \in 1..n : t[i] = s[i]
  BY <1>1
<1>3. PICK f : /\ f \in [0..n -> Seq(T)] /\ f[0] = <<>>
               /\ \A i \in 1..n : f[i] = f[i - 1] \o s[i]
               /\ Logs!FlattenSeq(s) = f[n]
  BY FlattenWalk
<1>4. PICK g : /\ g \in [0..Len(t) -> Seq(T)] /\ g[0] = <<>>
               /\ \A i \in 1..Len(t) : g[i] = g[i - 1] \o t[i]
               /\ Logs!FlattenSeq(t) = g[Len(t)]
  BY <1>2, FlattenWalk
<1>. HIDE DEF n
<1>5. \A i \in 0..n : f[i] = g[i]
  <2>. DEFINE R == {i \in 0..n : f[i] = g[i]}
  <2>1. 0 \in R
    BY <1>2, <1>3, <1>4
  <2>2. ASSUME NEW i \in 1..n, i - 1 \in R PROVE i \in R
    <3>1. i \in 1..(n + 1) /\ f[i - 1] = g[i - 1] /\ t[i] = s[i] /\ i \in 0..n
      BY <1>2, <2>2, SMTT(60) DEF n
    <3>2. f[i] = f[i - 1] \o s[i] /\ g[i] = g[i - 1] \o t[i]
      BY <1>2, <1>3, <1>4, <3>1
    <3>. QED
      BY <3>1, <3>2
  <2>. HIDE DEF R
  <2>3. 0..n \subseteq R
    BY <1>2, <2>1, <2>2, UpTo
  <2>. QED
    BY <2>3 DEF R
<1>6. n + 1 \in 1..Len(t) /\ (n + 1) - 1 = n /\ n \in 0..n
  BY <1>2
<1>7. f[n] \in Seq(T) /\ g[n + 1] = g[n] \o x /\ g[n] = f[n]
  BY <1>2, <1>3, <1>4, <1>5, <1>6
<1>8. Logs!FlattenSeq(s) \in Seq(T) /\ Logs!FlattenSeq(t) = Logs!FlattenSeq(s) \o x
  BY <1>2, <1>3, <1>4, <1>7
<1>. QED
  BY <1>1, <1>8

\* Nothing to flatten.
LEMMA FlattenNone == Logs!FlattenSeq(<<>>) = <<>>
  BY DEF Logs!FlattenSeq

-----------------------------------------------------------------------------
(* Attributes and where they are written *)

Calls == Batches \cup {r.attrs : r \in Records}
CallKeys == UNION {{attrs[n].key : n \in DOMAIN attrs} : attrs \in Calls}
AttrNames == CallKeys \cup {"user", "traceId"}
Kinds == {"plain", "error", "valuer", "string", "derived", "emitted"}

\* An attribute of a call, as it is given and as it is handed down.
Attrs == [key : AttrNames, kind : Kinds, in : {"", "inline", "named", "baggage"}]

\* One in its place.
Items == [path : Seq({"g", "sub"}), key : AttrNames, kind : Kinds, by : Nat, nth : Nat]

\* What a call gives is well formed.
LEMMA CallTypes ==
  ASSUME NEW attrs \in Calls
  PROVE  /\ attrs \in Seq(Attrs)
         /\ \A n \in 1..Len(attrs) : attrs[n].kind \in {"plain", "error", "valuer"} /\ attrs[n].in # "baggage"
<1>1. IsAttrs(attrs)
  BY LogsAssumption DEF Calls
<1>2. attrs \in Seq({attrs[n] : n \in DOMAIN attrs})
  BY <1>1 DEF IsAttrs
<1>3. Len(attrs) \in Nat /\ DOMAIN attrs = 1..Len(attrs)
  BY <1>2
<1>4. ASSUME NEW n \in DOMAIN attrs PROVE attrs[n] \in Attrs
  <2>1. /\ attrs[n] = [key |-> attrs[n].key, kind |-> attrs[n].kind, in |-> attrs[n].in]
        /\ attrs[n].kind \in {"plain", "error", "valuer"} /\ attrs[n].in \in {"", "inline", "named"}
    BY <1>1 DEF IsAttrs, Logs!Attr
  <2>2. attrs[n].key \in AttrNames
    <3>1. attrs[n].key \in {attrs[m].key : m \in DOMAIN attrs}
      OBVIOUS
    <3>. QED
      BY <3>1, Zenon DEF AttrNames, CallKeys
  <2>. QED
    BY <2>1, <2>2 DEF Attrs, Kinds
<1>5. {attrs[n] : n \in DOMAIN attrs} \subseteq Attrs
  BY <1>4
<1>6. \A n \in DOMAIN attrs : attrs[n].kind \in {"plain", "error", "valuer"} /\ attrs[n].in # "baggage"
  BY <1>1 DEF IsAttrs
<1>. QED
  BY <1>2, <1>3, <1>5, <1>6

\* The kind a value ends up with.
FinalKind(k, when) == IF k = "valuer" THEN when ELSE IF k = "error" THEN "string" ELSE k

\* What becomes of a call's attributes, however they get there.
Written(path, attrs, by, when) ==
  [n \in 1..Len(attrs) |->
     [path |-> IF attrs[n].in = "named" THEN Append(path, "sub") ELSE path,
      key |-> attrs[n].key, kind |-> FinalKind(attrs[n].kind, when), by |-> by, nth |-> n]]

\* It is a sequence of as many attributes in their places.
LEMMA WrittenType ==
  ASSUME NEW path \in Seq({"g", "sub"}), NEW attrs \in Seq(Attrs), NEW by \in Nat, NEW when \in {"derived", "emitted"}
  PROVE  /\ Written(path, attrs, by, when) \in Seq(Items)
         /\ Len(Written(path, attrs, by, when)) = Len(attrs)
<1>1. Append(path, "sub") \in Seq({"g", "sub"})
  OBVIOUS
<1>2. ASSUME NEW n \in 1..Len(attrs)
      PROVE  [path |-> IF attrs[n].in = "named" THEN Append(path, "sub") ELSE path,
              key |-> attrs[n].key, kind |-> FinalKind(attrs[n].kind, when), by |-> by, nth |-> n] \in Items
  <2>1. attrs[n] \in Attrs /\ n \in Nat
    OBVIOUS
  <2>2. attrs[n].key \in AttrNames /\ FinalKind(attrs[n].kind, when) \in Kinds
    BY <2>1 DEF Attrs, Kinds, FinalKind
  <2>. QED
    BY <1>1, <2>1, <2>2 DEF Items
<1>. QED
  BY <1>2 DEF Written

\* What stringifyErrors makes of each attribute.
LEMMA StringifyIs ==
  ASSUME NEW attrs \in Seq(Attrs)
  PROVE  /\ Logs!StringifyErrors(attrs) \in Seq(Attrs) /\ Len(Logs!StringifyErrors(attrs)) = Len(attrs)
         /\ \A n \in 1..Len(attrs) :
              Logs!StringifyErrors(attrs)[n] =
                [key |-> attrs[n].key, kind |-> IF attrs[n].kind = "error" THEN "string" ELSE attrs[n].kind, in |-> attrs[n].in]
<1>. DEFINE to(a) == [key |-> a.key, kind |-> IF a.kind = "error" THEN "string" ELSE a.kind, in |-> a.in]
<1>1. PICK r : r = Logs!StringifyErrors(attrs)
  OBVIOUS
<1>2. r = [n \in DOMAIN attrs |-> [attrs[n] EXCEPT !.kind = IF @ = "error" THEN "string" ELSE @]]
  BY <1>1 DEF Logs!StringifyErrors
<1>3. ASSUME NEW n \in 1..Len(attrs) PROVE r[n] = to(attrs[n]) /\ r[n] \in Attrs
  <2>1. PICK a \in Attrs : a = attrs[n]
    OBVIOUS
  <2>2. r[n] = [a EXCEPT !.kind = IF @ = "error" THEN "string" ELSE @]
    BY <1>2, <2>1
  <2>3. r[n] = to(a) /\ r[n] \in Attrs
    BY <2>2 DEF Attrs, Kinds
  <2>. QED
    BY <2>1, <2>3
<1>. HIDE DEF to
<1>4. r \in Seq(Attrs) /\ Len(r) = Len(attrs)
  <2>1. DOMAIN attrs = 1..Len(attrs) /\ Len(attrs) \in Nat
    OBVIOUS
  <2>2. DOMAIN r = 1..Len(attrs) /\ r = [n \in 1..Len(attrs) |-> r[n]]
    BY <1>2, <2>1, Zenon
  <2>3. \A n \in 1..Len(attrs) : r[n] \in Attrs
    BY <1>3
  <2>4. r \in [1..Len(attrs) -> Attrs]
    BY <2>2, <2>3, Zenon
  <2>. QED
    BY <2>1, <2>4
<1>. QED
  BY <1>1, <1>3, <1>4 DEF to

\* What resolveAttr makes of each attribute.
LEMMA ResolveIs ==
  ASSUME NEW attrs \in Seq(Attrs), NEW when \in {"derived", "emitted"}
  PROVE  /\ Logs!Resolve(attrs, when) \in Seq(Attrs) /\ Len(Logs!Resolve(attrs, when)) = Len(attrs)
         /\ \A n \in 1..Len(attrs) :
              Logs!Resolve(attrs, when)[n] =
                [key |-> attrs[n].key, kind |-> IF attrs[n].kind = "valuer" THEN when ELSE attrs[n].kind, in |-> attrs[n].in]
<1>. DEFINE to(a) == [key |-> a.key, kind |-> IF a.kind = "valuer" THEN when ELSE a.kind, in |-> a.in]
<1>1. PICK r : r = Logs!Resolve(attrs, when)
  OBVIOUS
<1>2. r = [n \in DOMAIN attrs |-> [attrs[n] EXCEPT !.kind = IF @ = "valuer" THEN when ELSE @]]
  BY <1>1 DEF Logs!Resolve
<1>3. ASSUME NEW n \in 1..Len(attrs) PROVE r[n] = to(attrs[n]) /\ r[n] \in Attrs
  <2>1. PICK a \in Attrs : a = attrs[n]
    OBVIOUS
  <2>2. r[n] = [a EXCEPT !.kind = IF @ = "valuer" THEN when ELSE @]
    BY <1>2, <2>1
  <2>3. r[n] = to(a) /\ r[n] \in Attrs
    BY <2>2 DEF Attrs, Kinds
  <2>. QED
    BY <2>1, <2>3
<1>. HIDE DEF to
<1>4. r \in Seq(Attrs) /\ Len(r) = Len(attrs)
  <2>1. DOMAIN attrs = 1..Len(attrs) /\ Len(attrs) \in Nat
    OBVIOUS
  <2>2. DOMAIN r = 1..Len(attrs) /\ r = [n \in 1..Len(attrs) |-> r[n]]
    BY <1>2, <2>1, Zenon
  <2>3. \A n \in 1..Len(attrs) : r[n] \in Attrs
    BY <1>3
  <2>4. r \in [1..Len(attrs) -> Attrs]
    BY <2>2, <2>3, Zenon
  <2>. QED
    BY <2>1, <2>4
<1>. QED
  BY <1>1, <1>3, <1>4 DEF to

\* Two sequences with the same elements.
LEMMA SameSeq ==
  ASSUME NEW T, NEW s \in Seq(T), NEW t \in Seq(T), Len(s) = Len(t), \A n \in 1..Len(s) : s[n] = t[n]
  PROVE  s = t
  OBVIOUS

\* Attributes, each in its place.
LEMMA PlacedIs ==
  ASSUME NEW path \in Seq({"g", "sub"}), NEW attrs \in Seq(Attrs), NEW by \in Nat
  PROVE  /\ Logs!Placed(path, attrs, by) \in Seq(Items) /\ Len(Logs!Placed(path, attrs, by)) = Len(attrs)
         /\ \A n \in 1..Len(attrs) :
              Logs!Placed(path, attrs, by)[n] =
                [path |-> IF attrs[n].in = "named" THEN Append(path, "sub") ELSE path,
                 key |-> attrs[n].key, kind |-> attrs[n].kind, by |-> by, nth |-> n]
<1>. DEFINE to(n) == [path |-> IF attrs[n].in = "named" THEN Append(path, "sub") ELSE path,
                      key |-> attrs[n].key, kind |-> attrs[n].kind, by |-> by, nth |-> n]
<1>1. PICK r : r = Logs!Placed(path, attrs, by)
  OBVIOUS
<1>2. DOMAIN attrs = 1..Len(attrs) /\ Len(attrs) \in Nat
  OBVIOUS
<1>3. r = [n \in DOMAIN attrs |-> to(n)]
  BY <1>1, Zenon DEF Logs!Placed, Logs!At
<1>4. ASSUME NEW n \in 1..Len(attrs) PROVE to(n) \in Items
  <2>1. Append(path, "sub") \in Seq({"g", "sub"})
    OBVIOUS
  <2>2. attrs[n].key \in AttrNames /\ attrs[n].kind \in Kinds /\ n \in Nat
    <3>1. attrs[n] \in Attrs /\ n \in Nat
      OBVIOUS
    <3>2. attrs[n].key \in AttrNames /\ attrs[n].kind \in Kinds
      BY <3>1, Zenon DEF Attrs
    <3>. QED
      BY <3>1, <3>2
  <2>. QED
    BY <2>1, <2>2 DEF Items
<1>. HIDE DEF to
<1>5. r \in [1..Len(attrs) -> Items] /\ \A n \in 1..Len(attrs) : r[n] = to(n)
  BY <1>2, <1>3, <1>4, Zenon
<1>6. r \in Seq(Items) /\ Len(r) = Len(attrs)
  BY <1>2, <1>5
<1>. QED
  BY <1>1, <1>5, <1>6 DEF to

\* What JSON makes of what is in its place.
Finished(x, when) ==
  [path |-> x.path, key |-> x.key, kind |-> FinalKind(x.kind, when), by |-> x.by, nth |-> x.nth]

\* It does so with each.
LEMMA JSONIs ==
  ASSUME NEW items \in Seq(Items), NEW when \in {"derived", "emitted"}
  PROVE  /\ Logs!JSON(items, when) \in Seq(Items) /\ Len(Logs!JSON(items, when)) = Len(items)
         /\ \A n \in 1..Len(items) : Logs!JSON(items, when)[n] = Finished(items[n], when)
<1>1. PICK q : q = Logs!Resolve(items, when)
  OBVIOUS
<1>2. PICK r : r = Logs!StringifyErrors(q)
  OBVIOUS
<1>3. DOMAIN items = 1..Len(items) /\ Len(items) \in Nat
  OBVIOUS
<1>4. q = [n \in DOMAIN items |-> [items[n] EXCEPT !.kind = IF @ = "valuer" THEN when ELSE @]]
  BY <1>1 DEF Logs!Resolve
<1>5. r = [n \in DOMAIN q |-> [q[n] EXCEPT !.kind = IF @ = "error" THEN "string" ELSE @]]
  BY <1>2, SMTT(60) DEF Logs!StringifyErrors
<1>6. DOMAIN q = 1..Len(items) /\ DOMAIN r = 1..Len(items)
  BY <1>3, <1>4, <1>5
<1>7. ASSUME NEW n \in 1..Len(items) PROVE r[n] = Finished(items[n], when) /\ r[n] \in Items
  <2>1. PICK x \in Items : x = items[n]
    OBVIOUS
  <2>2. PICK y : y = q[n]
    OBVIOUS
  <2>3. y = [x EXCEPT !.kind = IF @ = "valuer" THEN when ELSE @]
    BY <1>3, <1>4, <2>1, <2>2
  <2>4. r[n] = [y EXCEPT !.kind = IF @ = "error" THEN "string" ELSE @]
    BY <1>5, <1>6, <2>2
  <2>5. y = [path |-> x.path, key |-> x.key, kind |-> IF x.kind = "valuer" THEN when ELSE x.kind, by |-> x.by, nth |-> x.nth]
    BY <2>3 DEF Items
  <2>6. r[n] = Finished(x, when)
    BY <2>4, <2>5 DEF Finished, FinalKind
  <2>7. Finished(x, when) \in Items
    BY DEF Finished, FinalKind, Items, Kinds
  <2>. QED
    BY <2>1, <2>6, <2>7
<1>8. r = [n \in 1..Len(items) |-> r[n]]
  BY <1>5, <1>6, Zenon
<1>9. r \in [1..Len(items) -> Items]
  BY <1>7, <1>8, Zenon
<1>10. r \in Seq(Items) /\ Len(r) = Len(items)
  BY <1>3, <1>9
<1>11. r = Logs!JSON(items, when)
  BY <1>1, <1>2 DEF Logs!JSON
<1>. QED
  BY <1>7, <1>10, <1>11

\* And so with two sequences, one after the other.
LEMMA JSONJoin ==
  ASSUME NEW x \in Seq(Items), NEW y \in Seq(Items), NEW when \in {"derived", "emitted"}
  PROVE  Logs!JSON(x \o y, when) = Logs!JSON(x, when) \o Logs!JSON(y, when)
<1>1. PICK a \in Seq(Items) : a = Logs!JSON(x, when) /\ Len(a) = Len(x) /\ \A n \in 1..Len(x) : a[n] = Finished(x[n], when)
  BY JSONIs
<1>2. PICK b \in Seq(Items) : b = Logs!JSON(y, when) /\ Len(b) = Len(y) /\ \A n \in 1..Len(y) : b[n] = Finished(y[n], when)
  BY JSONIs
<1>3. PICK z \in Seq(Items) : z = x \o y /\ Len(z) = Len(x) + Len(y)
  BY ConcatProperties
<1>4. PICK c \in Seq(Items) : c = Logs!JSON(z, when) /\ Len(c) = Len(z) /\ \A n \in 1..Len(z) : c[n] = Finished(z[n], when)
  BY JSONIs
<1>5. PICK d \in Seq(Items) : d = a \o b /\ Len(d) = Len(z)
  <2>1. a \o b \in Seq(Items) /\ Len(a \o b) = Len(a) + Len(b)
    BY ConcatProperties
  <2>. QED
    BY <1>1, <1>2, <1>3, <2>1
<1>6. ASSUME NEW n \in 1..Len(z) PROVE c[n] = d[n]
  <2>1. CASE n <= Len(x)
    <3>1. n \in 1..Len(x) /\ z[n] = x[n] /\ d[n] = a[n]
      BY <1>1, <1>3, <1>5, <2>1
    <3>. QED
      BY <1>1, <1>4, <3>1
  <2>2. CASE n > Len(x)
    <3>1. n - Len(x) \in 1..Len(y) /\ z[n] = y[n - Len(x)] /\ d[n] = b[n - Len(x)]
      BY <1>1, <1>2, <1>3, <1>5, <2>2, SMTT(60)
    <3>. QED
      BY <1>2, <1>4, <3>1
  <2>. QED
    BY <2>1, <2>2
<1>7. c = d
  <2>1. Len(c) = Len(d) /\ \A n \in 1..Len(c) : c[n] = d[n]
    BY <1>4, <1>5, <1>6
  <2>. QED
    BY <2>1, SameSeq
<1>. QED
  BY <1>1, <1>2, <1>3, <1>4, <1>5, <1>7

Whens == {"derived", "emitted"}

\* One of the attributes.
LEMMA WrittenIs ==
  ASSUME NEW path, NEW attrs, NEW by, NEW when, NEW n \in 1..Len(attrs)
  PROVE  Written(path, attrs, by, when)[n] =
           [path |-> IF attrs[n].in = "named" THEN Append(path, "sub") ELSE path,
            key |-> attrs[n].key, kind |-> FinalKind(attrs[n].kind, when), by |-> by, nth |-> n]
  BY Zenon DEF Written

\* The ways to an attribute's place come to the same.
LEMMA WrittenPlaced ==
  ASSUME NEW path \in Seq({"g", "sub"}), NEW attrs \in Seq(Attrs), NEW by \in Nat, NEW when \in Whens
  PROVE  Logs!JSON(Logs!Placed(path, attrs, by), when) = Written(path, attrs, by, when)
<1>1. PICK x \in Seq(Items) : /\ x = Logs!Placed(path, attrs, by) /\ Len(x) = Len(attrs)
                              /\ \A n \in 1..Len(attrs) :
                                   x[n] = [path |-> IF attrs[n].in = "named" THEN Append(path, "sub") ELSE path,
                                           key |-> attrs[n].key, kind |-> attrs[n].kind, by |-> by, nth |-> n]
  BY PlacedIs, ZenonT(60)
<1>2. PICK y \in Seq(Items) : y = Logs!JSON(x, when) /\ Len(y) = Len(x) /\ \A n \in 1..Len(x) : y[n] = Finished(x[n], when)
  BY JSONIs DEF Whens
<1>3. PICK w \in Seq(Items) : w = Written(path, attrs, by, when) /\ Len(w) = Len(attrs)
  BY WrittenType DEF Whens
<1>4. ASSUME NEW n \in 1..Len(attrs) PROVE y[n] = w[n]
  <2>1. y[n] = Finished(x[n], when)
    BY <1>1, <1>2
  <2>2. w[n] = [path |-> IF attrs[n].in = "named" THEN Append(path, "sub") ELSE path,
                key |-> attrs[n].key, kind |-> FinalKind(attrs[n].kind, when), by |-> by, nth |-> n]
    BY <1>3, WrittenIs
  <2>3. x[n] = [path |-> IF attrs[n].in = "named" THEN Append(path, "sub") ELSE path,
                key |-> attrs[n].key, kind |-> attrs[n].kind, by |-> by, nth |-> n]
    BY <1>1
  <2>. QED
    BY <2>1, <2>2, <2>3 DEF Finished
<1>5. Len(y) = Len(w) /\ \A n \in 1..Len(y) : y[n] = w[n]
  BY <1>1, <1>2, <1>3, <1>4
<1>6. y = w
  BY <1>5, SameSeq, SMTT(60)
<1>. QED
  BY <1>1, <1>2, <1>3, <1>6

\* Attributes with their final kinds, put in their places.
LEMMA WrittenFinal ==
  ASSUME NEW path \in Seq({"g", "sub"}), NEW attrs \in Seq(Attrs), NEW by \in Nat, NEW when \in Whens,
         NEW r \in Seq(Attrs), Len(r) = Len(attrs),
         \A n \in 1..Len(attrs) :
           r[n] = [key |-> attrs[n].key, kind |-> FinalKind(attrs[n].kind, when), in |-> attrs[n].in]
  PROVE  Logs!Placed(path, r, by) = Written(path, attrs, by, when)
<1>1. PICK x \in Seq(Items) : /\ x = Logs!Placed(path, r, by) /\ Len(x) = Len(r)
                              /\ \A n \in 1..Len(r) :
                                   x[n] = [path |-> IF r[n].in = "named" THEN Append(path, "sub") ELSE path,
                                           key |-> r[n].key, kind |-> r[n].kind, by |-> by, nth |-> n]
  BY PlacedIs, ZenonT(60)
<1>2. PICK w \in Seq(Items) : w = Written(path, attrs, by, when) /\ Len(w) = Len(attrs)
  BY WrittenType DEF Whens
<1>3. ASSUME NEW n \in 1..Len(attrs) PROVE x[n] = w[n]
  <2>1. w[n] = [path |-> IF attrs[n].in = "named" THEN Append(path, "sub") ELSE path,
                key |-> attrs[n].key, kind |-> FinalKind(attrs[n].kind, when), by |-> by, nth |-> n]
    BY <1>2, WrittenIs
  <2>2. r[n].key = attrs[n].key /\ r[n].kind = FinalKind(attrs[n].kind, when) /\ r[n].in = attrs[n].in
    <3>1. r[n] = [key |-> attrs[n].key, kind |-> FinalKind(attrs[n].kind, when), in |-> attrs[n].in]
      OBVIOUS
    <3>. QED
      BY <3>1
  <2>3. x[n] = [path |-> IF r[n].in = "named" THEN Append(path, "sub") ELSE path,
                key |-> r[n].key, kind |-> r[n].kind, by |-> by, nth |-> n]
    BY <1>1
  <2>. QED
    BY <2>1, <2>2, <2>3
<1>4. Len(x) = Len(w) /\ \A n \in 1..Len(x) : x[n] = w[n]
  BY <1>1, <1>2, <1>3
<1>5. x = w
  BY <1>4, SameSeq
<1>. QED
  BY <1>1, <1>2, <1>5

\* The base handler formats them and then they are in their places.
LEMMA WrittenBase ==
  ASSUME NEW path \in Seq({"g", "sub"}), NEW attrs \in Seq(Attrs), NEW by \in Nat, NEW when \in Whens
  PROVE  Logs!Placed(path, Logs!JSON(attrs, when), by) = Written(path, attrs, by, when)
<1>1. PICK q \in Seq(Attrs) :
        /\ q = Logs!Resolve(attrs, when) /\ Len(q) = Len(attrs)
        /\ \A n \in 1..Len(attrs) :
             q[n] = [key |-> attrs[n].key, kind |-> IF attrs[n].kind = "valuer" THEN when ELSE attrs[n].kind, in |-> attrs[n].in]
  BY ResolveIs DEF Whens
<1>2. PICK r \in Seq(Attrs) :
        /\ r = Logs!StringifyErrors(q) /\ Len(r) = Len(q)
        /\ \A n \in 1..Len(q) :
             r[n] = [key |-> q[n].key, kind |-> IF q[n].kind = "error" THEN "string" ELSE q[n].kind, in |-> q[n].in]
  BY StringifyIs
<1>3. ASSUME NEW n \in 1..Len(attrs)
      PROVE  r[n] = [key |-> attrs[n].key, kind |-> FinalKind(attrs[n].kind, when), in |-> attrs[n].in]
  <2>1. q[n].key = attrs[n].key /\ q[n].in = attrs[n].in
        /\ q[n].kind = IF attrs[n].kind = "valuer" THEN when ELSE attrs[n].kind
    <3>1. q[n] = [key |-> attrs[n].key, kind |-> IF attrs[n].kind = "valuer" THEN when ELSE attrs[n].kind, in |-> attrs[n].in]
      BY <1>1
    <3>. QED
      BY <3>1
  <2>2. r[n] = [key |-> q[n].key, kind |-> IF q[n].kind = "error" THEN "string" ELSE q[n].kind, in |-> q[n].in]
    BY <1>1, <1>2
  <2>3. (IF q[n].kind = "error" THEN "string" ELSE q[n].kind) = FinalKind(attrs[n].kind, when)
    BY <2>1 DEF FinalKind, Whens
  <2>. QED
    BY <2>1, <2>2, <2>3
<1>4. r = Logs!JSON(attrs, when) /\ Len(r) = Len(attrs)
  BY <1>1, <1>2 DEF Logs!JSON
<1>5. Logs!Placed(path, r, by) = Written(path, attrs, by, when)
  BY <1>3, <1>4, WrittenFinal, ZenonT(60)
<1>. QED
  BY <1>4, <1>5

\* No error is left for the bridge to take out: they are strings by then.
LEMMA WrittenBridge ==
  ASSUME NEW path \in Seq({"g", "sub"}), NEW attrs \in Seq(Attrs), NEW by \in Nat, NEW when \in Whens
  PROVE  Logs!Placed(path, Logs!Bridge(Logs!StringifyErrors(attrs), when), by) = Written(path, attrs, by, when)
<1>1. PICK q \in Seq(Attrs) :
        /\ q = Logs!StringifyErrors(attrs) /\ Len(q) = Len(attrs)
        /\ \A n \in 1..Len(attrs) :
             q[n] = [key |-> attrs[n].key, kind |-> IF attrs[n].kind = "error" THEN "string" ELSE attrs[n].kind, in |-> attrs[n].in]
  BY StringifyIs
<1>2. PICK r \in Seq(Attrs) :
        /\ r = Logs!Resolve(q, when) /\ Len(r) = Len(q)
        /\ \A n \in 1..Len(q) :
             r[n] = [key |-> q[n].key, kind |-> IF q[n].kind = "valuer" THEN when ELSE q[n].kind, in |-> q[n].in]
  BY ResolveIs DEF Whens
<1>3. ASSUME NEW n \in 1..Len(attrs)
      PROVE  /\ r[n] = [key |-> attrs[n].key, kind |-> FinalKind(attrs[n].kind, when), in |-> attrs[n].in]
             /\ r[n].kind # "error"
  <2>1. q[n].key = attrs[n].key /\ q[n].in = attrs[n].in
        /\ q[n].kind = IF attrs[n].kind = "error" THEN "string" ELSE attrs[n].kind
    <3>1. q[n] = [key |-> attrs[n].key, kind |-> IF attrs[n].kind = "error" THEN "string" ELSE attrs[n].kind, in |-> attrs[n].in]
      BY <1>1
    <3>. QED
      BY <3>1
  <2>2. r[n] = [key |-> q[n].key, kind |-> IF q[n].kind = "valuer" THEN when ELSE q[n].kind, in |-> q[n].in]
    BY <1>1, <1>2
  <2>3. (IF q[n].kind = "valuer" THEN when ELSE q[n].kind) = FinalKind(attrs[n].kind, when)
    BY <2>1 DEF FinalKind, Whens
  <2>4. FinalKind(attrs[n].kind, when) # "error"
    BY DEF FinalKind, Whens
  <2>5. r[n] = [key |-> attrs[n].key, kind |-> FinalKind(attrs[n].kind, when), in |-> attrs[n].in]
    BY <2>1, <2>2, <2>3
  <2>. QED
    BY <2>4, <2>5
<1>4. Len(r) = Len(attrs) /\ DOMAIN r = 1..Len(r)
  BY <1>1, <1>2
<1>5. PICK P : P = {i \in DOMAIN r : r[i].kind # "error"}
  OBVIOUS
<1>6. \A i \in 1..Len(r) : i \in P
  BY <1>3, <1>4, <1>5, SMTT(60)
<1>7. Logs!Selected(r, P) = r
  BY <1>6, SelectedAll
<1>8. Logs!Bridge(q, when) = r
  BY <1>2, <1>5, <1>7 DEF Logs!Bridge
<1>9. Logs!Placed(path, r, by) = Written(path, attrs, by, when)
  BY <1>3, <1>4, WrittenFinal, ZenonT(60)
<1>. QED
  BY <1>1, <1>8, <1>9

\* A value that was resolved stays as it is.
LEMMA WrittenResolved ==
  ASSUME NEW path \in Seq({"g", "sub"}), NEW attrs \in Seq(Attrs), NEW by \in Nat, NEW when \in Whens, NEW later \in Whens
  PROVE  Written(path, Logs!Resolve(attrs, when), by, later) = Written(path, attrs, by, when)
<1>1. PICK q \in Seq(Attrs) :
        /\ q = Logs!Resolve(attrs, when) /\ Len(q) = Len(attrs)
        /\ \A n \in 1..Len(attrs) :
             q[n] = [key |-> attrs[n].key, kind |-> IF attrs[n].kind = "valuer" THEN when ELSE attrs[n].kind, in |-> attrs[n].in]
  BY ResolveIs DEF Whens
<1>2. PICK w \in Seq(Items) : w = Written(path, attrs, by, when) /\ Len(w) = Len(attrs)
  BY WrittenType DEF Whens
<1>3. PICK v \in Seq(Items) : v = Written(path, q, by, later) /\ Len(v) = Len(q)
  BY WrittenType DEF Whens
<1>4. ASSUME NEW n \in 1..Len(attrs) PROVE v[n] = w[n]
  <2>1. q[n].key = attrs[n].key /\ q[n].in = attrs[n].in
        /\ q[n].kind = IF attrs[n].kind = "valuer" THEN when ELSE attrs[n].kind
    <3>1. q[n] = [key |-> attrs[n].key, kind |-> IF attrs[n].kind = "valuer" THEN when ELSE attrs[n].kind, in |-> attrs[n].in]
      BY <1>1
    <3>. QED
      BY <3>1
  <2>2. FinalKind(q[n].kind, later) = FinalKind(attrs[n].kind, when)
    BY <2>1 DEF FinalKind, Whens
  <2>3. w[n] = [path |-> IF attrs[n].in = "named" THEN Append(path, "sub") ELSE path,
                key |-> attrs[n].key, kind |-> FinalKind(attrs[n].kind, when), by |-> by, nth |-> n]
    BY <1>2, WrittenIs
  <2>4. n \in 1..Len(q)
    BY <1>1
  <2>5. v[n] = [path |-> IF q[n].in = "named" THEN Append(path, "sub") ELSE path,
                key |-> q[n].key, kind |-> FinalKind(q[n].kind, later), by |-> by, nth |-> n]
    BY <1>3, <2>4, WrittenIs, SMTT(60)
  <2>. QED
    BY <2>1, <2>2, <2>3, <2>5
<1>5. Len(v) = Len(w) /\ \A n \in 1..Len(v) : v[n] = w[n]
  BY <1>1, <1>2, <1>3, <1>4
<1>6. v = w
  BY <1>5, SameSeq
<1>. QED
  BY <1>1, <1>2, <1>3, <1>6

-----------------------------------------------------------------------------
(* What the derivations gave *)

Ops == [attrs : Seq(Attrs), group : {"", "g"}, by : Nat]

\* A sequence and one element more.
LEMMA Longer ==
  ASSUME NEW T, NEW s \in Seq(T), NEW x \in T
  PROVE  \E t \in Seq(T) : /\ t = Append(s, x) /\ Len(t) = Len(s) + 1 /\ t[Len(s) + 1] = x
                           /\ \A i \in 1..Len(s) : t[i] = s[i]
                           /\ Len(s) \in Nat /\ DOMAIN s = 1..Len(s) /\ DOMAIN t = 1..(Len(s) + 1)
<1>1. PICK t : t = Append(s, x)
  OBVIOUS
<1>2. t \in Seq(T) /\ Len(t) = Len(s) + 1 /\ t[Len(s) + 1] = x /\ \A i \in 1..Len(s) : t[i] = s[i]
  BY <1>1, AppendProperties
<1>3. Len(s) \in Nat /\ DOMAIN s = 1..Len(s) /\ DOMAIN t = 1..Len(t)
  BY <1>2
<1>. QED
  BY <1>1, <1>2, <1>3, Zenon

\* A function on 1..n is a sequence.
LEMMA MapSeq ==
  ASSUME NEW T, NEW n \in Nat, NEW f \in [1..n -> T] PROVE f \in Seq(T) /\ Len(f) = n
  OBVIOUS

GroupNames(s) == [i \in DOMAIN s |-> s[i].group]

\* The groups that derivations name.
LEMMA NamesOfOps ==
  ASSUME NEW s \in Seq(Ops)
  PROVE  /\ GroupNames(s) \in Seq({"", "g"}) /\ Len(GroupNames(s)) = Len(s)
         /\ \A i \in 1..Len(s) : GroupNames(s)[i] = s[i].group
<1>1. \A x \in Ops : x.group \in {"", "g"}
  BY Zenon DEF Ops
<1>2. DOMAIN s = 1..Len(s) /\ Len(s) \in Nat /\ \A i \in 1..Len(s) : s[i] \in Ops
  OBVIOUS
<1>3. GroupNames(s) \in [1..Len(s) -> {"", "g"}]
  BY <1>1, <1>2, Zenon DEF GroupNames
<1>4. GroupNames(s) \in Seq({"", "g"}) /\ Len(GroupNames(s)) = Len(s)
  BY <1>2, <1>3, MapSeq
<1>5. \A i \in 1..Len(s) : GroupNames(s)[i] = s[i].group
  BY <1>2, Zenon DEF GroupNames
<1>. QED
  BY <1>4, <1>5

\* When a sequence is another and one element more.
LEMMA AppendIs ==
  ASSUME NEW T, NEW p \in Seq(T), NEW q \in Seq(T), NEW x \in T,
         Len(q) = Len(p) + 1, q[Len(p) + 1] = x, \A i \in 1..Len(p) : q[i] = p[i]
  PROVE  q = Append(p, x)
<1>1. Append(p, x) \in Seq(T) /\ Len(Append(p, x)) = Len(p) + 1 /\ Append(p, x)[Len(p) + 1] = x
      /\ \A i \in 1..Len(p) : Append(p, x)[i] = p[i]
  BY AppendProperties
<1>2. ASSUME NEW i \in 1..Len(q) PROVE q[i] = Append(p, x)[i]
  <2>1. i = Len(p) + 1 \/ i \in 1..Len(p)
    OBVIOUS
  <2>. QED
    BY <1>1, <2>1
<1>. QED
  BY <1>1, <1>2, SameSeq

\* One derivation more.
LEMMA NamesMore ==
  ASSUME NEW s \in Seq(Ops), NEW o \in Ops
  PROVE  GroupNames(Append(s, o)) = Append(GroupNames(s), o.group)
<1>1. PICK v \in Seq(Ops) : /\ v = Append(s, o) /\ Len(v) = Len(s) + 1 /\ v[Len(s) + 1] = o
                            /\ \A i \in 1..Len(s) : v[i] = s[i]
                            /\ Len(s) \in Nat /\ DOMAIN s = 1..Len(s) /\ DOMAIN v = 1..(Len(s) + 1)
  BY Longer
<1>2. PICK T : T = {"", "g"}
  OBVIOUS
<1>3. PICK p \in Seq(T) : p = GroupNames(s) /\ Len(p) = Len(s) /\ \A i \in 1..Len(s) : p[i] = s[i].group
  BY <1>2, NamesOfOps
<1>4. PICK q \in Seq(T) : q = GroupNames(v) /\ Len(q) = Len(v) /\ \A i \in 1..Len(v) : q[i] = v[i].group
  BY <1>2, NamesOfOps
<1>5. o.group \in T
  BY <1>2, Zenon DEF Ops
<1>6. Len(q) = Len(p) + 1 /\ Len(p) + 1 \in 1..Len(v) /\ \A i \in 1..Len(p) : i \in 1..Len(v) /\ i \in 1..Len(s)
  BY <1>1, <1>3, <1>4
<1>7. q[Len(p) + 1] = o.group /\ \A i \in 1..Len(p) : q[i] = p[i]
  BY <1>1, <1>3, <1>4, <1>6, ZenonT(60)
<1>8. q = Append(p, o.group)
  BY <1>5, <1>6, <1>7, AppendIs
<1>. QED
  BY <1>1, <1>3, <1>4, <1>8

\* The groups that are open, one derivation later.
LEMMA GroupsMore ==
  ASSUME NEW ops \in Seq(Ops), NEW o \in Ops
  PROVE  /\ Logs!GroupsOf(ops) \in Seq({"", "g"})
         /\ Logs!GroupsOf(Append(ops, o)) =
              IF o.group = "" THEN Logs!GroupsOf(ops) ELSE Append(Logs!GroupsOf(ops), o.group)
<1>1. PICK t \in Seq(Ops) : /\ t = Append(ops, o) /\ Len(t) = Len(ops) + 1 /\ t[Len(ops) + 1] = o
                            /\ \A i \in 1..Len(ops) : t[i] = ops[i]
                            /\ Len(ops) \in Nat /\ DOMAIN ops = 1..Len(ops) /\ DOMAIN t = 1..(Len(ops) + 1)
  BY Longer
<1>2. PICK P : P = {i \in DOMAIN ops : ops[i].group # ""}
  OBVIOUS
<1>3. PICK Q : Q = {i \in DOMAIN t : t[i].group # ""}
  OBVIOUS
<1>4. \A i \in 1..Len(ops) : i \in P <=> i \in Q
  <2>1. \A i \in 1..Len(ops) : i \in 1..(Len(ops) + 1)
    BY <1>1
  <2>. QED
    BY <1>1, <1>2, <1>3, <2>1, Zenon
<1>5. Len(ops) + 1 \in Q <=> o.group # ""
  <2>1. Len(ops) + 1 \in 1..(Len(ops) + 1)
    BY <1>1
  <2>. QED
    BY <1>1, <1>3, <2>1, Zenon
<1>6. PICK s \in Seq(Ops) : s = Logs!Selected(ops, P)
  BY <1>4, SelectedMore
<1>7. PICK u : u = Logs!Selected(t, Q)
  OBVIOUS
<1>8. u = IF o.group # "" THEN Append(s, o) ELSE s
  <2>1. Logs!Selected(Append(ops, o), Q) =
          IF Len(ops) + 1 \in Q THEN Append(Logs!Selected(ops, P), o) ELSE Logs!Selected(ops, P)
    BY <1>4, SelectedMore
  <2>. QED
    BY <1>1, <1>5, <1>6, <1>7, <2>1, Zenon
<1>9. PICK p \in Seq({"", "g"}) : p = Logs!GroupsOf(ops) /\ Len(p) = Len(s) /\ \A i \in 1..Len(s) : p[i] = s[i].group
  <2>1. Logs!GroupsOf(ops) = GroupNames(s)
    BY <1>2, <1>6, Zenon DEF Logs!GroupsOf, GroupNames
  <2>. QED
    BY <2>1, NamesOfOps
<1>10. CASE o.group = ""
  <2>1. u = s
    BY <1>8, <1>10
  <2>2. Logs!GroupsOf(t) = Logs!GroupsOf(ops)
    BY <1>2, <1>3, <1>6, <1>7, <2>1, Zenon DEF Logs!GroupsOf
  <2>. QED
    BY <1>1, <1>9, <1>10, <2>2
<1>11. CASE o.group # ""
  <2>1. Logs!GroupsOf(t) = GroupNames(Append(s, o))
    BY <1>3, <1>7, <1>8, <1>11, Zenon DEF Logs!GroupsOf, GroupNames
  <2>2. GroupNames(Append(s, o)) = Append(GroupNames(s), o.group)
    BY NamesMore
  <2>3. Logs!GroupsOf(ops) = GroupNames(s)
    BY <1>2, <1>6, Zenon DEF Logs!GroupsOf, GroupNames
  <2>. QED
    BY <1>1, <1>9, <1>11, <2>1, <2>2, <2>3
<1>. QED
  BY <1>10, <1>11

\* No group is open at the root.
LEMMA GroupsNone == Logs!GroupsOf(<<>>) = <<>>
<1>1. PICK P : P = {i \in DOMAIN <<>> : <<>>[i].group # ""}
  OBVIOUS
<1>2. <<>> \in Seq(Ops) /\ \A i \in 1..Len(<<>>) : i \in P
  OBVIOUS
<1>3. Logs!Selected(<<>>, P) = <<>>
  BY <1>2, SelectedAll
<1>4. Logs!GroupsOf(<<>>) = [i \in DOMAIN <<>> |-> <<>>[i].group]
  BY <1>1, <1>3 DEF Logs!GroupsOf
<1>. QED
  BY <1>4

\* What slog says becomes of an attribute.
LEMMA FinalIs ==
  ASSUME NEW path, NEW a \in Attrs, NEW by, NEW nth, NEW when \in Whens
  PROVE  Logs!Final(Logs!At(path, a, by, nth), when) =
           [path |-> IF a.in = "named" THEN Append(path, "sub") ELSE path,
            key |-> a.key, kind |-> FinalKind(a.kind, when), by |-> by, nth |-> nth]
<1>1. PICK p : p = IF a.in = "named" THEN Append(path, "sub") ELSE path
  OBVIOUS
<1>2. PICK x : x = Logs!At(path, a, by, nth)
  OBVIOUS
<1>3. x = [path |-> p, key |-> a.key, kind |-> a.kind, by |-> by, nth |-> nth]
  BY <1>1, <1>2 DEF Logs!At
<1>4. Logs!Final(x, when) = [path |-> p, key |-> a.key, kind |-> FinalKind(a.kind, when), by |-> by, nth |-> nth]
  BY <1>3 DEF Logs!Final, FinalKind
<1>. QED
  BY <1>1, <1>2, <1>4

\* What a call gives, as a set.
FinalSet(path, attrs, by, when) == {Logs!Final(Logs!At(path, attrs[n], by, n), when) : n \in DOMAIN attrs}
WrittenSet(path, attrs, by, when) == {Written(path, attrs, by, when)[n] : n \in 1..Len(attrs)}

\* It is what is written.
LEMMA WrittenRange ==
  ASSUME NEW path, NEW attrs \in Seq(Attrs), NEW by, NEW when \in Whens
  PROVE  FinalSet(path, attrs, by, when) = WrittenSet(path, attrs, by, when)
<1>1. ASSUME NEW n \in 1..Len(attrs)
      PROVE  Logs!Final(Logs!At(path, attrs[n], by, n), when) = Written(path, attrs, by, when)[n]
  <2>1. attrs[n] \in Attrs
    OBVIOUS
  <2>2. Logs!Final(Logs!At(path, attrs[n], by, n), when) =
          [path |-> IF attrs[n].in = "named" THEN Append(path, "sub") ELSE path,
           key |-> attrs[n].key, kind |-> FinalKind(attrs[n].kind, when), by |-> by, nth |-> n]
    BY <2>1, FinalIs, SMTT(60)
  <2>. QED
    BY <2>2, Zenon DEF Written
<1>2. DOMAIN attrs = 1..Len(attrs)
  OBVIOUS
<1>. QED
  BY <1>1, <1>2, Zenon DEF FinalSet, WrittenSet

\* One derivation more gives its own attributes more.
LEMMA GivenMore ==
  ASSUME NEW ops \in Seq(Ops), NEW o \in Ops
  PROVE  Logs!Given(Append(ops, o)) =
           Logs!Given(ops) \cup WrittenSet(Logs!GroupsOf(Append(ops, o)), o.attrs, o.by, "derived")
<1>1. PICK t \in Seq(Ops) : /\ t = Append(ops, o) /\ Len(t) = Len(ops) + 1 /\ t[Len(ops) + 1] = o
                            /\ \A i \in 1..Len(ops) : t[i] = ops[i]
                            /\ Len(ops) \in Nat /\ DOMAIN ops = 1..Len(ops) /\ DOMAIN t = 1..(Len(ops) + 1)
  BY Longer
<1>2. \A i \in 1..Len(ops) : SubSeq(t, 1, i) = SubSeq(ops, 1, i)
  BY <1>1
<1>3. SubSeq(t, 1, Len(ops) + 1) = t
  BY <1>1
<1>4. \A i \in 1..Len(ops) : Logs!GivenBy(t, i) = Logs!GivenBy(ops, i)
  BY <1>1, <1>2, Zenon DEF Logs!GivenBy
<1>5. Logs!GivenBy(t, Len(ops) + 1) = WrittenSet(Logs!GroupsOf(t), o.attrs, o.by, "derived")
  <2>1. o.attrs \in Seq(Attrs) /\ "derived" \in Whens
    BY Zenon DEF Ops, Whens
  <2>2. Logs!GivenBy(t, Len(ops) + 1) = FinalSet(Logs!GroupsOf(t), o.attrs, o.by, "derived")
    BY <1>1, <1>3, Zenon DEF Logs!GivenBy, FinalSet
  <2>. QED
    BY <2>1, <2>2, WrittenRange, Zenon
<1>6. DOMAIN ops = 1..Len(ops) /\ DOMAIN t = 1..(Len(ops) + 1) /\ Len(ops) \in Nat
  BY <1>1
<1>7. 1..(Len(ops) + 1) = 1..Len(ops) \cup {Len(ops) + 1}
  BY <1>6
<1>8. {Logs!GivenBy(t, i) : i \in DOMAIN t} = {Logs!GivenBy(ops, i) : i \in DOMAIN ops} \cup {Logs!GivenBy(t, Len(ops) + 1)}
  BY <1>4, <1>6, <1>7, ZenonT(60)
<1>9. Logs!Given(t) = Logs!Given(ops) \cup Logs!GivenBy(t, Len(ops) + 1)
  BY <1>8, Zenon DEF Logs!Given
<1>. QED
  BY <1>1, <1>5, <1>9

\* The root was given nothing.
LEMMA GivenNone == Logs!Given(<<>>) = {}
  BY DEF Logs!Given

-----------------------------------------------------------------------------
(* Slices and frames *)

Cells == Items \cup {"unused"}
Arrays == Seq(Cells)
Slices == [array : Nat, len : Nat]
Frames == [name : {"g"}, attrs : Slices]
Paths == Seq({"g", "sub"})

\* A slice is within its array and holds attributes.
SliceOK(s, mem) ==
  \/ s.array = 0 /\ s.len = 0
  \/ /\ s.array \in 1..Len(mem) /\ s.len \in 0..Len(mem[s.array])
     /\ \A j \in 1..s.len : mem[s.array][j] \in Items

Elems(s, mem) == IF s.len = 0 THEN <<>> ELSE SubSeq(mem[s.array], 1, s.len)

\* The elements of a sequence.
LEMMA SeqIs ==
  ASSUME NEW T, NEW s \in Seq(T)
  PROVE  Len(s) \in Nat /\ DOMAIN s = 1..Len(s) /\ \A i \in 1..Len(s) : s[i] \in T
  OBVIOUS

\* A prefix of a sequence.
LEMMA PrefixIs ==
  ASSUME NEW T, NEW s \in Seq(T), NEW n \in 0..Len(s), NEW U, \A j \in 1..n : s[j] \in U
  PROVE  /\ SubSeq(s, 1, n) \in Seq(U) /\ Len(SubSeq(s, 1, n)) = n
         /\ \A j \in 1..n : SubSeq(s, 1, n)[j] = s[j]
  OBVIOUS

\* The elements of a slice.
LEMMA ElemsIs ==
  ASSUME NEW mem \in Seq(Arrays), NEW s \in Slices, SliceOK(s, mem)
  PROVE  /\ Elems(s, mem) \in Seq(Items) /\ Len(Elems(s, mem)) = s.len /\ s.len \in Nat
         /\ \A j \in 1..s.len : Elems(s, mem)[j] = mem[s.array][j]
<1>1. s.len \in Nat
  BY DEF Slices
<1>2. CASE s.len = 0
  BY <1>2 DEF Elems
<1>3. CASE s.len # 0
  <2>1. s.array \in 1..Len(mem) /\ s.len \in 0..Len(mem[s.array]) /\ \A j \in 1..s.len : mem[s.array][j] \in Items
    BY <1>3, Zenon DEF SliceOK
  <2>2. PICK a \in Seq(Cells) : a = mem[s.array]
    <3>1. mem[s.array] \in Arrays
      BY <2>1, SeqIs, Zenon
    <3>. QED
      BY <3>1 DEF Arrays
  <2>3. PICK n \in 0..Len(a) : n = s.len
    BY <2>1, <2>2
  <2>4. \A j \in 1..n : a[j] \in Items
    BY <2>1, <2>2, <2>3, Zenon
  <2>5. /\ SubSeq(a, 1, n) \in Seq(Items) /\ Len(SubSeq(a, 1, n)) = n
        /\ \A j \in 1..n : SubSeq(a, 1, n)[j] = a[j]
    BY <2>4, PrefixIs
  <2>6. Elems(s, mem) = SubSeq(a, 1, n)
    BY <1>3, <2>2, <2>3, Zenon DEF Elems
  <2>. QED
    BY <1>1, <2>2, <2>3, <2>5, <2>6, Zenon
<1>. QED
  BY <1>2, <1>3

\* An array more leaves a slice as it is.
LEMMA ElemsLater ==
  ASSUME NEW mem \in Seq(Arrays), NEW x \in Arrays, NEW s \in Slices, SliceOK(s, mem)
  PROVE  SliceOK(s, Append(mem, x)) /\ Elems(s, Append(mem, x)) = Elems(s, mem)
<1>1. PICK bs \in Seq(Arrays) : /\ bs = Append(mem, x) /\ Len(bs) = Len(mem) + 1 /\ bs[Len(mem) + 1] = x
                                /\ \A i \in 1..Len(mem) : bs[i] = mem[i]
                                /\ Len(mem) \in Nat /\ DOMAIN mem = 1..Len(mem) /\ DOMAIN bs = 1..(Len(mem) + 1)
  BY Longer
<1>2. CASE s.array = 0 /\ s.len = 0
  BY <1>1, <1>2, Zenon DEF SliceOK, Elems
<1>3. CASE ~(s.array = 0 /\ s.len = 0)
  <2>1. s.array \in 1..Len(mem) /\ s.len \in 0..Len(mem[s.array]) /\ \A j \in 1..s.len : mem[s.array][j] \in Items
    BY <1>3, Zenon DEF SliceOK
  <2>2. s.array \in 1..Len(bs) /\ bs[s.array] = mem[s.array]
    BY <1>1, <2>1
  <2>3. SliceOK(s, bs)
    BY <2>1, <2>2, Zenon DEF SliceOK
  <2>4. Elems(s, bs) = Elems(s, mem)
    BY <2>2, Zenon DEF Elems
  <2>. QED
    BY <1>1, <2>3, <2>4
<1>. QED
  BY <1>2, <1>3

\* append to a clipped slice.
LEMMA ElemsAppended ==
  ASSUME NEW mem \in Seq(Arrays), NEW s \in Slices, SliceOK(s, mem), NEW xs \in Seq(Items)
  PROVE  \E a \in Arrays, r \in Slices :
           /\ a = Elems(s, mem) \o xs \o Logs!Spare
           /\ r = [array |-> Len(mem) + 1, len |-> s.len + Len(xs)]
           /\ SliceOK(r, Append(mem, a)) /\ Elems(r, Append(mem, a)) = Elems(s, mem) \o xs
<1>1. PICK es \in Seq(Items) : es = Elems(s, mem) /\ Len(es) = s.len /\ s.len \in Nat
  BY ElemsIs
<1>2. PICK c \in Seq(Items) : c = es \o xs /\ Len(c) = Len(es) + Len(xs)
  BY ConcatProperties
<1>3. c \in Seq(Cells) /\ Logs!Spare \in Seq(Cells) /\ Len(Logs!Spare) \in Nat
  BY DEF Cells, Logs!Spare
<1>4. PICK a : a = c \o Logs!Spare
  OBVIOUS
<1>5. a \in Seq(Cells) /\ Len(a) = Len(c) + Len(Logs!Spare) /\ \A j \in 1..Len(c) : a[j] = c[j]
  BY <1>3, <1>4, ConcatProperties
<1>a. a \in Arrays
  BY <1>5 DEF Arrays
<1>6. Len(c) \in 0..Len(a) /\ Len(c) \in Nat /\ Len(mem) + 1 \in Nat
  <2>1. Len(c) \in Nat /\ Len(mem) \in Nat
    BY SeqIs, Zenon
  <2>2. PICK k \in Nat : k = Len(c)
    BY <2>1, Zenon
  <2>3. k \in 0..(k + Len(Logs!Spare))
    BY <1>3
  <2>. QED
    BY <1>5, <2>1, <2>2, <2>3
<1>7. PICK r \in Slices : r = [array |-> Len(mem) + 1, len |-> Len(c)]
  BY <1>6 DEF Slices
<1>8. PICK bs \in Seq(Arrays) : /\ bs = Append(mem, a) /\ Len(bs) = Len(mem) + 1 /\ bs[Len(mem) + 1] = a
                                /\ \A i \in 1..Len(mem) : bs[i] = mem[i]
                                /\ Len(mem) \in Nat /\ DOMAIN mem = 1..Len(mem) /\ DOMAIN bs = 1..(Len(mem) + 1)
  BY <1>a, Longer
<1>9. r.array = Len(mem) + 1 /\ r.len = Len(c)
  BY <1>7
<1>10. r.array \in 1..Len(bs) /\ bs[r.array] = a
  BY <1>8, <1>9
<1>11. \A j \in 1..Len(c) : a[j] \in Items
  BY <1>5, SMTT(60)
<1>12. SliceOK(r, bs)
  BY <1>6, <1>9, <1>10, <1>11, Zenon DEF SliceOK
<1>13. Elems(r, bs) = c
  <2>1. PICK d \in Seq(Items) : d = Elems(r, bs) /\ Len(d) = r.len /\ \A j \in 1..r.len : d[j] = bs[r.array][j]
    BY <1>12, ElemsIs
  <2>2. Len(d) = Len(c) /\ \A j \in 1..Len(d) : d[j] = c[j]
    BY <1>5, <1>9, <1>10, <2>1
  <2>. QED
    BY <2>1, <2>2, SameSeq
<1>14. a = Elems(s, mem) \o xs \o Logs!Spare
  BY <1>1, <1>2, <1>4
<1>15. r = [array |-> Len(mem) + 1, len |-> s.len + Len(xs)]
  BY <1>1, <1>2, <1>7
<1>16. SliceOK(r, Append(mem, a)) /\ Elems(r, Append(mem, a)) = Elems(s, mem) \o xs
  BY <1>1, <1>2, <1>8, <1>12, <1>13
<1>. QED
  BY <1>a, <1>14, <1>15, <1>16

-----------------------------------------------------------------------------
(* What stdout keeps *)

SlicesOK(groups, mem) == \A i \in 1..Len(groups) : SliceOK(groups[i].attrs, mem)
FramesOf(groups, mem) == [i \in DOMAIN groups |-> Elems(groups[i].attrs, mem)]
Flat(groups, mem) == Logs!FlattenSeq(FramesOf(groups, mem))

\* A logger's base and frames come to w.
StdoutKept(base, groups, w, mem) ==
  /\ SlicesOK(groups, mem)
  /\ w = base \o Logs!JSON(Flat(groups, mem), "emitted")

\* The parts of a frame.
LEMMA FrameIs == ASSUME NEW f \in Frames PROVE f.attrs \in Slices /\ f.name = "g"
  BY DEF Frames

\* The elements of the frames.
LEMMA FramesIs ==
  ASSUME NEW mem \in Seq(Arrays), NEW groups \in Seq(Frames), SlicesOK(groups, mem)
  PROVE  /\ FramesOf(groups, mem) \in Seq(Seq(Items)) /\ Len(FramesOf(groups, mem)) = Len(groups)
         /\ \A i \in 1..Len(groups) : FramesOf(groups, mem)[i] = Elems(groups[i].attrs, mem)
<1>1. DOMAIN groups = 1..Len(groups) /\ Len(groups) \in Nat /\ \A i \in 1..Len(groups) : groups[i] \in Frames
  BY SeqIs
<1>2. ASSUME NEW i \in 1..Len(groups) PROVE Elems(groups[i].attrs, mem) \in Seq(Items)
  <2>1. PICK s \in Slices : s = groups[i].attrs
    BY <1>1, FrameIs, Zenon
  <2>2. SliceOK(s, mem)
    BY <2>1, Zenon DEF SlicesOK
  <2>. QED
    BY <2>1, <2>2, ElemsIs
<1>3. FramesOf(groups, mem) \in [1..Len(groups) -> Seq(Items)]
      /\ \A i \in 1..Len(groups) : FramesOf(groups, mem)[i] = Elems(groups[i].attrs, mem)
  BY <1>1, <1>2, Zenon DEF FramesOf
<1>. QED
  BY <1>1, <1>3, MapSeq

\* The frames do not change with what else there is.
LEMMA FramesLater ==
  ASSUME NEW mem \in Seq(Arrays), NEW x \in Arrays, NEW groups \in Seq(Frames), SlicesOK(groups, mem)
  PROVE  SlicesOK(groups, Append(mem, x)) /\ FramesOf(groups, Append(mem, x)) = FramesOf(groups, mem)
<1>1. DOMAIN groups = 1..Len(groups) /\ Len(groups) \in Nat /\ \A i \in 1..Len(groups) : groups[i] \in Frames
  BY SeqIs
<1>2. ASSUME NEW i \in 1..Len(groups)
      PROVE  /\ SliceOK(groups[i].attrs, Append(mem, x))
             /\ Elems(groups[i].attrs, Append(mem, x)) = Elems(groups[i].attrs, mem)
  <2>1. PICK s \in Slices : s = groups[i].attrs
    BY <1>1, FrameIs, Zenon
  <2>2. SliceOK(s, mem)
    BY <2>1, Zenon DEF SlicesOK
  <2>. QED
    BY <2>1, <2>2, ElemsLater
<1>. QED
  BY <1>1, <1>2, Zenon DEF SlicesOK, FramesOf

\* A frame more.
LEMMA FlatMore ==
  ASSUME NEW mem \in Seq(Arrays), NEW groups \in Seq(Frames), SlicesOK(groups, mem),
         NEW f \in Frames, SliceOK(f.attrs, mem)
  PROVE  /\ SlicesOK(Append(groups, f), mem)
         /\ Flat(groups, mem) \in Seq(Items)
         /\ Flat(Append(groups, f), mem) = Flat(groups, mem) \o Elems(f.attrs, mem)
<1>1. PICK more \in Seq(Frames) : /\ more = Append(groups, f) /\ Len(more) = Len(groups) + 1 /\ more[Len(groups) + 1] = f
                                  /\ \A i \in 1..Len(groups) : more[i] = groups[i]
                                  /\ Len(groups) \in Nat /\ DOMAIN groups = 1..Len(groups)
                                  /\ DOMAIN more = 1..(Len(groups) + 1)
  BY Longer
<1>2. SlicesOK(more, mem)
  <2>1. \A i \in 1..(Len(groups) + 1) : i \in 1..Len(groups) \/ i = Len(groups) + 1
    BY <1>1
  <2>. QED
    BY <1>1, <2>1, Zenon DEF SlicesOK
<1>3. PICK T : T = Seq(Items)
  OBVIOUS
<1>4. PICK p \in Seq(T) : /\ p = FramesOf(groups, mem) /\ Len(p) = Len(groups)
                          /\ \A i \in 1..Len(groups) : p[i] = Elems(groups[i].attrs, mem)
  BY <1>3, FramesIs
<1>5. PICK q \in Seq(T) : /\ q = FramesOf(more, mem) /\ Len(q) = Len(more)
                          /\ \A i \in 1..Len(more) : q[i] = Elems(more[i].attrs, mem)
  BY <1>2, <1>3, FramesIs
<1>6. PICK e \in T : e = Elems(f.attrs, mem)
  BY <1>3, FrameIs, ElemsIs
<1>7. Len(q) = Len(p) + 1 /\ Len(p) + 1 \in 1..Len(more) /\ \A i \in 1..Len(p) : i \in 1..Len(more) /\ i \in 1..Len(groups)
  BY <1>1, <1>4, <1>5
<1>8. q[Len(p) + 1] = e /\ \A i \in 1..Len(p) : q[i] = p[i]
  BY <1>1, <1>4, <1>5, <1>6, <1>7, ZenonT(60)
<1>9. q = Append(p, e)
  BY <1>7, <1>8, AppendIs
<1>10. Logs!FlattenSeq(p) \in Seq(Items) /\ Logs!FlattenSeq(Append(p, e)) = Logs!FlattenSeq(p) \o e
  BY <1>3, FlattenMore
<1>. QED
  BY <1>1, <1>2, <1>4, <1>5, <1>6, <1>9, <1>10, ZenonT(60) DEF Flat

\* No frames.
LEMMA FlatNone == ASSUME NEW mem PROVE SlicesOK(<<>>, mem) /\ Flat(<<>>, mem) = <<>>
<1>1. FramesOf(<<>>, mem) = <<>>
  BY DEF FramesOf
<1>. QED
  BY <1>1, FlattenNone DEF Flat, SlicesOK

\* They hold attributes in their places.
LEMMA FlatIs ==
  ASSUME NEW mem \in Seq(Arrays), NEW groups \in Seq(Frames), SlicesOK(groups, mem)
  PROVE  Flat(groups, mem) \in Seq(Items)
<1>1. PICK f \in Frames : f = [name |-> "g", attrs |-> [array |-> 0, len |-> 0]]
  BY DEF Frames, Slices
<1>2. SliceOK(f.attrs, mem)
  BY <1>1 DEF SliceOK
<1>. QED
  BY <1>2, FlatMore

-----------------------------------------------------------------------------

\* An array more changes nothing of what stdout keeps.
LEMMA KeptLater ==
  ASSUME NEW mem \in Seq(Arrays), NEW x \in Arrays, NEW groups \in Seq(Frames), NEW base, NEW w,
         StdoutKept(base, groups, w, mem)
  PROVE  StdoutKept(base, groups, w, Append(mem, x))
<1>1. SlicesOK(groups, mem)
  BY DEF StdoutKept
<1>2. SlicesOK(groups, Append(mem, x)) /\ FramesOf(groups, Append(mem, x)) = FramesOf(groups, mem)
  BY <1>1, FramesLater
<1>. QED
  BY <1>2, Zenon DEF StdoutKept, Flat

\* Above the groups the base takes the attributes.
LEMMA KeptBase ==
  ASSUME NEW mem \in Seq(Arrays), NEW base \in Seq(Items), NEW w \in Seq(Items), NEW y \in Seq(Items),
         StdoutKept(base, <<>>, w, mem)
  PROVE  StdoutKept(base \o y, <<>>, w \o y, mem)
<1>1. Flat(<<>>, mem) = <<>> /\ SlicesOK(<<>>, mem)
  BY FlatNone
<1>2. PICK e \in Seq(Items) : e = <<>>
  <2>1. <<>> \in Seq(Items)
    OBVIOUS
  <2>. QED
    BY <2>1, Zenon
<1>3. PICK j \in Seq(Items) : j = Logs!JSON(e, "emitted") /\ Len(j) = Len(e)
  BY JSONIs
<1>4. j = <<>>
  BY <1>2, <1>3
<1>5. Logs!JSON(Flat(<<>>, mem), "emitted") = <<>>
  BY <1>1, <1>2, <1>3, <1>4
<1>6. w = base \o <<>>
  BY <1>5, Zenon DEF StdoutKept
<1>7. w \o y = (base \o y) \o <<>>
  <2>1. \A s \in Seq(Items) : s \o <<>> = s
    OBVIOUS
  <2>2. base \o y \in Seq(Items)
    BY ConcatProperties
  <2>. QED
    BY <1>6, <2>1, <2>2, Zenon
<1>. QED
  BY <1>1, <1>5, <1>7, Zenon DEF StdoutKept

\* Joining three sequences.
LEMMA ConcatAssoc ==
  ASSUME NEW T, NEW a \in Seq(T), NEW b \in Seq(T), NEW c \in Seq(T)
  PROVE  (a \o b) \o c = a \o (b \o c)
<1>1. a \o b \in Seq(T) /\ b \o c \in Seq(T) /\ Len(a \o b) = Len(a) + Len(b) /\ Len(b \o c) = Len(b) + Len(c)
  BY ConcatProperties
<1>. QED
  BY <1>1, SMTT(60)

\* The same, of attributes in their places.
LEMMA ItemsAssoc == \A a, b, c \in Seq(Items) : (a \o b) \o c = a \o (b \o c)
<1>. SUFFICES ASSUME NEW a \in Seq(Items), NEW b \in Seq(Items), NEW c \in Seq(Items)
              PROVE  (a \o b) \o c = a \o (b \o c)
  OBVIOUS
<1>. QED
  BY ConcatAssoc, SMTT(60)

\* More in the frames.
LEMMA KeptJoin ==
  ASSUME NEW base \in Seq(Items), NEW fl \in Seq(Items), NEW xs \in Seq(Items)
  PROVE  (base \o Logs!JSON(fl, "emitted")) \o Logs!JSON(xs, "emitted") = base \o Logs!JSON(fl \o xs, "emitted")
<1>1. PICK a \in Seq(Items) : a = Logs!JSON(fl, "emitted")
  BY JSONIs
<1>2. PICK b \in Seq(Items) : b = Logs!JSON(xs, "emitted")
  BY JSONIs
<1>3. Logs!JSON(fl \o xs, "emitted") = a \o b
  BY <1>1, <1>2, JSONJoin
<1>4. (base \o a) \o b = base \o (a \o b)
  BY ConcatAssoc, SMTT(60)
<1>. QED
  BY <1>1, <1>2, <1>3, <1>4

\* A new group has an empty frame.
LEMMA KeptGroup ==
  ASSUME NEW mem \in Seq(Arrays), NEW base \in Seq(Items), NEW groups \in Seq(Frames), NEW w,
         NEW f \in Frames, f.attrs = [array |-> 0, len |-> 0], StdoutKept(base, groups, w, mem)
  PROVE  StdoutKept(base, Append(groups, f), w, mem)
<1>1. SliceOK(f.attrs, mem) /\ Elems(f.attrs, mem) = <<>>
  BY DEF SliceOK, Elems
<1>2. SlicesOK(groups, mem) /\ w = base \o Logs!JSON(Flat(groups, mem), "emitted")
  BY Zenon DEF StdoutKept
<1>3. PICK fl \in Seq(Items) : fl = Flat(groups, mem)
  BY <1>2, FlatIs
<1>4. SlicesOK(Append(groups, f), mem) /\ Flat(Append(groups, f), mem) = Flat(groups, mem) \o Elems(f.attrs, mem)
  BY <1>1, <1>2, FlatMore, SMTT(60)
<1>5. fl \o <<>> = fl
  OBVIOUS
<1>6. Flat(Append(groups, f), mem) = fl
  BY <1>1, <1>3, <1>4, <1>5, Zenon
<1>. QED
  BY <1>2, <1>3, <1>4, <1>6, Zenon DEF StdoutKept

\* In the last group's frame.
LEMMA KeptFrame ==
  ASSUME NEW mem \in Seq(Arrays), NEW base \in Seq(Items), NEW front \in Seq(Frames), NEW f \in Frames, NEW w,
         StdoutKept(base, Append(front, f), w, mem), SlicesOK(front, mem), SliceOK(f.attrs, mem), NEW xs \in Seq(Items),
         NEW a \in Arrays, NEW g \in Frames, SliceOK(g.attrs, Append(mem, a)),
         Elems(g.attrs, Append(mem, a)) = Elems(f.attrs, mem) \o xs
  PROVE  StdoutKept(base, Append(front, g), w \o Logs!JSON(xs, "emitted"), Append(mem, a))
<1>1. PICK after \in Seq(Arrays) : after = Append(mem, a)
  BY Longer
<1>2. SlicesOK(front, after) /\ FramesOf(front, after) = FramesOf(front, mem)
  BY <1>1, FramesLater
<1>3. PICK fl \in Seq(Items) : fl = Flat(front, mem)
  BY FlatIs
<1>4. Flat(front, after) = fl
  BY <1>2, <1>3, Zenon DEF Flat
<1>5. PICK e \in Seq(Items) : e = Elems(f.attrs, mem)
  BY FrameIs, ElemsIs
<1>6. Flat(Append(front, f), mem) = fl \o e
  BY <1>3, <1>5, FlatMore
<1>7. SlicesOK(Append(front, g), after) /\ Flat(Append(front, g), after) = fl \o (e \o xs)
  BY <1>1, <1>2, <1>4, <1>5, FlatMore
<1>8. PICK fe \in Seq(Items) : fe = fl \o e
  BY ConcatProperties
<1>9. fl \o (e \o xs) = fe \o xs
  <2>1. (fl \o e) \o xs = fl \o (e \o xs)
    BY ItemsAssoc, ZenonT(60)
  <2>. QED
    BY <1>8, <2>1, Zenon
<1>10. w = base \o Logs!JSON(fe, "emitted")
  BY <1>6, <1>8, Zenon DEF StdoutKept
<1>11. w \o Logs!JSON(xs, "emitted") = base \o Logs!JSON(fe \o xs, "emitted")
  BY <1>10, KeptJoin, ZenonT(60)
<1>. QED
  BY <1>1, <1>7, <1>9, <1>11, Zenon DEF StdoutKept

-----------------------------------------------------------------------------
(* What is written, and that each attribute is written once *)

SetOf(w) == {w[n] : n \in 1..Len(w)}
Distinct(w) == \A m, n \in 1..Len(w) : w[m] = w[n] => m = n

\* Two sequences one after the other: what they have, and that they have it once.
LEMMA JoinSet ==
  ASSUME NEW a \in Seq(Items), NEW b \in Seq(Items)
  PROVE  /\ a \o b \in Seq(Items)
         /\ SetOf(a \o b) = SetOf(a) \cup SetOf(b)
         /\ Distinct(a) /\ Distinct(b) /\ (\A x \in SetOf(a) : x \notin SetOf(b)) => Distinct(a \o b)
<1>1. PICK c \in Seq(Items) : c = a \o b /\ Len(c) = Len(a) + Len(b)
  BY ConcatProperties
<1>2. \A i \in 1..Len(a) : c[i] = a[i] /\ i \in 1..Len(c)
  BY <1>1
<1>3. \A i \in 1..Len(b) : c[Len(a) + i] = b[i] /\ Len(a) + i \in 1..Len(c)
  BY <1>1
<1>4. \A i \in 1..Len(c) : i \in 1..Len(a) \/ (i - Len(a) \in 1..Len(b) /\ c[i] = b[i - Len(a)])
  BY <1>1
<1>5. SetOf(c) = SetOf(a) \cup SetOf(b)
  <2>1. ASSUME NEW x \in SetOf(c) PROVE x \in SetOf(a) \cup SetOf(b)
    <3>1. PICK i \in 1..Len(c) : x = c[i]
      BY Zenon DEF SetOf
    <3>. QED
      BY <1>2, <1>4, <3>1, Zenon DEF SetOf
  <2>2. SetOf(a) \subseteq SetOf(c)
    BY <1>2, Zenon DEF SetOf
  <2>3. SetOf(b) \subseteq SetOf(c)
    BY <1>3, Zenon DEF SetOf
  <2>. QED
    BY <2>1, <2>2, <2>3, Zenon
<1>6. ASSUME Distinct(a), Distinct(b), \A x \in SetOf(a) : x \notin SetOf(b) PROVE Distinct(c)
  <2>1. \A i \in 1..Len(a), j \in 1..Len(b) : a[i] # b[j]
    BY <1>6, Zenon DEF SetOf
  <2>2. SUFFICES ASSUME NEW m \in 1..Len(c), NEW n \in 1..Len(c), c[m] = c[n] PROVE m = n
    BY Zenon DEF Distinct
  <2>3. CASE m \in 1..Len(a) /\ n \in 1..Len(a)
    BY <1>2, <1>6, <2>2, <2>3, Zenon DEF Distinct
  <2>4. CASE m \notin 1..Len(a) /\ n \notin 1..Len(a)
    <3>1. m - Len(a) \in 1..Len(b) /\ n - Len(a) \in 1..Len(b) /\ b[m - Len(a)] = b[n - Len(a)]
      BY <1>4, <2>2, <2>4, Zenon
    <3>2. m - Len(a) = n - Len(a)
      BY <1>6, <3>1, Zenon DEF Distinct
    <3>3. Len(a) \in Nat
      BY SeqIs, Zenon
    <3>. QED
      BY <3>2, <3>3
  <2>5. CASE m \in 1..Len(a) /\ n \notin 1..Len(a)
    BY <1>2, <1>4, <2>1, <2>2, <2>5, Zenon
  <2>6. CASE m \notin 1..Len(a) /\ n \in 1..Len(a)
    BY <1>2, <1>4, <2>1, <2>2, <2>6, Zenon
  <2>. QED
    BY <2>3, <2>4, <2>5, <2>6, Zenon
<1>. QED
  BY <1>1, <1>5, <1>6, Zenon

\* An attribute's place: its group or a group of its own in it.
Place(path, in) == IF in = "named" THEN Append(path, "sub") ELSE path

\* A call's attributes, in their places.
IsWritten(y, path, attrs, by) ==
  /\ y \in Seq(Items) /\ Len(y) = Len(attrs) /\ Distinct(y)
  /\ \A n \in 1..Len(y) : y[n].by = by /\ y[n].path = Place(path, attrs[n].in) /\ y[n].key = attrs[n].key /\ y[n].nth = n

\* What is written of a call is that.
LEMMA WrittenSetIs ==
  ASSUME NEW path \in Paths, NEW attrs \in Seq(Attrs), NEW by \in Nat, NEW when \in Whens
  PROVE  /\ IsWritten(Written(path, attrs, by, when), path, attrs, by)
         /\ SetOf(Written(path, attrs, by, when)) = WrittenSet(path, attrs, by, when)
<1>1. PICK w \in Seq(Items) : w = Written(path, attrs, by, when) /\ Len(w) = Len(attrs)
  BY WrittenType DEF Whens, Paths
<1>2. ASSUME NEW n \in 1..Len(attrs)
      PROVE  w[n].by = by /\ w[n].path = Place(path, attrs[n].in) /\ w[n].key = attrs[n].key /\ w[n].nth = n
  <2>1. PICK p : p = Place(path, attrs[n].in)
    OBVIOUS
  <2>2. w[n] = [path |-> IF attrs[n].in = "named" THEN Append(path, "sub") ELSE path,
                key |-> attrs[n].key, kind |-> FinalKind(attrs[n].kind, when), by |-> by, nth |-> n]
    BY <1>1, WrittenIs
  <2>3. w[n] = [path |-> p, key |-> attrs[n].key, kind |-> FinalKind(attrs[n].kind, when), by |-> by, nth |-> n]
    BY <2>1, <2>2 DEF Place
  <2>. QED
    BY <2>1, <2>3
<1>3. Distinct(w)
  <2>1. SUFFICES ASSUME NEW m \in 1..Len(w), NEW n \in 1..Len(w), w[m] = w[n] PROVE m = n
    BY Zenon DEF Distinct
  <2>2. w[m].nth = m /\ w[n].nth = n
    BY <1>1, <1>2, Zenon
  <2>. QED
    BY <2>1, <2>2, Zenon
<1>4. SetOf(w) = WrittenSet(path, attrs, by, when)
  BY <1>1, Zenon DEF SetOf, WrittenSet
<1>5. IsWritten(w, path, attrs, by)
  BY <1>1, <1>2, <1>3, Zenon DEF IsWritten
<1>. QED
  BY <1>1, <1>4, <1>5, Zenon

-----------------------------------------------------------------------------
(* What a logger has been given *)

\* The number of the next derivation is new.
LEMMA NextNumber ==
  ASSUME NEW n \in Nat
  PROVE  n + 1 \in Nat /\ n + 1 \notin 1..n /\ n + 1 \in 1..(n + 1) /\ \A k \in 1..n : k \in 1..(n + 1)
  OBVIOUS

\* Where something may be that was written before the groups became path.
Within(p, path) == p \in Paths /\ (Len(p) <= Len(path) \/ (Len(p) = Len(path) + 1 /\ p[Len(p)] = "sub"))

Groups == Seq({"g"})

\* Groups are a place.
LEMMA GroupsArePaths == Groups \subseteq Paths
  BY DEF Groups, Paths

\* An attribute is in its logger's groups, or in its own group in them.
LEMMA PlaceIs ==
  ASSUME NEW path \in Groups, NEW in
  PROVE  /\ Place(path, in) \in Paths /\ Within(Place(path, in), path)
         /\ Place(path, in) = path <=> in # "named"
<1>1. path \in Paths
  BY GroupsArePaths, Zenon
<1>2. PICK p : p = Append(path, "sub")
  OBVIOUS
<1>3. p \in Paths /\ Len(p) = Len(path) + 1 /\ p[Len(path) + 1] = "sub" /\ Len(path) \in Nat
  BY <1>1, <1>2 DEF Paths
<1>4. Within(p, path) /\ Within(path, path)
  BY <1>1, <1>3 DEF Within
<1>5. p # path
  BY <1>3
<1>. QED
  BY <1>1, <1>2, <1>3, <1>4, <1>5, Zenon DEF Place

\* A group more: nothing is in it yet.
LEMMA WithinMore ==
  ASSUME NEW path \in Groups, NEW p, Within(p, path)
  PROVE  Append(path, "g") \in Groups /\ Within(p, Append(path, "g")) /\ p # Append(path, "g")
<1>1. PICK q : q = Append(path, "g")
  OBVIOUS
<1>2. q \in Groups /\ Len(q) = Len(path) + 1 /\ q[Len(path) + 1] = "g" /\ Len(path) \in Nat
  BY <1>1 DEF Groups
<1>3. p \in Paths /\ Len(p) \in Nat /\ (Len(p) <= Len(path) \/ (Len(p) = Len(path) + 1 /\ p[Len(p)] = "sub"))
  BY DEF Within, Paths
<1>4. Within(p, q)
  BY <1>2, <1>3 DEF Within
<1>5. p # q
  <2>1. SUFFICES ASSUME p = q PROVE FALSE
    OBVIOUS
  <2>2. Len(p) = Len(path) + 1 /\ p[Len(path) + 1] = "g"
    BY <1>2, <2>1, Zenon
  <2>. QED
    BY <1>2, <1>3, <2>2
<1>. QED
  BY <1>1, <1>2, <1>4, <1>5, Zenon

\* w is what the derivations gave, each attribute once.
Agrees(path, w, ops, last) ==
  /\ path = Logs!GroupsOf(ops)
  /\ SetOf(w) = Logs!Given(ops)
  /\ Distinct(w)
  /\ \A x \in SetOf(w) : x.by \in 1..last /\ Within(x.path, path)

\* It stays so with another logger.
LEMMA AgreesLater ==
  ASSUME NEW path, NEW w, NEW ops, NEW last \in Nat, Agrees(path, w, ops, last)
  PROVE  Agrees(path, w, ops, last + 1)
<1>1. \A n \in 1..last : n \in 1..(last + 1)
  OBVIOUS
<1>. QED
  BY <1>1, Zenon DEF Agrees

\* With attributes.
LEMMA AgreesMore ==
  ASSUME NEW path \in Groups, NEW w \in Seq(Items), NEW ops \in Seq(Ops), NEW last \in Nat,
         Agrees(path, w, ops, last), NEW attrs \in Seq(Attrs), NEW o \in Ops,
         o.attrs = attrs, o.group = "", o.by = last + 1
  PROVE  Agrees(path, w \o Written(path, attrs, last + 1, "derived"), Append(ops, o), last + 1)
<1>1. path \in Paths /\ "derived" \in Whens
  BY GroupsArePaths, Zenon DEF Whens
<1>2. PICK by \in Nat : by = last + 1
  BY NextNumber, Zenon
<1>3. PICK y : y = Written(path, attrs, by, "derived")
  OBVIOUS
<1>4. SetOf(y) = WrittenSet(path, attrs, by, "derived") /\ IsWritten(y, path, attrs, by)
  BY <1>1, <1>3, WrittenSetIs, Zenon
<1>5. ASSUME NEW x \in SetOf(y) PROVE x.by = by /\ Within(x.path, path)
  <2>1. PICK n \in 1..Len(y) : x = y[n]
    BY Zenon DEF SetOf
  <2>2. PICK in : in = attrs[n].in
    OBVIOUS
  <2>3. x.by = by /\ x.path = Place(path, in)
    BY <1>4, <2>1, <2>2, Zenon DEF IsWritten
  <2>. QED
    BY <2>3, PlaceIs, ZenonT(60)
<1>6. by \notin 1..last /\ by \in 1..(last + 1) /\ \A n \in 1..last : n \in 1..(last + 1)
  BY <1>2, NextNumber, Zenon
<1>7. \A x \in SetOf(w) : x \notin SetOf(y)
  BY <1>5, <1>6, Zenon DEF Agrees
<1>8. SetOf(w \o y) = SetOf(w) \cup SetOf(y) /\ Distinct(w \o y)
  BY <1>4, <1>7, JoinSet, Zenon DEF Agrees, IsWritten
<1>9. Logs!GroupsOf(Append(ops, o)) = path
  BY GroupsMore, Zenon DEF Agrees
<1>10. Logs!Given(Append(ops, o)) = Logs!Given(ops) \cup WrittenSet(path, attrs, by, "derived")
  BY <1>2, <1>9, GivenMore, Zenon
<1>11. SetOf(w \o y) = Logs!Given(Append(ops, o))
  BY <1>4, <1>8, <1>10, Zenon DEF Agrees
<1>12. \A x \in SetOf(w \o y) : x.by \in 1..(last + 1) /\ Within(x.path, path)
  BY <1>5, <1>6, <1>8, Zenon DEF Agrees
<1>. QED
  BY <1>2, <1>3, <1>8, <1>9, <1>11, <1>12, Zenon DEF Agrees

\* With a group.
LEMMA AgreesGroup ==
  ASSUME NEW path \in Groups, NEW w \in Seq(Items), NEW ops \in Seq(Ops), NEW last \in Nat,
         Agrees(path, w, ops, last), NEW o \in Ops, o.attrs = <<>>, o.group = "g"
  PROVE  Agrees(Append(path, "g"), w, Append(ops, o), last + 1)
<1>1. Logs!GroupsOf(Append(ops, o)) = Append(path, "g")
  <2>1. o.group # ""
    OBVIOUS
  <2>. QED
    BY <2>1, GroupsMore, Zenon DEF Agrees
<1>2. PICK p : p = Logs!GroupsOf(Append(ops, o))
  OBVIOUS
<1>3. WrittenSet(p, o.attrs, o.by, "derived") = {}
  BY DEF WrittenSet
<1>4. Logs!Given(Append(ops, o)) = Logs!Given(ops)
  BY <1>2, <1>3, GivenMore, Zenon
<1>5. \A n \in 1..last : n \in 1..(last + 1)
  OBVIOUS
<1>6. \A x \in SetOf(w) : x.by \in 1..(last + 1) /\ Within(x.path, Append(path, "g"))
  BY <1>5, WithinMore, Zenon DEF Agrees
<1>. QED
  BY <1>1, <1>4, <1>6, Zenon DEF Agrees

-----------------------------------------------------------------------------
(* Which keys are taken *)

TakenBy(S, path) == \E x \in S : x.path = path /\ x.key = "user"
PresetOK(preset, path, w) == "user" \in preset <=> TakenBy(SetOf(w), path)

\* collectSameLevelKeys finds the key where an attribute has it at this level.
LEMMA SameLevel ==
  ASSUME NEW path \in Groups, NEW attrs \in Seq(Attrs), NEW by \in Nat, NEW when \in Whens
  PROVE  "user" \in Logs!SameLevelKeys(attrs) <=> TakenBy(SetOf(Written(path, attrs, by, when)), path)
<1>1. path \in Paths
  BY GroupsArePaths, Zenon
<1>2. PICK y : y = Written(path, attrs, by, when)
  OBVIOUS
<1>3. Len(y) = Len(attrs)
      /\ \A n \in 1..Len(attrs) : y[n].path = Place(path, attrs[n].in) /\ y[n].key = attrs[n].key
  <2>1. IsWritten(y, path, attrs, by)
    BY <1>1, <1>2, WrittenSetIs, Zenon
  <2>. QED
    BY <2>1, Zenon DEF IsWritten
<1>4. DOMAIN attrs = 1..Len(attrs)
  BY SeqIs, Zenon
<1>5. "user" \in Logs!SameLevelKeys(attrs) <=> \E n \in 1..Len(attrs) : attrs[n].in # "named" /\ attrs[n].key = "user"
  <2>1. "sub" # "user"
    OBVIOUS
  <2>2. Logs!SameLevelKeys(attrs) = {IF attrs[n].in = "named" THEN "sub" ELSE attrs[n].key : n \in 1..Len(attrs)}
    BY <1>4, Zenon DEF Logs!SameLevelKeys, Logs!Range
  <2>. QED
    BY <2>1, <2>2, Zenon
<1>6. TakenBy(SetOf(y), path) <=> \E n \in 1..Len(attrs) : y[n].path = path /\ y[n].key = "user"
  BY <1>3, Zenon DEF TakenBy, SetOf
<1>7. \A n \in 1..Len(attrs) : y[n].path = path <=> attrs[n].in # "named"
  BY <1>3, PlaceIs, ZenonT(60)
<1>. QED
  BY <1>2, <1>3, <1>5, <1>6, <1>7, Zenon

\* With attributes the keys at the level are still known.
LEMMA PresetMore ==
  ASSUME NEW path \in Groups, NEW w \in Seq(Items), NEW preset, PresetOK(preset, path, w),
         NEW attrs \in Seq(Attrs), NEW by \in Nat
  PROVE  PresetOK(preset \cup Logs!SameLevelKeys(attrs), path, w \o Written(path, attrs, by, "derived"))
<1>1. path \in Paths /\ "derived" \in Whens
  BY GroupsArePaths, Zenon DEF Whens
<1>2. PICK y \in Seq(Items) : y = Written(path, attrs, by, "derived")
  BY <1>1, WrittenSetIs, Zenon DEF IsWritten
<1>3. "user" \in Logs!SameLevelKeys(attrs) <=> TakenBy(SetOf(y), path)
  BY <1>1, <1>2, SameLevel, Zenon
<1>4. SetOf(w \o y) = SetOf(w) \cup SetOf(y)
  BY JoinSet, Zenon
<1>. QED
  BY <1>2, <1>3, <1>4, Zenon DEF PresetOK, TakenBy

\* A new group has no keys.
LEMMA PresetGroup ==
  ASSUME NEW path \in Groups, NEW w, NEW ops, NEW last, Agrees(path, w, ops, last)
  PROVE  PresetOK({}, Append(path, "g"), w)
<1>1. \A x \in SetOf(w) : x.path # Append(path, "g")
  BY WithinMore, Zenon DEF Agrees
<1>. QED
  BY <1>1, Zenon DEF PresetOK, TakenBy

\* A sequence that is not empty: what is before its last element, and that one.
LEMMA SplitLast ==
  ASSUME NEW T, NEW s \in Seq(T), s # <<>>
  PROVE  \E front \in Seq(T) : /\ Len(s) \in 1..Len(s) /\ Len(front) + 1 = Len(s) /\ s = Append(front, s[Len(s)])
                               /\ \A i \in 1..Len(front) : front[i] = s[i]
<1>1. Len(s) \in Nat /\ Len(s) # 0
  OBVIOUS
<1>2. PICK n \in Nat : n + 1 = Len(s)
  <2>1. Len(s) - 1 \in Nat /\ (Len(s) - 1) + 1 = Len(s)
    BY <1>1
  <2>. QED
    BY <2>1, Zenon
<1>3. n \in 0..Len(s) /\ \A j \in 1..n : s[j] \in T
  BY <1>2
<1>4. PICK front \in Seq(T) : Len(front) = n /\ \A j \in 1..n : front[j] = s[j]
  BY <1>3, PrefixIs, ZenonT(60)
<1>5. s[Len(s)] \in T /\ Len(s) \in 1..Len(s)
  BY <1>1
<1>6. s = Append(front, s[Len(s)])
  BY <1>2, <1>4, <1>5, AppendIs
<1>. QED
  BY <1>2, <1>4, <1>5, <1>6, Zenon

\* Another slice for a frame.
LEMMA Reframed ==
  ASSUME NEW f \in Frames, NEW r \in Slices
  PROVE  /\ [f EXCEPT !.attrs = r] \in Frames
         /\ [f EXCEPT !.attrs = r].attrs = r /\ [f EXCEPT !.attrs = r].name = f.name
  BY DEF Frames

\* Another element in the last place.
Replaced(t, n, y) == [t EXCEPT ![n] = y]

\* Only the last element changes.
LEMMA LastReplaced ==
  ASSUME NEW T, NEW front \in Seq(T), NEW x \in T, NEW y \in T
  PROVE  Replaced(Append(front, x), Len(front) + 1, y) = Append(front, y)
<1>1. PICK t \in Seq(T) : /\ t = Append(front, x) /\ Len(t) = Len(front) + 1 /\ t[Len(front) + 1] = x
                          /\ \A i \in 1..Len(front) : t[i] = front[i]
                          /\ Len(front) \in Nat /\ DOMAIN front = 1..Len(front) /\ DOMAIN t = 1..(Len(front) + 1)
  BY Longer, ZenonT(60)
<1>2. PICK n \in Nat : n = Len(front) + 1
  BY <1>1
<1>3. PICK u : u = [t EXCEPT ![n] = y]
  OBVIOUS
<1>4. u \in Seq(T) /\ Len(u) = Len(t) /\ u[n] = y /\ \A i \in 1..Len(t) : i # n => u[i] = t[i]
  <2>1. n \in 1..Len(t) /\ Len(t) \in Nat /\ DOMAIN t = 1..Len(t) /\ \A i \in 1..Len(t) : t[i] \in T
    BY <1>1, <1>2, SeqIs
  <2>2. u = [i \in 1..Len(t) |-> IF i = n THEN y ELSE t[i]]
    BY <1>3, <2>1, ZenonT(60)
  <2>3. u \in [1..Len(t) -> T] /\ u[n] = y /\ \A i \in 1..Len(t) : i # n => u[i] = t[i]
    BY <2>1, <2>2, Zenon
  <2>. QED
    BY <2>1, <2>3, MapSeq, Zenon
<1>5. Len(u) = Len(front) + 1 /\ u[Len(front) + 1] = y /\ \A i \in 1..Len(front) : u[i] = front[i]
  BY <1>1, <1>2, <1>4
<1>6. u = Append(front, y)
  BY <1>4, <1>5, AppendIs
<1>. QED
  BY <1>1, <1>2, <1>3, <1>6, Zenon DEF Replaced

\* The slices of the frames before the last, and of the last.
LEMMA LastKept ==
  ASSUME NEW mem \in Seq(Arrays), NEW front \in Seq(Frames), NEW f \in Frames, SlicesOK(Append(front, f), mem)
  PROVE  SlicesOK(front, mem) /\ SliceOK(f.attrs, mem)
<1>1. PICK more \in Seq(Frames) : /\ more = Append(front, f) /\ Len(more) = Len(front) + 1 /\ more[Len(front) + 1] = f
                                  /\ \A i \in 1..Len(front) : more[i] = front[i]
                                  /\ Len(front) \in Nat /\ DOMAIN front = 1..Len(front)
                                  /\ DOMAIN more = 1..(Len(front) + 1)
  BY Longer, ZenonT(60)
<1>2. Len(front) + 1 \in 1..Len(more) /\ \A i \in 1..Len(front) : i \in 1..Len(more)
  BY <1>1
<1>. QED
  BY <1>1, <1>2, Zenon DEF SlicesOK

\* The names of the groups.
LEMMA NamesIs ==
  ASSUME NEW groups \in Seq(Frames)
  PROVE  /\ Logs!Names(groups) \in Groups /\ Len(Logs!Names(groups)) = Len(groups)
         /\ \A i \in 1..Len(groups) : Logs!Names(groups)[i] = "g"
<1>1. DOMAIN groups = 1..Len(groups) /\ Len(groups) \in Nat /\ \A i \in 1..Len(groups) : groups[i] \in Frames
  BY SeqIs, Zenon
<1>2. \A i \in 1..Len(groups) : groups[i].name = "g" /\ groups[i].name \in {"g"}
  BY <1>1, FrameIs, Zenon
<1>3. PICK r : r = Logs!Names(groups)
  OBVIOUS
<1>4. r \in [1..Len(groups) -> {"g"}] /\ \A i \in 1..Len(groups) : r[i] = "g"
  BY <1>1, <1>2, <1>3, Zenon DEF Logs!Names
<1>. QED
  BY <1>1, <1>3, <1>4, MapSeq, Zenon DEF Groups

\* All groups have the one name there is here.
LEMMA NamesSame ==
  ASSUME NEW groups \in Seq(Frames), NEW more \in Seq(Frames), Len(groups) = Len(more)
  PROVE  Logs!Names(groups) = Logs!Names(more)
<1>1. PICK p \in Groups : p = Logs!Names(groups) /\ Len(p) = Len(groups) /\ \A i \in 1..Len(groups) : p[i] = "g"
  BY NamesIs, Zenon
<1>2. PICK q \in Groups : q = Logs!Names(more) /\ Len(q) = Len(more) /\ \A i \in 1..Len(more) : q[i] = "g"
  BY NamesIs, Zenon
<1>3. p = q
  <2>1. p \in Seq({"g"}) /\ q \in Seq({"g"})
    BY Zenon DEF Groups
  <2>2. Len(p) = Len(q) /\ \A i \in 1..Len(p) : p[i] = q[i]
    BY <1>1, <1>2, Zenon
  <2>. QED
    BY <2>1, <2>2, SameSeq, Zenon
<1>. QED
  BY <1>1, <1>2, <1>3, Zenon

\* A group more has its name.
LEMMA NamesGroup ==
  ASSUME NEW groups \in Seq(Frames), NEW f \in Frames
  PROVE  Logs!Names(Append(groups, f)) = Append(Logs!Names(groups), "g")
<1>1. PICK more \in Seq(Frames) : more = Append(groups, f) /\ Len(more) = Len(groups) + 1
  BY Longer
<1>2. PICK p \in Groups : p = Logs!Names(groups) /\ Len(p) = Len(groups) /\ \A i \in 1..Len(groups) : p[i] = "g"
  BY NamesIs, Zenon
<1>3. PICK q \in Groups : q = Logs!Names(more) /\ Len(q) = Len(more) /\ \A i \in 1..Len(more) : q[i] = "g"
  BY NamesIs, Zenon
<1>4. Len(q) = Len(p) + 1 /\ Len(p) + 1 \in 1..Len(more) /\ \A i \in 1..Len(p) : i \in 1..Len(more)
  <2>1. Len(groups) \in Nat
    BY SeqIs, Zenon
  <2>. QED
    BY <1>1, <1>2, <1>3, <2>1
<1>5. q[Len(p) + 1] = "g" /\ \A i \in 1..Len(p) : q[i] = p[i]
  BY <1>2, <1>3, <1>4, Zenon
<1>6. p \in Seq({"g"}) /\ q \in Seq({"g"}) /\ "g" \in {"g"}
  BY Zenon DEF Groups
<1>7. q = Append(p, "g")
  BY <1>4, <1>5, <1>6, AppendIs, ZenonT(60)
<1>. QED
  BY <1>1, <1>2, <1>3, <1>7, Zenon

\* With attributes in a group: the array, the slice and the frames there are then.
Newest(groups) == groups[Len(groups)].attrs
Array(groups, xs, mem) == Elems(Newest(groups), mem) \o xs \o Logs!Spare
Slice(groups, xs, mem) == [array |-> Len(mem) + 1, len |-> Newest(groups).len + Len(xs)]
Reslice(groups, r) == [groups EXCEPT ![Len(groups)].attrs = r]

\* The frames keep what they had and have what was given.
LEMMA FrameStep ==
  ASSUME NEW mem \in Seq(Arrays), NEW base \in Seq(Items), NEW groups \in Seq(Frames), groups # <<>>, NEW w,
         StdoutKept(base, groups, w, mem), NEW xs \in Seq(Items)
  PROVE  /\ Array(groups, xs, mem) \in Arrays
         /\ Reslice(groups, Slice(groups, xs, mem)) \in Seq(Frames)
         /\ Len(Reslice(groups, Slice(groups, xs, mem))) = Len(groups)
         /\ StdoutKept(base, Reslice(groups, Slice(groups, xs, mem)), w \o Logs!JSON(xs, "emitted"),
                 Append(mem, Array(groups, xs, mem)))
<1>1. PICK front \in Seq(Frames) : Len(groups) \in 1..Len(groups) /\ Len(front) + 1 = Len(groups)
                                   /\ groups = Append(front, groups[Len(groups)])
  BY SplitLast, Zenon
<1>2. PICK f \in Frames : f = groups[Len(groups)]
  BY <1>1, SeqIs, Zenon
<1>3. PICK s \in Slices : s = f.attrs
  BY FrameIs, Zenon
<1>4. SlicesOK(Append(front, f), mem)
  BY <1>1, <1>2, Zenon DEF StdoutKept
<1>5. SlicesOK(front, mem) /\ SliceOK(s, mem)
  BY <1>3, <1>4, LastKept, Zenon
<1>6. PICK a \in Arrays, r \in Slices :
        /\ a = Elems(s, mem) \o xs \o Logs!Spare
        /\ r = [array |-> Len(mem) + 1, len |-> s.len + Len(xs)]
        /\ SliceOK(r, Append(mem, a)) /\ Elems(r, Append(mem, a)) = Elems(s, mem) \o xs
  BY <1>5, ElemsAppended
<1>7. a = Array(groups, xs, mem) /\ r = Slice(groups, xs, mem)
  BY <1>2, <1>3, <1>6, Zenon DEF Array, Slice, Newest
<1>8. PICK g \in Frames : g = [f EXCEPT !.attrs = r] /\ g.attrs = r
  BY Reframed, ZenonT(60)
<1>9. PICK more \in Seq(Frames) : more = Append(front, g) /\ Len(more) = Len(front) + 1
  BY Longer
<1>10. Reslice(groups, r) = more
  <2>1. Reslice(groups, r) = Replaced(groups, Len(groups), [groups[Len(groups)] EXCEPT !.attrs = r])
    BY Zenon DEF Reslice, Replaced
  <2>2. Replaced(Append(front, f), Len(front) + 1, g) = Append(front, g)
    BY LastReplaced, ZenonT(60)
  <2>. QED
    BY <1>1, <1>2, <1>8, <1>9, <2>1, <2>2, Zenon
<1>11. StdoutKept(base, Append(front, f), w, mem)
  BY <1>1, <1>2, Zenon
<1>12. StdoutKept(base, more, w \o Logs!JSON(xs, "emitted"), Append(mem, a))
  BY <1>3, <1>5, <1>6, <1>8, <1>9, <1>11, KeptFrame, ZenonT(60)
<1>. QED
  BY <1>1, <1>7, <1>9, <1>10, <1>12, Zenon

-----------------------------------------------------------------------------
(* The invariant *)

Stdouts == [base : Seq(Items), groups : Seq(Frames)]
Otlps == [path : Groups, attrs : Seq(Items)]
LoggerType ==
  [presetKeys : SUBSET (AttrNames \cup {"sub"}), stdout : Stdouts, otlp : Otlps, ops : Seq(Ops)]

\* Stdout and OTLP have what the derivations gave; the keys at the logger's level are known.
LoggerHolds(l, mem, last, bag) ==
  /\ l.otlp.path = Logs!Names(l.stdout.groups)
  /\ StdoutKept(l.stdout.base, l.stdout.groups, l.otlp.attrs, mem)
  /\ Agrees(l.otlp.path, l.otlp.attrs, l.ops, last)
  /\ bag => PresetOK(l.presetKeys, l.otlp.path, l.otlp.attrs)

LogInv ==
  /\ arrays \in Seq(Arrays) /\ loggers \in Seq(LoggerType) /\ Len(loggers) # 0 /\ baggageOn \in BOOLEAN
  /\ \A i \in 1..Len(loggers) : LoggerHolds(loggers[i], arrays, Len(loggers) - 1, baggageOn)
  /\ LoggedAsGiven

\* The parts of a logger.
LEMMA LoggerIs ==
  ASSUME NEW l \in LoggerType
  PROVE  /\ l.presetKeys \in SUBSET (AttrNames \cup {"sub"}) /\ l.stdout \in Stdouts /\ l.otlp \in Otlps
         /\ l.stdout.base \in Seq(Items) /\ l.stdout.groups \in Seq(Frames)
         /\ l.otlp.path \in Groups /\ l.otlp.attrs \in Seq(Items) /\ l.ops \in Seq(Ops)
<1>1. l.presetKeys \in SUBSET (AttrNames \cup {"sub"}) /\ l.stdout \in Stdouts /\ l.otlp \in Otlps /\ l.ops \in Seq(Ops)
  BY Zenon DEF LoggerType
<1>2. l.stdout.base \in Seq(Items) /\ l.stdout.groups \in Seq(Frames)
  BY <1>1, Zenon DEF Stdouts
<1>3. l.otlp.path \in Groups /\ l.otlp.attrs \in Seq(Items)
  BY <1>1, Zenon DEF Otlps
<1>. QED
  BY <1>1, <1>2, <1>3, Zenon

\* A logger that was there stays as it was.
LEMMA HoldsLater ==
  ASSUME NEW l \in LoggerType, NEW mem \in Seq(Arrays), NEW after, after = mem \/ \E x \in Arrays : after = Append(mem, x),
         NEW last \in Nat, NEW bag, LoggerHolds(l, mem, last, bag)
  PROVE  LoggerHolds(l, after, last + 1, bag)
<1>1. l.stdout.groups \in Seq(Frames)
  BY LoggerIs, Zenon
<1>2. StdoutKept(l.stdout.base, l.stdout.groups, l.otlp.attrs, mem)
  BY Zenon DEF LoggerHolds
<1>3. StdoutKept(l.stdout.base, l.stdout.groups, l.otlp.attrs, after)
  <2>1. CASE after = mem
    BY <1>2, <2>1, Zenon
  <2>2. CASE \E x \in Arrays : after = Append(mem, x)
    <3>1. PICK x \in Arrays : after = Append(mem, x)
      BY <2>2
    <3>. QED
      BY <1>1, <1>2, <3>1, KeptLater, Zenon
  <2>. QED
    BY <2>1, <2>2, Zenon
<1>4. Agrees(l.otlp.path, l.otlp.attrs, l.ops, last + 1)
  BY AgreesLater, Zenon DEF LoggerHolds
<1>. QED
  BY <1>3, <1>4, Zenon DEF LoggerHolds

\* A logger more, which the others do not notice.
LEMMA Derived ==
  ASSUME LogInv, out = <<>>, UNCHANGED <<baggageOn, otlpOn, out>>,
         arrays' = arrays \/ \E x \in Arrays : arrays' = Append(arrays, x),
         NEW l \in LoggerType, loggers' = Append(loggers, l), LoggerHolds(l, arrays', Len(loggers), baggageOn)
  PROVE  LogInv'
<1>1. arrays' \in Seq(Arrays)
  <2>1. arrays \in Seq(Arrays)
    BY Zenon DEF LogInv
  <2>2. \A x \in Arrays : Append(arrays, x) \in Seq(Arrays)
    BY <2>1
  <2>. QED
    BY <2>1, <2>2, Zenon
<1>2. loggers \in Seq(LoggerType)
  BY Zenon DEF LogInv
<1>3. PICK more \in Seq(LoggerType) : /\ more = Append(loggers, l) /\ Len(more) = Len(loggers) + 1
                                      /\ more[Len(loggers) + 1] = l
                                      /\ \A i \in 1..Len(loggers) : more[i] = loggers[i]
                                      /\ Len(loggers) \in Nat
  BY <1>2, Longer, ZenonT(60)
<1>4. PICK last \in Nat : last + 1 = Len(loggers) /\ last = Len(loggers) - 1
  <2>1. Len(loggers) # 0
    BY Zenon DEF LogInv
  <2>2. Len(loggers) - 1 \in Nat /\ (Len(loggers) - 1) + 1 = Len(loggers)
    BY <1>3, <2>1
  <2>. QED
    BY <2>2, Zenon
<1>5. \A i \in 1..Len(loggers) : LoggerHolds(loggers[i], arrays', last + 1, baggageOn)
  <2>1. ASSUME NEW i \in 1..Len(loggers) PROVE LoggerHolds(loggers[i], arrays', last + 1, baggageOn)
    <3>1. PICK k \in LoggerType : k = loggers[i]
      BY <1>2, SeqIs, Zenon
    <3>2. LoggerHolds(k, arrays, last, baggageOn) /\ arrays \in Seq(Arrays)
      BY <1>4, <3>1, Zenon DEF LogInv
    <3>. QED
      BY <3>1, <3>2, HoldsLater, Zenon
  <2>. QED
    BY <2>1, Zenon
<1>6. \A i \in 1..Len(more) : i \in 1..Len(loggers) \/ i = Len(loggers) + 1
  BY <1>3
<1>7. Len(more) - 1 = Len(loggers) /\ Len(more) # 0
  BY <1>3
<1>8. \A i \in 1..Len(more) : LoggerHolds(more[i], arrays', Len(more) - 1, baggageOn)
  BY <1>3, <1>4, <1>5, <1>6, <1>7, Zenon
<1>9. LoggedAsGiven'
  BY Zenon DEF LoggedAsGiven, Logs!LoggedAsGiven
<1>10. loggers' = more /\ baggageOn' = baggageOn /\ baggageOn \in BOOLEAN
  BY <1>3, Zenon DEF LogInv
<1>. QED
  BY <1>1, <1>7, <1>8, <1>9, <1>10, Zenon DEF LogInv

\* What is given to the handlers comes to what was given to the logger.
LEMMA HandedDown ==
  ASSUME NEW path \in Paths, NEW attrs \in Seq(Attrs), NEW by \in Nat, NEW given,
         given = attrs \/ given = Logs!Resolve(attrs, "derived")
  PROVE  given \in Seq(Attrs) /\ Written(path, given, by, "derived") = Written(path, attrs, by, "derived")
<1>1. path \in Seq({"g", "sub"}) /\ "derived" \in Whens /\ "derived" \in {"derived", "emitted"}
  BY Zenon DEF Paths, Whens
<1>2. Logs!Resolve(attrs, "derived") \in Seq(Attrs)
  BY <1>1, ResolveIs, Zenon
<1>3. Written(path, Logs!Resolve(attrs, "derived"), by, "derived") = Written(path, attrs, by, "derived")
  BY <1>1, WrittenResolved, Zenon
<1>. QED
  BY <1>2, <1>3, Zenon

\* Stdout, with attributes.
LEMMA StdoutWith ==
  ASSUME NEW l \in LoggerType, arrays \in Seq(Arrays), NEW last, NEW bag, LoggerHolds(l, arrays, last, bag),
         NEW attrs \in Seq(Attrs), NEW given, given = attrs \/ given = Logs!Resolve(attrs, "derived"),
         NEW by \in Nat, by = Len(loggers),
         IF l.stdout.groups = <<>> THEN UNCHANGED arrays
         ELSE Logs!AppendClipped(Logs!Last(l.stdout.groups).attrs,
                Logs!Placed(Logs!Names(l.stdout.groups), Logs!Resolve(given, "derived"), by)),
         NEW h, h = Logs!OtelWithAttrs(l.stdout, given)
  PROVE  /\ h \in Stdouts /\ Logs!Names(h.groups) = Logs!Names(l.stdout.groups)
         /\ StdoutKept(h.base, h.groups, l.otlp.attrs \o Written(l.otlp.path, attrs, by, "derived"), arrays')
         /\ arrays' = arrays \/ \E x \in Arrays : arrays' = Append(arrays, x)
<1>1. PICK base \in Seq(Items), groups \in Seq(Frames) : base = l.stdout.base /\ groups = l.stdout.groups
  BY LoggerIs, Zenon
<1>2. PICK path \in Groups, w \in Seq(Items) : path = l.otlp.path /\ w = l.otlp.attrs
  BY LoggerIs, Zenon
<1>3. path = Logs!Names(groups) /\ StdoutKept(base, groups, w, arrays)
  BY <1>1, <1>2, Zenon DEF LoggerHolds
<1>4. path \in Paths /\ path \in Seq({"g", "sub"}) /\ "derived" \in Whens /\ "emitted" \in Whens
  BY GroupsArePaths, Zenon DEF Paths, Whens
<1>5. given \in Seq(Attrs) /\ Written(path, given, by, "derived") = Written(path, attrs, by, "derived")
  BY <1>4, HandedDown, ZenonT(60)
<1>6. PICK y \in Seq(Items) : y = Written(path, attrs, by, "derived")
  BY <1>4, WrittenSetIs, Zenon DEF IsWritten
<1>7. l.stdout = [base |-> base, groups |-> groups]
  <2>1. l.stdout \in Stdouts
    BY LoggerIs, Zenon
  <2>. QED
    BY <1>1, <2>1 DEF Stdouts
<1>8. Logs!Serial = by
  BY SMTT(60) DEF Logs!Serial
<1>9. CASE groups = <<>>
  <2>1. path = <<>>
    BY <1>3, <1>9 DEF Logs!Names
  <2>2. Logs!Placed(path, Logs!JSON(given, "derived"), by) = Written(path, given, by, "derived")
    BY <1>4, <1>5, WrittenBase, Zenon
  <2>3. Logs!Placed(<<>>, Logs!JSON(given, "derived"), by) = y
    BY <1>5, <1>6, <2>1, <2>2, Zenon
  <2>4. h = [l.stdout EXCEPT !.base = @ \o y]
    BY <1>1, <1>8, <1>9, <2>3, Zenon DEF Logs!OtelWithAttrs
  <2>5. base \o y \in Seq(Items)
    BY JoinSet, Zenon
  <2>6. h \in Stdouts /\ h.base = base \o y /\ h.groups = groups
    <3>1. PICK z \in Seq(Items) : z = base \o y
      BY <2>5, Zenon
    <3>2. h = [l.stdout EXCEPT !.base = z]
      BY <1>1, <2>4, <3>1, Zenon
    <3>3. h \in Stdouts /\ h.base = z /\ h.groups = groups
      BY <1>7, <3>2 DEF Stdouts
    <3>. QED
      BY <3>1, <3>3, Zenon
  <2>7. StdoutKept(base, <<>>, w, arrays)
    BY <1>3, <1>9, Zenon
  <2>8. StdoutKept(base \o y, <<>>, w \o y, arrays)
    BY <2>7, KeptBase
  <2>9. arrays' = arrays
    BY <1>1, <1>9, Zenon
  <2>. QED
    BY <1>1, <1>2, <1>6, <1>9, <2>6, <2>8, <2>9, ZenonT(60)
<1>10. CASE groups # <<>>
  <2>1. PICK rs \in Seq(Attrs) : rs = Logs!Resolve(given, "derived")
    BY <1>5, ResolveIs
  <2>2. PICK xs \in Seq(Items) : xs = Logs!Placed(path, rs, by)
    BY <1>4, PlacedIs, Zenon
  <2>3. Logs!JSON(xs, "emitted") = y
    <3>1. Logs!JSON(xs, "emitted") = Written(path, rs, by, "emitted")
      BY <1>4, <2>2, WrittenPlaced, Zenon
    <3>2. Written(path, Logs!Resolve(given, "derived"), by, "emitted") = Written(path, given, by, "derived")
      BY <1>4, <1>5, WrittenResolved, ZenonT(60)
    <3>. QED
      BY <1>5, <1>6, <2>1, <3>1, <3>2, Zenon
  <2>4. Logs!Last(groups).attrs = Newest(groups)
    BY Zenon DEF Logs!Last, Newest
  <2>5. Logs!Elements(Newest(groups)) = Elems(Newest(groups), arrays)
    BY Zenon DEF Logs!Elements, Elems
  <2>6. arrays' = Append(arrays, Array(groups, xs, arrays))
    BY <1>1, <1>3, <1>10, <2>1, <2>2, <2>4, <2>5, Zenon DEF Logs!AppendClipped, Array
  <2>7. PICK a \in Arrays : a = Array(groups, xs, arrays)
    BY <1>3, <1>10, FrameStep, Zenon
  <2>8. Len(arrays') = Len(arrays) + 1 /\ Len(arrays') > Len(arrays)
    <3>1. arrays' = Append(arrays, a)
      BY <2>6, <2>7, Zenon
    <3>. QED
      BY <3>1
  <2>9. Logs!Appended(Newest(groups), xs) = Slice(groups, xs, arrays)
    BY <2>8, Zenon DEF Logs!Appended, Slice
  <2>10. PICK new \in Seq(Frames) : new = Reslice(groups, Slice(groups, xs, arrays))
    BY <1>3, <1>10, FrameStep, Zenon
  <2>11. Len(new) = Len(groups) /\ StdoutKept(base, new, w \o y, Append(arrays, a))
    <3>1. /\ Len(Reslice(groups, Slice(groups, xs, arrays))) = Len(groups)
          /\ StdoutKept(base, Reslice(groups, Slice(groups, xs, arrays)), w \o Logs!JSON(xs, "emitted"),
                  Append(arrays, Array(groups, xs, arrays)))
      BY <1>3, <1>10, FrameStep, ZenonT(60)
    <3>. QED
      BY <2>3, <2>7, <2>10, <3>1, Zenon
  <2>12. h = [l.stdout EXCEPT !.groups[Len(groups)].attrs = Slice(groups, xs, arrays)]
    BY <1>1, <1>3, <1>8, <1>10, <2>1, <2>2, <2>4, <2>9, Zenon DEF Logs!OtelWithAttrs
  <2>13. h = [l.stdout EXCEPT !.groups = new]
    BY <1>1, <2>10, <2>12, Zenon DEF Reslice
  <2>14. h \in Stdouts /\ h.base = base /\ h.groups = new
    BY <1>7, <2>13, SMTT(60) DEF Stdouts
  <2>15. Logs!Names(new) = Logs!Names(groups)
    BY <2>11, NamesSame, Zenon
  <2>. QED
    BY <1>1, <1>2, <1>6, <2>6, <2>7, <2>11, <2>14, <2>15, ZenonT(60)
<1>. QED
  BY <1>9, <1>10, Zenon

\* OTLP, with attributes.
OtlpGiven(h, older, attrs, by) ==
  h \in Otlps /\ h.path = older.path /\ h.attrs = older.attrs \o Written(older.path, attrs, by, "derived")

\* The bridge has what it had and what was given.
LEMMA OtlpWith ==
  ASSUME NEW l \in LoggerType, NEW attrs \in Seq(Attrs),
         NEW given, given = attrs \/ given = Logs!Resolve(attrs, "derived"),
         NEW by \in Nat, by = Len(loggers), NEW h, h = Logs!OtlpWithAttrs(l.otlp, given)
  PROVE  OtlpGiven(h, l.otlp, attrs, by)
<1>1. PICK path \in Groups, w \in Seq(Items) : path = l.otlp.path /\ w = l.otlp.attrs
  BY LoggerIs, Zenon
<1>2. path \in Paths /\ path \in Seq({"g", "sub"}) /\ "derived" \in Whens
  BY GroupsArePaths, Zenon DEF Paths, Whens
<1>3. given \in Seq(Attrs) /\ Written(path, given, by, "derived") = Written(path, attrs, by, "derived")
  BY <1>2, HandedDown, Zenon
<1>4. PICK y \in Seq(Items) : y = Written(path, attrs, by, "derived")
  BY <1>2, WrittenSetIs, Zenon DEF IsWritten
<1>5. l.otlp = [path |-> path, attrs |-> w]
  <2>1. l.otlp \in Otlps
    BY LoggerIs, Zenon
  <2>. QED
    BY <1>1, <2>1 DEF Otlps
<1>6. Logs!Placed(path, Logs!Bridge(Logs!StringifyErrors(given), "derived"), by) = y
  BY <1>2, <1>3, <1>4, WrittenBridge, Zenon
<1>7. h = [l.otlp EXCEPT !.attrs = @ \o y]
  BY <1>1, <1>6, Zenon DEF Logs!OtlpWithAttrs, Logs!Serial
<1>8. w \o y \in Seq(Items)
  BY JoinSet, Zenon
<1>9. h \in Otlps /\ h.path = path /\ h.attrs = w \o y
  <2>1. PICK z \in Seq(Items) : z = w \o y
    BY <1>8, Zenon
  <2>2. h = [l.otlp EXCEPT !.attrs = z]
    BY <1>1, <1>7, <2>1, Zenon
  <2>3. h \in Otlps /\ h.path = path /\ h.attrs = z
    BY <1>5, <2>2 DEF Otlps
  <2>. QED
    BY <2>1, <2>3, Zenon
<1>. QED
  BY <1>1, <1>4, <1>9, Zenon DEF OtlpGiven

\* The keys at a level are keys.
LEMMA KeysIs ==
  ASSUME NEW attrs \in Seq(Attrs) PROVE Logs!SameLevelKeys(attrs) \in SUBSET (AttrNames \cup {"sub"})
<1>1. DOMAIN attrs = 1..Len(attrs) /\ \A n \in 1..Len(attrs) : attrs[n] \in Attrs
  BY SeqIs, Zenon
<1>2. \A a \in Attrs : a.key \in AttrNames
  BY Zenon DEF Attrs
<1>. QED
  BY <1>1, <1>2, Zenon DEF Logs!SameLevelKeys, Logs!Range

\* A logger of its parts.
Logger(preset, stdout, otlp, ops) == [presetKeys |-> preset, stdout |-> stdout, otlp |-> otlp, ops |-> ops]

\* It is a logger.
LEMMA LoggerOf ==
  ASSUME NEW preset \in SUBSET (AttrNames \cup {"sub"}), NEW stdout \in Stdouts, NEW otlp \in Otlps, NEW ops \in Seq(Ops)
  PROVE  Logger(preset, stdout, otlp, ops) \in LoggerType
  BY Zenon DEF Logger, LoggerType

\* A derivation.
Op(attrs, group, by) == [attrs |-> attrs, group |-> group, by |-> by]

\* It is a derivation.
LEMMA OpIs ==
  ASSUME NEW attrs \in Seq(Attrs), NEW group \in {"", "g"}, NEW by \in Nat
  PROVE  Op(attrs, group, by) \in Ops
  BY Zenon DEF Op, Ops

\* A group comes without attributes.
LEMMA NoAttrs == <<>> \in Seq(Attrs)
  OBVIOUS

\* One group more.
LEMMA GroupMore == ASSUME NEW path \in Groups PROVE Append(path, "g") \in Groups
  BY DEF Groups

\* One frame more.
LEMMA FrameMore == ASSUME NEW groups \in Seq(Frames), NEW f \in Frames PROVE Append(groups, f) \in Seq(Frames)
  OBVIOUS

\* One derivation more.
LEMMA OpsMore == ASSUME NEW ops \in Seq(Ops), NEW o \in Ops PROVE Append(ops, o) \in Seq(Ops)
  OBVIOUS

\* There is always a logger.
LEMMA LastLogger ==
  ASSUME LogInv PROVE \E last \in Nat : last + 1 = Len(loggers) /\ last = Len(loggers) - 1 /\ last + 1 \in Nat
<1>1. loggers \in Seq(LoggerType) /\ Len(loggers) # 0
  BY Zenon DEF LogInv
<1>2. Len(loggers) \in Nat
  BY <1>1, SeqIs, Zenon
<1>3. Len(loggers) - 1 \in Nat /\ (Len(loggers) - 1) + 1 = Len(loggers) /\ (Len(loggers) - 1) + 1 \in Nat
  BY <1>1, <1>2
<1>. QED
  BY <1>3, Zenon

\* Logger.With keeps the invariant.
LEMMA WithAttrsKeeps ==
  ASSUME LogInv, NEW i \in DOMAIN loggers, NEW attrs \in Batches, Logs!WithAttrs(i, attrs)
  PROVE  LogInv'
<1>1. loggers \in Seq(LoggerType) /\ arrays \in Seq(Arrays) /\ baggageOn \in BOOLEAN
  BY Zenon DEF LogInv
<1>2. PICK l \in LoggerType : l = loggers[i]
  BY <1>1, SeqIs, Zenon
<1>3. PICK last \in Nat : last + 1 = Len(loggers) /\ last = Len(loggers) - 1 /\ last + 1 \in Nat
  BY LastLogger, Zenon
<1>4. LoggerHolds(l, arrays, last, baggageOn)
  <2>1. i \in 1..Len(loggers)
    BY <1>1, SeqIs, Zenon
  <2>. QED
    BY <1>2, <1>3, <2>1, Zenon DEF LogInv
<1>5. attrs \in Seq(Attrs)
  BY CallTypes, Zenon DEF Calls
<1>6. PICK given : given = IF baggageOn THEN Logs!Resolve(attrs, "derived") ELSE attrs
  OBVIOUS
<1>7. given = attrs \/ given = Logs!Resolve(attrs, "derived")
  BY <1>6, Zenon
<1>8. PICK by \in Nat : by = Len(loggers) /\ by = last + 1
  BY <1>3, Zenon
<1>9. PICK h : h = Logs!OtelWithAttrs(l.stdout, given)
  OBVIOUS
<1>10. PICK g : g = Logs!OtlpWithAttrs(l.otlp, given)
  OBVIOUS
<1>11. PICK preset : preset = IF baggageOn THEN l.presetKeys \cup Logs!SameLevelKeys(attrs) ELSE {}
  OBVIOUS
<1>12. /\ IF l.stdout.groups = <<>> THEN UNCHANGED arrays
          ELSE Logs!AppendClipped(Logs!Last(l.stdout.groups).attrs,
                 Logs!Placed(Logs!Names(l.stdout.groups), Logs!Resolve(given, "derived"), by))
       /\ loggers' = Append(loggers, Logger(preset, h, g, Append(l.ops, Op(attrs, "", by))))
       /\ out = <<>> /\ UNCHANGED <<baggageOn, otlpOn, out>>
  BY <1>2, <1>6, <1>8, <1>9, <1>10, <1>11, Zenon DEF Logs!WithAttrs, Logs!Derive, Logs!Serial, Logger, Op
<1>13. PICK path \in Groups, w \in Seq(Items), ops \in Seq(Ops) : path = l.otlp.path /\ w = l.otlp.attrs /\ ops = l.ops
  BY LoggerIs, Zenon
<1>14. PICK y : y = Written(path, attrs, by, "derived")
  OBVIOUS
<1>15. /\ h \in Stdouts /\ Logs!Names(h.groups) = Logs!Names(l.stdout.groups)
       /\ StdoutKept(h.base, h.groups, w \o y, arrays')
       /\ arrays' = arrays \/ \E x \in Arrays : arrays' = Append(arrays, x)
  <2>1. /\ h \in Stdouts /\ Logs!Names(h.groups) = Logs!Names(l.stdout.groups)
        /\ StdoutKept(h.base, h.groups, l.otlp.attrs \o Written(l.otlp.path, attrs, by, "derived"), arrays')
        /\ arrays' = arrays \/ \E x \in Arrays : arrays' = Append(arrays, x)
    BY <1>1, <1>4, <1>5, <1>7, <1>8, <1>9, <1>12, StdoutWith, ZenonT(60)
  <2>. QED
    BY <1>13, <1>14, <2>1, Zenon
<1>16. g \in Otlps /\ g.path = path /\ g.attrs = w \o y
  <2>1. OtlpGiven(g, l.otlp, attrs, by)
    BY <1>5, <1>7, <1>8, <1>10, OtlpWith, ZenonT(60)
  <2>. QED
    BY <1>13, <1>14, <2>1, Zenon DEF OtlpGiven
<1>17. preset \in SUBSET (AttrNames \cup {"sub"})
  BY <1>5, <1>11, KeysIs, LoggerIs, Zenon
<1>18. PICK o \in Ops : o = Op(attrs, "", by) /\ o.attrs = attrs /\ o.group = "" /\ o.by = by
  <2>1. "" \in {"", "g"}
    BY Zenon
  <2>2. Op(attrs, "", by) \in Ops
    BY <1>5, <2>1, OpIs, Zenon
  <2>. QED
    BY <2>2, Zenon DEF Op
<1>19. Append(ops, o) \in Seq(Ops)
  BY OpsMore, Zenon
<1>20. PICK k \in LoggerType : /\ k = Logger(preset, h, g, Append(ops, o)) /\ k.presetKeys = preset
                               /\ k.stdout = h /\ k.otlp = g /\ k.ops = Append(ops, o)
  <2>1. PICK more \in Seq(Ops) : more = Append(ops, o)
    BY <1>19, Zenon
  <2>2. PICK k : k = Logger(preset, h, g, more)
    OBVIOUS
  <2>3. k \in LoggerType
    BY <1>15, <1>16, <1>17, <2>2, LoggerOf, Zenon
  <2>4. k.presetKeys = preset /\ k.stdout = h /\ k.otlp = g /\ k.ops = more
    BY <2>2, Zenon DEF Logger
  <2>. QED
    BY <2>1, <2>2, <2>3, <2>4, Zenon
<1>21. loggers' = Append(loggers, k)
  BY <1>12, <1>13, <1>18, <1>20, Zenon
<1>22. Agrees(path, w \o y, Append(ops, o), by)
  <2>1. Agrees(path, w, ops, last)
    BY <1>4, <1>13, Zenon DEF LoggerHolds
  <2>. QED
    BY <1>5, <1>8, <1>14, <1>18, <2>1, AgreesMore, Zenon
<1>23. baggageOn => PresetOK(preset, path, w \o y)
  <2>1. SUFFICES ASSUME baggageOn PROVE PresetOK(l.presetKeys \cup Logs!SameLevelKeys(attrs), path, w \o y)
    BY <1>11, Zenon
  <2>2. PresetOK(l.presetKeys, path, w)
    BY <1>4, <1>13, <2>1, ZenonT(60) DEF LoggerHolds
  <2>. QED
    BY <1>5, <1>14, <2>2, PresetMore, Zenon
<1>24. LoggerHolds(k, arrays', Len(loggers), baggageOn)
  <2>1. path = Logs!Names(h.groups)
    BY <1>4, <1>13, <1>15, Zenon DEF LoggerHolds
  <2>. QED
    BY <1>8, <1>15, <1>16, <1>20, <1>22, <1>23, <2>1, Zenon DEF LoggerHolds
<1>. QED
  BY <1>12, <1>15, <1>21, <1>24, Derived, Zenon

\* Logger.WithGroup keeps the invariant.
LEMMA WithGroupKeeps ==
  ASSUME LogInv, NEW i \in DOMAIN loggers, NEW name \in {"", "g"}, Logs!WithGroup(i, name)
  PROVE  LogInv'
<1>1. loggers \in Seq(LoggerType) /\ arrays \in Seq(Arrays) /\ baggageOn \in BOOLEAN
  BY Zenon DEF LogInv
<1>2. PICK l \in LoggerType : l = loggers[i]
  BY <1>1, SeqIs, Zenon
<1>3. PICK last \in Nat : last + 1 = Len(loggers) /\ last = Len(loggers) - 1 /\ last + 1 \in Nat
  BY LastLogger, Zenon
<1>4. LoggerHolds(l, arrays, last, baggageOn)
  <2>1. i \in 1..Len(loggers)
    BY <1>1, SeqIs, Zenon
  <2>. QED
    BY <1>2, <1>3, <2>1, Zenon DEF LogInv
<1>5. name = "g"
  BY Zenon DEF Logs!WithGroup
<1>6. PICK f \in Frames : f = [name |-> "g", attrs |-> [array |-> 0, len |-> 0]] /\ f.attrs = [array |-> 0, len |-> 0]
  <2>1. [name |-> "g", attrs |-> [array |-> 0, len |-> 0]] \in Frames
    BY DEF Frames, Slices
  <2>. QED
    BY <2>1, Zenon
<1>7. PICK by \in Nat : by = Len(loggers) /\ by = last + 1
  BY <1>3, Zenon
<1>8. PICK h : h = [l.stdout EXCEPT !.groups = Append(@, f)]
  OBVIOUS
<1>9. PICK g : g = [l.otlp EXCEPT !.path = Append(@, "g")]
  OBVIOUS
<1>10. /\ loggers' = Append(loggers, Logger({}, h, g, Append(l.ops, Op(<<>>, "g", by))))
       /\ out = <<>> /\ UNCHANGED <<baggageOn, otlpOn, out>> /\ arrays' = arrays
  BY <1>2, <1>5, <1>6, <1>7, <1>8, <1>9, Zenon DEF Logs!WithGroup, Logs!Derive, Logs!Serial, Logger, Op
<1>11. PICK path \in Groups, w \in Seq(Items), ops \in Seq(Ops) : path = l.otlp.path /\ w = l.otlp.attrs /\ ops = l.ops
  BY LoggerIs, Zenon
<1>12. PICK base \in Seq(Items), groups \in Seq(Frames) : base = l.stdout.base /\ groups = l.stdout.groups
  BY LoggerIs, Zenon
<1>13. /\ path = Logs!Names(groups) /\ StdoutKept(base, groups, w, arrays) /\ Agrees(path, w, ops, last)
  BY <1>4, <1>11, <1>12, Zenon DEF LoggerHolds
<1>14. PICK more \in Seq(Frames) : more = Append(groups, f)
  BY FrameMore, Zenon
<1>15. h \in Stdouts /\ h.base = base /\ h.groups = more
  <2>1. l.stdout \in Stdouts /\ h = [l.stdout EXCEPT !.groups = more]
    BY <1>8, <1>12, <1>14, LoggerIs, Zenon
  <2>. QED
    BY <1>12, <2>1 DEF Stdouts
<1>16. PICK p \in Groups : p = Append(path, "g")
  BY GroupMore, Zenon
<1>17. g \in Otlps /\ g.path = p /\ g.attrs = w
  <2>1. l.otlp \in Otlps /\ g = [l.otlp EXCEPT !.path = p]
    BY <1>9, <1>11, <1>16, LoggerIs, Zenon
  <2>. QED
    BY <1>11, <2>1 DEF Otlps
<1>18. PICK o \in Ops : o = Op(<<>>, "g", by) /\ o.attrs = <<>> /\ o.group = "g" /\ o.by = by
  <2>1. "g" \in {"", "g"}
    BY Zenon
  <2>2. Op(<<>>, "g", by) \in Ops
    BY <2>1, NoAttrs, OpIs, Zenon
  <2>. QED
    BY <2>2, Zenon DEF Op
<1>19. Append(ops, o) \in Seq(Ops)
  BY OpsMore, Zenon
<1>20. PICK k \in LoggerType : /\ k = Logger({}, h, g, Append(ops, o)) /\ k.presetKeys = {}
                               /\ k.stdout = h /\ k.otlp = g /\ k.ops = Append(ops, o)
  <2>1. {} \in SUBSET (AttrNames \cup {"sub"})
    BY Zenon
  <2>2. PICK longer \in Seq(Ops) : longer = Append(ops, o)
    BY <1>19, Zenon
  <2>3. PICK k : k = Logger({}, h, g, longer)
    OBVIOUS
  <2>4. k \in LoggerType
    BY <1>15, <1>17, <2>1, <2>3, LoggerOf, Zenon
  <2>5. k.presetKeys = {} /\ k.stdout = h /\ k.otlp = g /\ k.ops = longer
    BY <2>3, Zenon DEF Logger
  <2>. QED
    BY <2>2, <2>3, <2>4, <2>5, Zenon
<1>21. loggers' = Append(loggers, k)
  BY <1>10, <1>11, <1>18, <1>20, Zenon
<1>22. Agrees(p, w, Append(ops, o), by)
  BY <1>7, <1>13, <1>16, <1>18, AgreesGroup, ZenonT(60)
<1>23. PresetOK({}, p, w)
  BY <1>13, <1>16, PresetGroup, Zenon
<1>24. StdoutKept(base, more, w, arrays)
  BY <1>1, <1>6, <1>13, <1>14, KeptGroup, ZenonT(60)
<1>25. p = Logs!Names(more)
  BY <1>13, <1>14, <1>16, NamesGroup, Zenon
<1>26. LoggerHolds(k, arrays', Len(loggers), baggageOn)
  BY <1>7, <1>10, <1>15, <1>17, <1>20, <1>22, <1>23, <1>24, <1>25, Zenon DEF LoggerHolds
<1>. QED
  BY <1>10, <1>21, <1>26, Derived, Zenon

-----------------------------------------------------------------------------
(* A record *)

\* The SDK's own keys.
LEMMA OwnNames == "user" \in AttrNames /\ "traceId" \in AttrNames
  BY Zenon DEF AttrNames

\* One attribute more.
AsWritten(path, b, by, when, n) ==
  [path |-> IF b.in = "named" THEN Append(path, "sub") ELSE path,
   key |-> b.key, kind |-> FinalKind(b.kind, when), by |-> by, nth |-> n]

WrittenToo(path, attrs, b, by, when, more) ==
  /\ more \in Seq(Attrs)
  /\ WrittenSet(path, more, by, when) =
       WrittenSet(path, attrs, by, when) \cup {AsWritten(path, b, by, when, Len(attrs) + 1)}

\* It is written after the others.
LEMMA WrittenOneMore ==
  ASSUME NEW path, NEW attrs \in Seq(Attrs), NEW b \in Attrs, NEW by, NEW when, NEW more, more = attrs \o <<b>>
  PROVE  WrittenToo(path, attrs, b, by, when, more)
<1>1. PICK n \in Nat : n = Len(attrs)
  BY SeqIs, Zenon
<1>2. more \in Seq(Attrs) /\ Len(more) = n + 1 /\ more[n + 1] = b /\ \A i \in 1..n : more[i] = attrs[i]
  BY <1>1
<1>3. 1..(n + 1) = 1..n \cup {n + 1}
  BY <1>1
<1>4. \A i \in 1..n : Written(path, more, by, when)[i] = Written(path, attrs, by, when)[i]
  <2>1. \A i \in 1..n : i \in 1..Len(more) /\ i \in 1..Len(attrs)
    BY <1>1, <1>2, <1>3, Zenon
  <2>. QED
    BY <1>2, <2>1, Zenon DEF Written
<1>5. Written(path, more, by, when)[n + 1] = AsWritten(path, b, by, when, n + 1)
  <2>1. n + 1 \in 1..Len(more)
    BY <1>2, <1>3, Zenon
  <2>. QED
    BY <1>2, <2>1, Zenon DEF Written, AsWritten
<1>6. WrittenSet(path, more, by, when) =
        {Written(path, attrs, by, when)[i] : i \in 1..n} \cup {Written(path, more, by, when)[n + 1]}
  <2>1. PICK v : v = Written(path, more, by, when)
    OBVIOUS
  <2>2. PICK u : u = Written(path, attrs, by, when)
    OBVIOUS
  <2>3. {v[i] : i \in 1..(n + 1)} = {v[i] : i \in 1..n} \cup {v[n + 1]}
    BY <1>3, Zenon
  <2>4. {v[i] : i \in 1..n} = {u[i] : i \in 1..n}
    BY <1>4, <2>1, <2>2, Zenon
  <2>5. WrittenSet(path, more, by, when) = {v[i] : i \in 1..(n + 1)}
    BY <1>2, <2>1, Zenon DEF WrittenSet
  <2>6. {Written(path, attrs, by, when)[i] : i \in 1..n} = {u[i] : i \in 1..n}
    BY <2>2, Zenon
  <2>. QED
    BY <2>1, <2>3, <2>4, <2>5, <2>6, Zenon
<1>. QED
  BY <1>1, <1>2, <1>5, <1>6, ZenonT(60) DEF WrittenSet, WrittenToo

\* What slog says of a record of a logger with these groups, which was given S.
Own(path, attrs) == WrittenSet(path, attrs, 0, "emitted")
Member(path, attrs) == Logs!At(path, Logs!Attr("user", "plain", "baggage"), 0, Len(attrs) + 1)
Promised(S, path, attrs, on) ==
  S \cup Own(path, attrs) \cup (IF on /\ ~TakenBy(S \cup Own(path, attrs), path) THEN {Member(path, attrs)} ELSE {})

\* BaggageHandler hands down what slog says.
LEMMA BaggageGives ==
  ASSUME NEW l \in LoggerType, NEW attrs \in Calls, NEW bag \in BOOLEAN, baggageOn \in BOOLEAN,
         baggageOn => PresetOK(l.presetKeys, l.otlp.path, l.otlp.attrs),
         NEW given, given = Logs!BaggageHandle(l, attrs, bag)
  PROVE  /\ given \in Seq(Attrs)
         /\ SetOf(l.otlp.attrs) \cup Own(l.otlp.path, given) =
              Promised(SetOf(l.otlp.attrs), l.otlp.path, attrs, baggageOn /\ bag)
<1>1. PICK path \in Groups, w \in Seq(Items) : path = l.otlp.path /\ w = l.otlp.attrs
  BY LoggerIs, Zenon
<1>2. path \in Paths /\ path \in Seq({"g", "sub"}) /\ "emitted" \in Whens /\ "emitted" \in {"derived", "emitted"} /\ 0 \in Nat
  <2>1. 0 \in Nat
    OBVIOUS
  <2>. QED
    BY <2>1, GroupsArePaths, Zenon DEF Paths, Whens
<1>3. attrs \in Seq(Attrs)
  BY CallTypes, Zenon
<1>4. CASE ~(baggageOn /\ bag)
  <2>1. given = attrs
    BY <1>4, Zenon DEF Logs!BaggageHandle
  <2>. QED
    BY <1>3, <1>4, <2>1, Zenon DEF Promised
<1>5. CASE baggageOn /\ bag
  <2>1. PICK r \in Seq(Attrs) : r = Logs!Resolve(attrs, "emitted") /\ Len(r) = Len(attrs)
    BY <1>2, <1>3, ResolveIs, Zenon
  <2>2. Own(path, r) = Own(path, attrs)
    <3>1. Written(path, r, 0, "emitted") = Written(path, attrs, 0, "emitted")
      BY <1>2, <1>3, <2>1, WrittenResolved, ZenonT(60)
    <3>. QED
      BY <2>1, <3>1, Zenon DEF Own, WrittenSet
  <2>3. Own(path, attrs) = SetOf(Written(path, attrs, 0, "emitted"))
    BY <1>2, <1>3, WrittenSetIs, Zenon DEF Own
  <2>4. "user" \in l.presetKeys \cup Logs!SameLevelKeys(attrs) <=> TakenBy(SetOf(w) \cup Own(path, attrs), path)
    <3>1. "user" \in Logs!SameLevelKeys(attrs) <=> TakenBy(Own(path, attrs), path)
      BY <1>2, <1>3, <2>3, SameLevel, Zenon
    <3>2. "user" \in l.presetKeys <=> TakenBy(SetOf(w), path)
      BY <1>1, <1>5, Zenon DEF PresetOK
    <3>. QED
      BY <3>1, <3>2, Zenon DEF TakenBy
  <2>5. CASE TakenBy(SetOf(w) \cup Own(path, attrs), path)
    <3>1. given = r \o <<>>
      BY <1>5, <2>1, <2>4, <2>5, Zenon DEF Logs!BaggageHandle, Logs!BaggageKey
    <3>2. given = r
      BY <3>1
    <3>. QED
      BY <1>1, <2>2, <2>5, <3>2, ZenonT(60) DEF Promised
  <2>6. CASE ~TakenBy(SetOf(w) \cup Own(path, attrs), path)
    <3>1. PICK b : b = Logs!Attr("user", "plain", "baggage")
      OBVIOUS
    <3>2. b \in Attrs /\ b.key = "user" /\ b.kind = "plain" /\ b.in = "baggage"
      <4>1. "user" \in AttrNames
        BY OwnNames, Zenon
      <4>. QED
        BY <3>1, <4>1 DEF Logs!Attr, Attrs, Kinds
    <3>3. given = r \o <<b>>
      BY <1>5, <2>1, <2>4, <2>6, <3>1, Zenon DEF Logs!BaggageHandle, Logs!BaggageKey
    <3>4. /\ given \in Seq(Attrs)
          /\ Own(path, given) = Own(path, r) \cup {AsWritten(path, b, 0, "emitted", Len(r) + 1)}
      <4>1. WrittenToo(path, r, b, 0, "emitted", given)
        BY <3>2, <3>3, WrittenOneMore, Zenon
      <4>. QED
        BY <4>1, Zenon DEF Own, WrittenToo
    <3>5. "plain" # "valuer" /\ "plain" # "error" /\ "baggage" # "named"
      OBVIOUS
    <3>6. Member(path, attrs) = AsWritten(path, b, 0, "emitted", Len(r) + 1)
      <4>1. FinalKind(b.kind, "emitted") = b.kind
        BY <3>2, <3>5, Zenon DEF FinalKind
      <4>. QED
        BY <2>1, <3>1, <4>1, Zenon DEF Member, Logs!At, AsWritten
    <3>. QED
      BY <1>1, <1>5, <2>2, <2>6, <3>4, <3>6, Zenon DEF Promised
  <2>. QED
    BY <2>5, <2>6, Zenon
<1>. QED
  BY <1>4, <1>5, Zenon

\* Both handlers write the same.
LEMMA SinksAgree ==
  ASSUME NEW l \in LoggerType, arrays \in Seq(Arrays), NEW last, NEW on, LoggerHolds(l, arrays, last, on),
         NEW given \in Seq(Attrs), NEW valid
  PROVE  LET z == (l.otlp.attrs \o Written(l.otlp.path, given, 0, "emitted")) \o Logs!TraceFields(valid)
         IN  Logs!OtelHandle(l.stdout, given, valid) = z /\ Logs!OtlpHandle(l.otlp, given, valid) = z
<1>1. PICK path \in Groups, w \in Seq(Items) : path = l.otlp.path /\ w = l.otlp.attrs
  BY LoggerIs, Zenon
<1>2. PICK base \in Seq(Items), groups \in Seq(Frames) : base = l.stdout.base /\ groups = l.stdout.groups
  BY LoggerIs, Zenon
<1>3. path \in Seq({"g", "sub"}) /\ "emitted" \in Whens /\ 0 \in Nat
  <2>1. 0 \in Nat
    OBVIOUS
  <2>. QED
    BY <2>1, GroupsArePaths, Zenon DEF Paths, Whens
<1>4. path = Logs!Names(groups) /\ SlicesOK(groups, arrays) /\ w = base \o Logs!JSON(Flat(groups, arrays), "emitted")
  BY <1>1, <1>2, Zenon DEF LoggerHolds, StdoutKept
<1>5. PICK fl \in Seq(Items) : fl = Flat(groups, arrays)
  BY <1>4, FlatIs, Zenon
<1>6. PICK xs \in Seq(Items) : xs = Logs!Placed(path, given, 0)
  BY <1>3, PlacedIs, Zenon
<1>7. Logs!Regroup(groups, given) = fl \o xs
  BY <1>4, <1>5, <1>6, Zenon DEF Logs!Regroup, Flat, FramesOf, Logs!Elements, Elems
<1>8. PICK y \in Seq(Items) : y = Written(path, given, 0, "emitted") /\ y = Logs!JSON(xs, "emitted")
  <2>1. Logs!JSON(xs, "emitted") = Written(path, given, 0, "emitted")
    BY <1>3, <1>6, WrittenPlaced, Zenon
  <2>2. Logs!JSON(xs, "emitted") \in Seq(Items)
    BY JSONIs, SMTT(60)
  <2>. QED
    BY <2>1, <2>2, Zenon
<1>9. base \o Logs!JSON(fl \o xs, "emitted") = w \o y
  <2>1. (base \o Logs!JSON(fl, "emitted")) \o Logs!JSON(xs, "emitted") = base \o Logs!JSON(fl \o xs, "emitted")
    BY KeptJoin, ZenonT(60)
  <2>. QED
    BY <1>4, <1>5, <1>8, <2>1, Zenon
<1>10. Logs!OtelHandle(l.stdout, given, valid) = (w \o y) \o Logs!TraceFields(valid)
  BY <1>2, <1>7, <1>9, Zenon DEF Logs!OtelHandle
<1>11. Logs!Placed(path, Logs!Bridge(Logs!StringifyErrors(given), "emitted"), 0) = y
  BY <1>3, <1>8, WrittenBridge, Zenon
<1>12. Logs!OtlpHandle(l.otlp, given, valid) = (w \o y) \o Logs!TraceFields(valid)
  BY <1>1, <1>11, Zenon DEF Logs!OtlpHandle
<1>. QED
  BY <1>1, <1>8, <1>10, <1>12, Zenon

TraceField == [path |-> <<>>, key |-> "traceId", kind |-> "plain", by |-> 0, nth |-> 0]

\* The trace fields are there once or not at all, and no call gave them.
LEMMA TraceIs ==
  ASSUME NEW valid \in BOOLEAN, NEW t, t = Logs!TraceFields(valid)
  PROVE  /\ t \in Seq(Items) /\ Distinct(t) /\ SetOf(t) = Logs!Range(t)
         /\ \A x \in SetOf(t) : x.by = 0 /\ x.nth = 0
<1>1. TraceField \in Items
  <2>1. "traceId" \in AttrNames
    BY OwnNames, Zenon
  <2>2. <<>> \in Seq({"g", "sub"}) /\ "plain" \in Kinds /\ 0 \in Nat
    BY DEF Kinds
  <2>. QED
    BY <2>1, <2>2, Zenon DEF TraceField, Items
<1>2. PICK f \in Items : f = TraceField
  BY <1>1, Zenon
<1>3. t = IF valid THEN <<f>> ELSE <<>>
  BY <1>2, Zenon DEF Logs!TraceFields, TraceField
<1>4. f.by = 0 /\ f.nth = 0
  BY <1>2 DEF TraceField
<1>5. t \in Seq(Items) /\ (\A n \in 1..Len(t) : t[n] = f /\ n = 1) /\ DOMAIN t = 1..Len(t)
  <2>1. CASE valid
    <3>1. t = <<f>>
      BY <1>3, <2>1, Zenon
    <3>. QED
      BY <3>1
  <2>2. CASE ~valid
    <3>1. t = <<>>
      BY <1>3, <2>2, Zenon
    <3>. QED
      BY <3>1
  <2>. QED
    BY <2>1, <2>2, Zenon
<1>. QED
  BY <1>4, <1>5, Zenon DEF Distinct, SetOf, Logs!Range

\* What is written of a record is what slog says, each attribute once.
WritesOnce(z, S) == Logs!Range(z) = S /\ Logs!IsInjective(z)

\* The logger's attributes, the record's and the trace fields are apart from one another.
LEMMA RecordWritten ==
  ASSUME NEW path \in Groups, NEW w \in Seq(Items), NEW ops, NEW last \in Nat, Agrees(path, w, ops, last),
         NEW given \in Seq(Attrs), NEW valid \in BOOLEAN,
         NEW z, z = (w \o Written(path, given, 0, "emitted")) \o Logs!TraceFields(valid)
  PROVE  WritesOnce(z, SetOf(w) \cup Own(path, given) \cup Logs!Range(Logs!TraceFields(valid)))
<1>1. path \in Paths /\ "emitted" \in Whens /\ 0 \in Nat
  <2>1. 0 \in Nat
    OBVIOUS
  <2>. QED
    BY <2>1, GroupsArePaths, Zenon DEF Whens
<1>2. PICK y : y = Written(path, given, 0, "emitted")
  OBVIOUS
<1>3. IsWritten(y, path, given, 0) /\ SetOf(y) = Own(path, given)
  BY <1>1, <1>2, WrittenSetIs, Zenon DEF Own
<1>4. y \in Seq(Items) /\ Distinct(y)
  BY <1>3, Zenon DEF IsWritten
<1>5. ASSUME NEW x \in SetOf(y) PROVE x.by = 0 /\ x.nth # 0
  <2>1. PICK n \in 1..Len(y) : x = y[n]
    BY Zenon DEF SetOf
  <2>2. n # 0
    OBVIOUS
  <2>. QED
    BY <1>3, <2>1, <2>2, Zenon DEF IsWritten
<1>6. PICK t : t = Logs!TraceFields(valid)
  OBVIOUS
<1>7. /\ t \in Seq(Items) /\ Distinct(t) /\ SetOf(t) = Logs!Range(t)
      /\ \A x \in SetOf(t) : x.by = 0 /\ x.nth = 0
  BY <1>6, TraceIs, Zenon
<1>8. \A x \in SetOf(w) : x.by # 0
  <2>1. 0 \notin 1..last
    OBVIOUS
  <2>. QED
    BY <2>1, Zenon DEF Agrees
<1>9. PICK u \in Seq(Items) : u = w \o y
  BY <1>4, JoinSet, Zenon
<1>10. SetOf(u) = SetOf(w) \cup SetOf(y)
  BY <1>4, <1>9, JoinSet, Zenon
<1>11. Distinct(u)
  <2>1. Distinct(w) /\ \A x \in SetOf(w) : x \notin SetOf(y)
    BY <1>5, <1>8, Zenon DEF Agrees
  <2>. QED
    BY <1>4, <1>9, <2>1, JoinSet, Zenon
<1>12. z = u \o t
  BY <1>2, <1>6, <1>9, ZenonT(60)
<1>13. z \in Seq(Items) /\ SetOf(z) = SetOf(u) \cup SetOf(t)
  BY <1>7, <1>12, JoinSet, Zenon
<1>14. Distinct(z)
  <2>1. \A x \in SetOf(u) : x \notin SetOf(t)
    BY <1>5, <1>7, <1>8, <1>10, Zenon
  <2>. QED
    BY <1>7, <1>11, <1>12, <2>1, JoinSet, ZenonT(60)
<1>15. DOMAIN z = 1..Len(z)
  BY <1>13, SeqIs, Zenon
<1>16. Logs!Range(z) = SetOf(z) /\ Logs!IsInjective(z)
  BY <1>14, <1>15, ZenonT(60) DEF Logs!Range, Logs!IsInjective, SetOf, Distinct
<1>. QED
  BY <1>3, <1>6, <1>7, <1>10, <1>13, <1>16, Zenon DEF WritesOnce

\* What a record is, once it is out.
Sunk(o, i, r, valid, bag, failing) ==
  o.logger = i /\ o.record = r /\ o.valid = valid /\ o.bag = bag /\ o.failing = failing

\* What slog says of a record, as it depends on what there is.
Expectation(on, ops, attrs, bag, valid) ==
  LET path  == Logs!GroupsOf(ops)
      own   == FinalSet(path, attrs, 0, "emitted")
      taken == \E a \in Logs!Given(ops) \cup own : a.path = path /\ a.key = "user"
  IN  Logs!Given(ops) \cup own
        \cup (IF on /\ bag /\ ~taken
              THEN {Logs!At(path, Logs!Attr("user", "plain", "baggage"), 0, Len(attrs) + 1)} ELSE {})
        \cup Logs!Range(Logs!TraceFields(valid))

ExpectedThen(S, path, attrs, bag, valid) ==
  Logs!Expected' = Promised(S, path, attrs, baggageOn' /\ bag) \cup Logs!Range(Logs!TraceFields(valid))

\* The property asks for that.
LEMMA ExpectedIs ==
  ASSUME NEW i, NEW r \in Records, NEW valid, NEW bag \in BOOLEAN, NEW failing, Sunk(out', i, r, valid, bag, failing),
         NEW S, S = Logs!Given(loggers'[i].ops), NEW path, path = Logs!GroupsOf(loggers'[i].ops)
  PROVE  ExpectedThen(S, path, r.attrs, bag, valid)
<1>1. PICK attrs : attrs = r.attrs
  OBVIOUS
<1>2. attrs \in Seq(Attrs)
  BY <1>1, CallTypes, Zenon DEF Calls
<1>4. FinalSet(path, attrs, 0, "emitted") = Own(path, attrs)
  <2>1. "emitted" \in Whens
    BY Zenon DEF Whens
  <2>. QED
    BY <1>2, <2>1, WrittenRange, Zenon DEF Own
<1>5. Logs!Expected' = Expectation(baggageOn', loggers'[out'.logger].ops, out'.record.attrs, out'.bag, out'.valid)
  BY ZenonT(60) DEF Logs!Expected, Logs!BaggageKey, Expectation, FinalSet
<1>6. Logs!Expected' = Expectation(baggageOn', loggers'[i].ops, attrs, bag, valid)
  BY <1>1, <1>5, Zenon DEF Sunk
<1>7. PICK ops : ops = loggers'[i].ops
  OBVIOUS
<1>8. S = Logs!Given(ops) /\ path = Logs!GroupsOf(ops)
  BY <1>7, Zenon
<1>9. Expectation(baggageOn', ops, attrs, bag, valid) =
        S \cup Own(path, attrs)
          \cup (IF baggageOn' /\ bag /\ ~TakenBy(S \cup Own(path, attrs), path) THEN {Member(path, attrs)} ELSE {})
          \cup Logs!Range(Logs!TraceFields(valid))
  BY <1>4, <1>8, ZenonT(60) DEF Expectation, TakenBy, Member
<1>. QED
  BY <1>1, <1>6, <1>7, <1>9, ZenonT(60) DEF ExpectedThen, Promised

\* One record through a logger.
LEMMA HandleKeeps ==
  ASSUME LogInv, NEW i \in DOMAIN loggers, NEW r \in Records, NEW valid \in BOOLEAN, NEW bag \in BOOLEAN, NEW failing,
         Logs!Handle(i, r, valid, bag, failing)
  PROVE  LogInv'
<1>1. loggers \in Seq(LoggerType) /\ arrays \in Seq(Arrays) /\ baggageOn \in BOOLEAN
  BY Zenon DEF LogInv
<1>2. PICK l \in LoggerType : l = loggers[i]
  BY <1>1, SeqIs, Zenon
<1>3. PICK last \in Nat : last + 1 = Len(loggers) /\ last = Len(loggers) - 1 /\ last + 1 \in Nat
  BY LastLogger, Zenon
<1>4. LoggerHolds(l, arrays, last, baggageOn)
  <2>1. i \in 1..Len(loggers)
    BY <1>1, SeqIs, Zenon
  <2>. QED
    BY <1>2, <1>3, <2>1, Zenon DEF LogInv
<1>5. PICK given : given = Logs!BaggageHandle(l, r.attrs, bag)
  OBVIOUS
<1>6. PICK path \in Groups, w \in Seq(Items) : path = l.otlp.path /\ w = l.otlp.attrs
  BY LoggerIs, Zenon
<1>7. /\ given \in Seq(Attrs)
      /\ SetOf(w) \cup Own(path, given) = Promised(SetOf(w), path, r.attrs, baggageOn /\ bag)
  <2>1. PICK attrs \in Calls : attrs = r.attrs
    BY Zenon DEF Calls
  <2>2. baggageOn => PresetOK(l.presetKeys, l.otlp.path, l.otlp.attrs)
    BY <1>4, Zenon DEF LoggerHolds
  <2>. QED
    BY <1>1, <1>5, <1>6, <2>1, <2>2, BaggageGives, Zenon
<1>8. PICK z : z = (w \o Written(path, given, 0, "emitted")) \o Logs!TraceFields(valid)
  OBVIOUS
<1>9. Logs!OtelHandle(l.stdout, given, valid) = z /\ Logs!OtlpHandle(l.otlp, given, valid) = z
  BY <1>1, <1>4, <1>6, <1>7, <1>8, SinksAgree, ZenonT(60)
<1>10. Agrees(path, w, l.ops, last)
  BY <1>4, <1>6, Zenon DEF LoggerHolds
<1>11. Logs!Range(z) = SetOf(w) \cup Own(path, given) \cup Logs!Range(Logs!TraceFields(valid)) /\ Logs!IsInjective(z)
  <2>1. WritesOnce(z, SetOf(w) \cup Own(path, given) \cup Logs!Range(Logs!TraceFields(valid)))
    BY <1>7, <1>8, <1>10, RecordWritten, Zenon
  <2>. QED
    BY <2>1, Zenon DEF WritesOnce
<1>12. UNCHANGED <<baggageOn, otlpOn, loggers, arrays>>
  BY Zenon DEF Logs!Handle
<1>13. PICK enabled : enabled = {s \in {"stdout", "otlp"} : ~r.low /\ (s = "otlp" => otlpOn)}
  OBVIOUS
<1>14. PICK sinks : sinks = [s \in enabled |-> z]
  OBVIOUS
<1>15. out' = [logger |-> i, record |-> r, valid |-> valid, bag |-> bag, failing |-> failing,
               sinks |-> sinks, err |-> enabled \cap failing # {}]
  <2>1. [s \in enabled |-> IF s = "stdout" THEN Logs!OtelHandle(l.stdout, given, valid)
                           ELSE Logs!OtlpHandle(l.otlp, given, valid)] = sinks
    BY <1>9, <1>14, Zenon
  <2>. QED
    BY <1>2, <1>5, <1>13, <2>1, Zenon DEF Logs!Handle
<1>16. Sunk(out', i, r, valid, bag, failing) /\ out'.sinks = sinks /\ (out'.err <=> enabled \cap failing # {})
  BY <1>15, ZenonT(60) DEF Sunk
<1>17. Logs!Expected' = Logs!Range(z)
  <2>1. path = Logs!GroupsOf(loggers'[i].ops) /\ SetOf(w) = Logs!Given(loggers'[i].ops)
    BY <1>2, <1>10, <1>12, Zenon DEF Agrees
  <2>2. ExpectedThen(SetOf(w), path, r.attrs, bag, valid)
    BY <1>16, <2>1, ExpectedIs, Zenon
  <2>. QED
    BY <1>7, <1>11, <1>12, <2>2, Zenon DEF ExpectedThen
<1>18. (IF r.low THEN {} ELSE {"stdout"} \cup (IF otlpOn THEN {"otlp"} ELSE {})) = enabled
  <2>1. "stdout" # "otlp"
    OBVIOUS
  <2>. QED
    BY <1>13, <2>1, Zenon
<1>19. LoggedAsGiven'
  BY <1>11, <1>12, <1>14, <1>16, <1>17, <1>18, ZenonT(60) DEF LoggedAsGiven, Logs!LoggedAsGiven, Sunk
<1>. QED
  BY <1>12, <1>19, Zenon DEF LogInv

-----------------------------------------------------------------------------

\* The empty sequence.
LEMMA NoneIs == ASSUME NEW T PROVE <<>> \in Seq(T)
  OBVIOUS

\* The root logger.
LEMMA LogInitially == ASSUME Logs!Init PROVE LogInv
<1>1. baggageOn \in BOOLEAN /\ loggers = <<Logs!Root>> /\ arrays = <<>> /\ out = <<>>
  BY Zenon DEF Logs!Init
<1>2. PICK e : e = <<>> /\ e \in Seq(Items)
  BY NoneIs, Zenon
<1>3. PICK gs \in Seq(Frames) : gs = <<>>
  BY NoneIs, Zenon
<1>4. PICK os \in Seq(Ops) : os = <<>>
  BY NoneIs, Zenon
<1>5. PICK p \in Groups : p = <<>>
  BY NoneIs, Zenon DEF Groups
<1>6. PICK h : h = [base |-> e, groups |-> gs]
  OBVIOUS
<1>7. h \in Stdouts /\ h.base = e /\ h.groups = gs
  BY <1>2, <1>6, Zenon DEF Stdouts
<1>8. PICK g : g = [path |-> p, attrs |-> e]
  OBVIOUS
<1>9. g \in Otlps /\ g.path = p /\ g.attrs = e
  BY <1>2, <1>8, Zenon DEF Otlps
<1>10. PICK l : l = Logger({}, h, g, os)
  OBVIOUS
<1>11. l = Logs!Root
  BY <1>2, <1>3, <1>4, <1>5, <1>6, <1>8, <1>10, Zenon
     DEF Logger, Logs!Root, Logs!NewOTelHandler, Logs!NewErrorStringHandler
<1>12. l \in LoggerType
  <2>1. {} \in SUBSET (AttrNames \cup {"sub"})
    BY Zenon
  <2>. QED
    BY <1>7, <1>9, <1>10, <2>1, LoggerOf, Zenon
<1>13. l.presetKeys = {} /\ l.stdout = h /\ l.otlp = g /\ l.ops = os
  BY <1>10, Zenon DEF Logger
<1>14. p = Logs!Names(gs)
  BY <1>3, <1>5 DEF Logs!Names
<1>15. SetOf(e) = {} /\ Distinct(e) /\ Len(e) = 0
  BY <1>2 DEF SetOf, Distinct
<1>16. StdoutKept(e, gs, e, arrays)
  <2>1. PICK j \in Seq(Items) : j = Logs!JSON(e, "emitted") /\ Len(j) = Len(e)
    BY <1>2, JSONIs
  <2>2. j = e /\ e \o e = e
    BY <1>2, <1>15, <2>1
  <2>3. SlicesOK(<<>>, arrays) /\ Flat(<<>>, arrays) = <<>>
    BY FlatNone, Zenon
  <2>. QED
    BY <1>2, <1>3, <2>1, <2>2, <2>3, Zenon DEF StdoutKept
<1>17. Agrees(p, e, os, 0)
  BY <1>4, <1>5, <1>15, GroupsNone, GivenNone, Zenon DEF Agrees
<1>18. PresetOK({}, p, e)
  BY <1>15, Zenon DEF PresetOK, TakenBy
<1>19. LoggerHolds(l, arrays, 0, baggageOn)
  BY <1>7, <1>9, <1>13, <1>14, <1>16, <1>17, <1>18, ZenonT(60) DEF LoggerHolds
<1>20. loggers \in Seq(LoggerType) /\ Len(loggers) = 1 /\ loggers[1] = l /\ arrays \in Seq(Arrays)
  BY <1>1, <1>11, <1>12
<1>21. Len(loggers) - 1 = 0 /\ Len(loggers) # 0 /\ \A i \in 1..Len(loggers) : i = 1
  BY <1>20
<1>22. LoggedAsGiven
  BY <1>1, Zenon DEF LoggedAsGiven, Logs!LoggedAsGiven
<1>. QED
  BY <1>1, <1>19, <1>20, <1>21, <1>22, Zenon DEF LogInv

\* Every step keeps the invariant.
LEMMA LogStep == ASSUME LogInv, [Logs!Next]_(Logs!vars) PROVE LogInv'
<1>1. ASSUME NEW i \in DOMAIN loggers, NEW attrs \in Batches, Logs!WithAttrs(i, attrs) PROVE LogInv'
  BY <1>1, WithAttrsKeeps
<1>2. ASSUME NEW i \in DOMAIN loggers, NEW name \in {"", "g"}, Logs!WithGroup(i, name) PROVE LogInv'
  BY <1>2, WithGroupKeeps
<1>3. ASSUME NEW i \in DOMAIN loggers, NEW r \in Records, NEW valid \in BOOLEAN, NEW bag \in BOOLEAN,
             NEW failing \in {{}, {"otlp"}}, Logs!Handle(i, r, valid, bag, failing)
      PROVE  LogInv'
  BY <1>3, HandleKeeps
<1>4. CASE UNCHANGED Logs!vars
  <2>1. UNCHANGED <<baggageOn, otlpOn, loggers, arrays, out>>
    BY <1>4, Zenon DEF Logs!vars
  <2>2. LoggedAsGiven'
    <3>1. LoggedAsGiven
      BY Zenon DEF LogInv
    <3>2. Logs!Expected' = Logs!Expected
      <4>1. Logs!Expected = Expectation(baggageOn, loggers[out.logger].ops, out.record.attrs, out.bag, out.valid)
        BY ZenonT(60) DEF Logs!Expected, Logs!BaggageKey, Expectation, FinalSet
      <4>2. Logs!Expected' =
              Expectation(baggageOn', loggers'[out'.logger].ops, out'.record.attrs, out'.bag, out'.valid)
        BY ZenonT(60) DEF Logs!Expected, Logs!BaggageKey, Expectation, FinalSet
      <4>. QED
        BY <2>1, <4>1, <4>2, Zenon
    <3>. QED
      BY <2>1, <3>1, <3>2, Zenon DEF LoggedAsGiven, Logs!LoggedAsGiven
  <2>. QED
    BY <2>1, <2>2, Zenon DEF LogInv
<1>. QED
  BY <1>1, <1>2, <1>3, <1>4, Zenon DEF Logs!Next

\* Logs: however many loggers are derived from one another, with whatever attributes
\* and groups, a record has on stdout and over OTLP what slog promises of its own
\* logger, each attribute once, and no sibling's; baggage gives way to the caller's keys.
THEOREM LoggedTheorem == Logs!Spec => []LoggedAsGiven
<1>1. LogInv => LoggedAsGiven
  BY Zenon DEF LogInv
<1>. QED
  BY <1>1, LogInitially, LogStep, PTL DEF Logs!Spec

===============================================================================
