----------------------------- MODULE Suppressor ------------------------------
(***************************************************************************)
(* repeat.Suppressor and the diagnostic paths it serves: the OTel error    *)
(* handler, the logr sink and the scrape-error logger.  A reporter reads   *)
(* its clock, then calls SuppressedAt, which takes the mutex, so reporters *)
(* reach the table in an order their clock readings need not have.         *)
(***************************************************************************)
EXTENDS Integers, FiniteSets

CONSTANTS
  Reporters,   \* goroutines that report diagnostics
  Messages,    \* distinct messages, redacted
  Window,      \* the repeat window, in ticks
  MaxEntries,  \* as passed to NewSuppressor
  MaxTime      \* bound on the clock

ASSUME SuppressorAssumption ==
  /\ IsFiniteSet(Messages)
  /\ Window \in Nat
  /\ MaxEntries \in Int
  /\ MaxTime \in Nat

\* NewSuppressor floors the bound.
MaxTracked == IF MaxEntries < 1 THEN 1 ELSE MaxEntries

VARIABLES
  now,       \* the clock
  lastSeen,  \* s.lastSeen: the tracked messages and their times
  report,    \* what each reporter is about to ask: <<message, its clock>>
  lastLog,   \* when each message was last logged, or Never
  decision,  \* what SuppressedAt returned last, and lastLog before it
  latest     \* the last clock reading, while they came in order, or Never

vars == <<now, lastSeen, report, lastLog, decision, latest>>

Never == -1

Decide(m, t, suppressed) ==
  /\ decision' = [msg |-> m, at |-> t, suppressed |-> suppressed, prev |-> lastLog[m]]
  /\ latest' = IF latest # Never /\ latest <= t THEN t ELSE Never

Idle == <<>>

Tracked == DOMAIN lastSeen

\* now.Sub(lastSeen[m]) < s.window
Recent(m, t) == t - lastSeen[m] < Window

\* The entries that have not expired at t.
Unexpired(t) == {m \in Tracked : Recent(m, t)}

\* Entries none of S is older than.  The walk over the map keeps the first it
\* meets of those with the same time, and the order of the walk is random.
Oldest(S) == {m \in S : \A x \in S : lastSeen[m] <= lastSeen[x]}

\* Faulty variant: the table may grow one past its bound.
SurvivorsOffByOne(S) ==
  IF Cardinality(S) > MaxTracked THEN {S \ {m} : m \in Oldest(S)} ELSE {S}

\* The entries that stay besides the new one.
Survivors(S) ==
  IF Cardinality(S) >= MaxTracked THEN {S \ {m} : m \in Oldest(S)} ELSE {S}
-----------------------------------------------------------------------------
\* A reporter has a message and reads its clock.
Report(r, m) ==
  /\ report[r] = Idle
  /\ report' = [report EXCEPT ![r] = <<m, now>>]
  /\ UNCHANGED <<now, lastSeen, lastLog, decision, latest>>

\* Faulty variant: a suppressed message extends its own window.
SuppressRefresh(r) ==
  /\ report[r] # Idle
  /\ LET m == report[r][1]
         t == report[r][2]
     IN  /\ m \in Tracked /\ Recent(m, t)
         /\ lastSeen' = [lastSeen EXCEPT ![m] = t]
         /\ Decide(m, t, TRUE)
  /\ report' = [report EXCEPT ![r] = Idle]
  /\ UNCHANGED <<now, lastLog>>

\* SuppressedAt returns true: seen inside the window.
Suppress(r) ==
  /\ report[r] # Idle
  /\ LET m == report[r][1]
         t == report[r][2]
     IN  /\ m \in Tracked /\ Recent(m, t)
         /\ Decide(m, t, TRUE)
  /\ report' = [report EXCEPT ![r] = Idle]
  /\ UNCHANGED <<now, lastSeen, lastLog>>

\* Faulty variant: any entry makes room, not the oldest.
LetThroughAnyVictim(r) ==
  /\ report[r] # Idle
  /\ LET m == report[r][1]
         t == report[r][2]
     IN  /\ ~(m \in Tracked /\ Recent(m, t))
         /\ \E S \in IF Cardinality(Unexpired(t)) >= MaxTracked
                       THEN {Unexpired(t) \ {v} : v \in Unexpired(t)} ELSE {Unexpired(t)} :
              lastSeen' = [x \in S \cup {m} |-> IF x = m THEN t ELSE lastSeen[x]]
         /\ lastLog' = [lastLog EXCEPT ![m] = t]
         /\ Decide(m, t, FALSE)
  /\ report' = [report EXCEPT ![r] = Idle]
  /\ UNCHANGED now

\* SuppressedAt returns false: expired entries are dropped, the oldest one if
\* the table is still full, the message is recorded, and the caller logs it.
LetThrough(r) ==
  /\ report[r] # Idle
  /\ LET m == report[r][1]
         t == report[r][2]
     IN  /\ ~(m \in Tracked /\ Recent(m, t))
         /\ \E S \in Survivors(Unexpired(t)) :
              lastSeen' = [x \in S \cup {m} |-> IF x = m THEN t ELSE lastSeen[x]]
         /\ lastLog' = [lastLog EXCEPT ![m] = t]
         /\ Decide(m, t, FALSE)
  /\ report' = [report EXCEPT ![r] = Idle]
  /\ UNCHANGED now

Tick ==
  /\ now < MaxTime
  /\ now' = now + 1
  /\ UNCHANGED <<lastSeen, report, lastLog, decision, latest>>
-----------------------------------------------------------------------------
Init ==
  /\ now = 0
  /\ lastSeen = [m \in {} |-> 0]
  /\ report = [r \in Reporters |-> Idle]
  /\ lastLog = [m \in Messages |-> Never]
  /\ decision = Idle
  /\ latest = 0

Next ==
  \/ \E r \in Reporters : (\E m \in Messages : Report(r, m)) \/ Suppress(r) \/ LetThrough(r)
  \/ Tick

Spec == Init /\ [][Next]_vars
-----------------------------------------------------------------------------
(***************************************************************************)
(* Properties.                                                             *)
(***************************************************************************)
TypeOK ==
  /\ now \in Nat
  /\ Tracked \subseteq Messages
  /\ lastSeen \in [Tracked -> Nat]
  /\ \A r \in Reporters : report[r] = Idle \/ report[r] \in Messages \X Nat
  /\ lastLog \in [Messages -> Nat \cup {Never}]
  /\ decision = Idle \/ decision \in [msg : Messages, at : Nat, suppressed : BOOLEAN,
                                      prev : Nat \cup {Never}]
  /\ latest \in Nat \cup {Never}

\* However many distinct messages arrive, the table holds at most its bound.
TableBounded == Cardinality(Tracked) <= MaxTracked

\* The decision fell inside the window of the last record of its message.
InWindow == decision.prev # Never /\ decision.at - decision.prev < Window

\* A message is suppressed only if the last record of it was written inside the
\* window, so a condition that persists is logged again every window.
SuppressedOnlyAfterRecord ==
  (decision # Idle /\ decision.suppressed) => InWindow

\* The table is bounded, and bounded or not it silences nothing for longer than
\* a window.
SuppressesSafely == TableBounded /\ SuppressedOnlyAfterRecord

\* As long as clock readings have reached the table in order, a message is logged again
\* inside its window only if MaxTracked others were logged no earlier than it
\* was: that many the bounded table cannot hold together with it.
EarlyRepeatOnlyWhenFull ==
  (decision # Idle /\ ~decision.suppressed /\ InWindow /\ latest # Never) =>
    Cardinality({x \in Messages \ {decision.msg} : lastLog[x] >= decision.prev}) >= MaxTracked
=============================================================================
