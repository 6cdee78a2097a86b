SPECIFICATION SignalsSpec
CONSTANTS
  r1 = r1
  r2 = r2
  m1 = m1
  m2 = m2
  m3 = m3
  Reporters = {r1, r2}
  Messages = {m1, m2, m3}
  Window = 3
  MaxEntries = 2
  MaxTime = 5
  Batches <- SomeBatches
  Records <- SomeRecords
  MaxLoggers = 5
  Incoming <- SomeIncoming
  MaxContexts = 4
  MaxWireMembers = 2
  MaxWireBytes = 6
  MaxBaggageValueBytes = 2
  Chains = 2
  MaxErrors = 3
CHECK_DEADLOCK FALSE
INVARIANTS
  SuppressesSafely
  EarlyRepeatOnlyWhenFull
  LoggedAsGiven
  BaggageWithinLimits
  ErrorsOnOwnSpan
