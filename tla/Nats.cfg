SPECIFICATION NatsSpec
CONSTANTS
  t1 = t1
  t2 = t2
  Stoppers = {t1, t2}
  Requests <- AllRequests
  fetchBytesBatchBuf = 1
  Timeouts = {1, 2}
  MaxTime = 4
  MaxHops = 3
CHECK_DEADLOCK FALSE
INVARIANTS
  BatchSound
  TimeoutHonest
  ContextArrives
PROPERTIES
  NatsEnds
