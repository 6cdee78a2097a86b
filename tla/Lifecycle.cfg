SPECIFICATION LifecycleSpec
CONSTANTS
  c1 = c1
  c2 = c2
  f1 = f1
  f2 = f2
  s1 = s1
  s2 = s2
  Sdks = {s1, s2}
  Requests <- MCRequests
  Callers = {c1, c2}
  Flushers = {f1, f2}
  Components <- Closers
  Signals <- FlushedSignals
  Configs <- PushConfig
  Budgets = {0, 2}
  FlushBudgets = {}
  MaxTime = 2
  FlushHonoursCtx = FALSE
INVARIANTS
  InitUnwinds
PROPERTIES
  LifeEnds
