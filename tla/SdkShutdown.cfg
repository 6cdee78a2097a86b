SPECIFICATION Spec
CONSTANTS
  c1 = c1
  c2 = c2
  f1 = f1
  f2 = f2
  Callers = {c1, c2}
  Flushers = {f1, f2}
  Components <- Closers
  Signals <- FlushedSignals
  Configs <- FewConfigs
  Budgets = {0, 2, 5}
  FlushBudgets = {2}
  MaxTime = 5
  FlushHonoursCtx = TRUE
SYMMETRY Symmetric
INVARIANTS
  NoCloseUnderFlush
  OneOutcome
  TimeShared
PROPERTIES
  NoAddDuringWait
  MetricsStageHasTime
