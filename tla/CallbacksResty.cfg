SPECIFICATION CallbacksSpec
CONSTANTS
  Budgets = {0, 1, 2}
  Failures <- FewFailures
  NoError = NoError
  NoSpan = NoSpan
  Pools = {a, b}
  IDs = {k1, k2}
  Sizes <- TwoSizes
  MaxWaiting = 2
  MaxIdle = 4
  Sharing = {TRUE, FALSE}
SYMMETRY Symmetric
INVARIANTS
  EveryAttemptEnds
