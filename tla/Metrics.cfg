SPECIFICATION MetricsSpec
CONSTANTS
  duration = duration
  attempts = attempts
  foreign = foreign
  tables = tables
  other = other
  t1 = t1
  t2 = t2
  g1 = g1
  g2 = g2
  NoRule = NoRule
  Streams = {duration, attempts, foreign}
  Values = {other, t1, t2}
  Overflow = other
  Budgets = {tables}
  BudgetOf <- RuleBudgets
  Max <- CapOfOne
  Scrapes = {g1, g2}
  MaxTotal = 4
  Request <- AllPushed
  MaxFails = 2
SYMMETRY Symmetric
INVARIANTS
  BudgetShared
  CumulativeKept
  FailuresShipped
