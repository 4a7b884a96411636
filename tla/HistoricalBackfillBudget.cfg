CONSTANTS
  p1 = p1
  p2 = p2
  Procs = {p1}
  TargetCount = 3
  Expected <- ThreeTargets
  Unresolved = {3}
  Rewritten <- Oldest
  RequestBudget = 1
  MaxBudget = 2
  MaxMade = 2
SPECIFICATION Spec
INVARIANT BudgetIsKept
CHECK_DEADLOCK FALSE
