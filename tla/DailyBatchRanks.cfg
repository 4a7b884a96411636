SPECIFICATION Spec
CONSTANTS
  Symbols = {a, b}
  MaxJobs = 2
  MaxDay = 1
  MaxRuns = 0
  EnabledSteps = {"symbols", "benchmarks", "prices", "rs"}
  EnforceModes = {FALSE}
  RequestBudget = 1
  MaxAttempts = 1
  CoverageBlock = 50
  StaleBlockDays = 1
SYMMETRY SymbolSymmetry
INVARIANT RanksAreDistinct
CHECK_DEADLOCK FALSE
