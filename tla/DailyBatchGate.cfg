SPECIFICATION Spec
CONSTANTS
  Symbols = {a, b}
  MaxJobs = 1
  MaxDay = 2
  MaxRuns = 1
  EnabledSteps = {"krx_shadow", "symbols", "benchmarks", "prices", "validation", "rs"}
  EnforceModes = {TRUE, FALSE}
  RequestBudget = 1
  MaxAttempts = 2
  CoverageBlock = 50
  StaleBlockDays = 1
SYMMETRY SymbolSymmetry
PROPERTY ImplementsJobLedger
INVARIANTS TypeOK CheckpointIsBacked CompletedJobIsWhole EnforcedRsWasValidated
CHECK_DEADLOCK FALSE
