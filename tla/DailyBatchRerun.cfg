SPECIFICATION Spec
CONSTANTS
  Symbols = {a}
  MaxJobs = 2
  MaxDay = 2
  MaxRuns = 0
  EnabledSteps = {"symbols", "benchmarks", "prices", "rs"}
  EnforceModes = {FALSE}
  RequestBudget = 1
  MaxAttempts = 2
  CoverageBlock = 50
  StaleBlockDays = 1
INVARIANTS CheckpointsInOrder ScoresHaveLineage RecordedDayIsStored
CHECK_DEADLOCK FALSE
