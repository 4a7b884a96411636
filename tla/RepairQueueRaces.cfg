SPECIFICATION RepairsSpec
CONSTANTS
  Requests = {1, 2}
  Sessions = {s1, s2}
  MaxAttempts = 2
  LeaseSeconds = 1
  RetryDelays = {0}
  MaxClock = 2
  Unread = Unread
  Runs = {u1, u2}
  Repairs = {1, 2}
  RepairCode <- Requested
  RepairDays <- RequestedDays
SYMMETRY RepairsSymmetry
INVARIANTS TypeOK AttemptLedger ProcessingHasLease ClaimIsExclusive ResultsMatchAttempts AppliedIsStored
PROPERTIES SettledAttemptsStay EarlierPricesStay
CHECK_DEADLOCK FALSE
