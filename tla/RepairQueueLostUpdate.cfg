SPECIFICATION Spec
CONSTANTS
  Requests = {1, 2}
  Sessions = {s1, s2}
  MaxAttempts = 2
  LeaseSeconds = 1
  RetryDelays = {0}
  MaxClock = 2
  Unread = Unread
SYMMETRY SessionSymmetry
INVARIANT OneAttemptDelivers
CHECK_DEADLOCK FALSE
