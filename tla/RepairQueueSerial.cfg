SPECIFICATION FairSpec
CONSTANTS
  Requests = {1, 2}
  Sessions = {s1}
  MaxAttempts = 2
  LeaseSeconds = 1
  RetryDelays = {0, 1}
  MaxClock = 3
  Unread = Unread
PROPERTIES ImplementsLeaseQueue LiveLeaseIsHonoured ReadyIsClaimed
CHECK_DEADLOCK FALSE
