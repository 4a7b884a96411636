CONSTANTS
  Threads = {"t1", "t2"}
  Limit = 1
  Window = 2
  Ttl = 1
  MaxTime = 2
  MaxData = 1
  ApiRequests <- Requests
  ServiceTokens <- Service
  OperatorTokens <- Operator
SPECIFICATION ApiSpec
INVARIANT AnswerMatchesFilter
CHECK_DEADLOCK FALSE
