CONSTANTS
  Runs = {"u1", "u2"}
  Repairs = {1}
  RepairCode <- RequestedCodes
  RepairDays <- TwoDays
  MaxJobs = 3
  Stocks = {"s", "t"}
  Etfs = {"e"}
  KrxLists <- KrxSingle
  NaverLists <- NaverSingle
  OperatorDecisions = {"continue", "expand"}
  Symbols = {"s", "t", "o"}
  LegacyCodes = {"o"}
  MinRatio = 50
  MaxSyncs = 3
  MaxAudits = 2
  EodCodes = {"a", "b", "c"}
  EodMarketOf <- MarketOf
  CanaryCodes = {"a", "b"}
  EodSessions = {TRUE, FALSE}
  BridgeCallers = {"p", "q"}
  BridgeCodes = {"s", "t"}
  MaxRequests = 2
  BridgeTimeout = 1
  Workers = {"v", "w"}
  MaxRetries = 1
  MaxPages = 2
  MaxClock = 3
  Proposals = {"p", "q"}
  Findings = {"f"}
  SampleLimit = 2
  Sessions = {"s1", "s2"}
  PageKeys = {1, 2, 3}
  KeyStock <- StockOfKey
  Memberships <- ListedKeys
  FirstRows = {1, 3}
  MaxPriceId = 3
  MaxScoreId = 1
  MaxReplaced = 1
  MaxRsRuns = 2
  Instruments = {"i"}
  LastDay = 2
  FirstEvidence <- OneObserved
  FirstListing <- ListedEarly
  ListingImports <- Imports
  Observations <- LateObservations
  Corrections <- LateCorrections
  MaxEvidence = 2
  Threads = {"t1", "t2"}
  Limit = 1
  Window = 2
  Ttl = 1
  MaxTime = 2
  MaxData = 1
  ApiRequests <- Requests
  ServiceTokens <- Service
  OperatorTokens <- Operator
  RsStocks <- ThreeStocks
  RsMarketOf <- MarketOf
  RsHistories <- Histories
  RsFixes <- Fixes
  RsWindow = 2
  MinHaltDays = 2
  SymbolPageSize = 2
  MaxSymbolPages = 3
  FirstListed = 4
  LastListing = 6
  FundLists <- FundAnswers
  Operators = {1, 2}
  KrxFiles <- Files
  MaxIdentities = 3
  Procs = {"p1", "p2"}
  TargetCount = 1
  Expected <- OneTarget
  Unresolved = {}
  Rewritten = {}
  RequestBudget = 1
  MaxBudget = 2
  MaxMade = 2
SPECIFICATION ServicesSpec
INVARIANTS
  ServicesTypeOK
  KrxTargetsAreEvidenced
  ExpandIsEarned
  RemovalsAreApproved
  EodOutcomeIsBacked
  BridgeRowsAreOwn
  KiwoomCallsAreBounded
  ClosedIsDone
  JoinedPagesMissNothing
  DatasetIsOneSnapshot
  AnswersAreBounded
  RanksAreEarned
  CompleteUniverseWasListed
  IdentitiesStaySeparate
  ConfirmedIsStored
  CompletedTargetIsCollected
  RequestsAreCounted
CHECK_DEADLOCK FALSE
