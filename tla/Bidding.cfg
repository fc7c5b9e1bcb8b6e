SPECIFICATION Spec
CONSTANTS
  Exchanges <- AllExchanges
  Solutions <- SomeSolutions
  MaxImps = 2
  Requests <- OneOfEach
  MaxRequests = 2
  None = None
INVARIANTS
  ResponseIsOwn
  LogOwnAd
  UrlsOwnAd
  DistinctSolutions
  UserConsistent
  OwnUser
CHECK_DEADLOCK FALSE
