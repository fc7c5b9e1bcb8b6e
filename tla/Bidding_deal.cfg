SPECIFICATION Spec
CONSTANTS
  Exchanges <- DealFlagExchanges
  Solutions <- SomeSolutions
  MaxImps = 2
  Requests <- OneOfEach
  MaxRequests = 1
  None = None
INVARIANT DealCarried
CHECK_DEADLOCK FALSE
