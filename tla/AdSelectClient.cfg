SPECIFICATION FairSpec
CONSTANTS
  MaxCalls = 5
  Faults = {"loss", "recv", "notsock"}
INVARIANT ReadyBetweenCalls
PROPERTIES AnswersOwnCall SearchReturns CallsReturn
CHECK_DEADLOCK FALSE
