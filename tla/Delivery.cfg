SPECIFICATION Spec
CONSTANTS
  Workers = {w1, w2}
  Users = {u1, u2}
  Ads <- MCAds
  Terms <- MCTerms
  Traffics <- MCTraffics
  ArriveLimit = 0
  None = None
INVARIANTS OrdersAgree FrequencyAccount TraceOwn ChargedOnce
PROPERTY SourcesNeverRewritten
SYMMETRY Symmetry
CHECK_DEADLOCK FALSE
