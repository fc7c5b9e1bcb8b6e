SPECIFICATION FairSpec
CONSTANTS
  Workers = {w1, w2}
  UniqueIdSeq <- MCSeq
  RandomSeqs = {2}
  DeviceKinds <- MCKinds
  Keys <- MCKeys
  Excluded <- MCExcluded
  Phones <- MCPhones
  Browsers = {b}
  AdxUid <- MCAdxUid
  Wap = {b}
  Mobile = {b}
  Legacy <- MCLegacy
  MaxMs = 2
  MaxBids = 2
  MaxConditions = 2
  MaxVisits = 1
  MaxFaults = 1
  None = None
INVARIANTS NoForeignUser OneUserPerBid SilentAfterTimeout
PROPERTY WritesLand
CHECK_DEADLOCK FALSE
