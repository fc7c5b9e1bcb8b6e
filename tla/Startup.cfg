CONSTANTS
  Workers = {1, 2}
  Resources <- MCResources
  Addresses <- MCAddresses
  KillLimit = 1
  Bits = 3
  PrefixSize = 4
  AREACODE_MARGIN = 100
  IP_UNKNOWN = 99
  SOLUTION_SCENARIO_OTHER = 0
  Malformed = malformed
SPECIFICATION StartupSpec
INVARIANTS ScenarioKnown AreaKnown SizesReturn
PROPERTIES WorkersServe
CHECK_DEADLOCK FALSE
