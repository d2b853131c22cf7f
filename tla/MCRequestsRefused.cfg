\* Every request of both versions, with one fault anywhere.
SPECIFICATION Spec
CONSTANTS
  Ops <- MCOps
  Waits <- MCWaits
  Faultless = {}
  MaxFaults = 1
  Depth = 2
  MAX_LINK_COUNT = 2
  MaxLinks = 2
  MaxParts = 2
  MaxTries = 1
INVARIANTS
  RefusedIsSilent
CHECK_DEADLOCK FALSE
