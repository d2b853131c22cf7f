\* Every request of both versions, with up to two faults where the code copes with them.
SPECIFICATION Spec
CONSTANTS
  Ops <- MCOps
  Waits <- MCWaits
  Faultless <- MCFaultless
  MaxFaults = 2
  Depth = 2
  MAX_LINK_COUNT = 2
  MaxLinks = 2
  MaxParts = 2
  MaxTries = 1
INVARIANTS
  TypeOK
  NothingLeft
  
  
  
  CacheDropped
  
  NoLateCallback

  
  
CHECK_DEADLOCK FALSE
