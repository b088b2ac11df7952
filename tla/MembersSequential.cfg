SPECIFICATION FairSpec
CONSTANTS
  Creator = u1
  User = {u1, u2}
  Request = {r1}
  Deletable = {u2}
  MaxCalls = 3
  MaxFaults = 1
INVARIANTS
  RequestsKeepOwner
  StaleOnlyBeforeEviction
PROPERTIES
  CacheConverges
CHECK_DEADLOCK FALSE
