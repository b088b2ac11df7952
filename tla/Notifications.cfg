SPECIFICATION MCSpec
CONSTANTS
  Instance = {i1, i2}
  u1 = u1
  u2 = u2
  u3 = u3
  User = {u1, u2, u3}
  e1 = e1
  e2 = e2
  EventId = {e1, e2}
  c1 = c1
  c2 = c2
  Conn = {c1, c2}
  Owner <- MCOwner
  BufSize = 2
  Scenarios <- MCScenarios
  Item = {1, 2, 3}
  Stamp = {1, 2, 3}
  EncodedPlace = 2
  DefaultLimit = 2
  MaxLimit = 3
  MaxListed = 6
  Readings <- MCReadings
SYMMETRY Symmetry
INVARIANTS
  
  
  PushesArrive
  SubscribedMembers
CHECK_DEADLOCK FALSE
