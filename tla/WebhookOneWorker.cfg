SPECIFICATION FairSpec
CONSTANTS
  Webhook = {h1, h2}
  Url = {u1}
  Event = {e1}
  Delivery = {d1, d2}
  Worker = {w1}
  MaxAttempts = 2
  Threshold = 1
  Answer = {"ok", "retry", "gone"}
  MaxChanges = 0
  MaxFaults = 1
INVARIANTS
  AtMostMaxAttempts
  
PROPERTIES
  
  EveryDeliveryEnds
CHECK_DEADLOCK FALSE
