SPECIFICATION Spec
CONSTANTS
  Webhook = {h1}
  Url = {u1, u2}
  Event = {e1}
  Delivery = {d1, d2}
  Worker = {w1, w2}
  MaxAttempts = 2
  Threshold = 2
  Answer = {"ok", "retry", "gone"}
  MaxChanges = 1
  MaxFaults = 0
SYMMETRY Symmetry
INVARIANTS
  DeliveredWasAccepted
  DeadForAReason
CHECK_DEADLOCK FALSE
