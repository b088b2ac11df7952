SPECIFICATION Spec
CONSTANTS
  Event = {1, 2}
  Tx = {t1, t2}
  Worker = {w1, w2}
  Consumer = {c1, c2}
  BatchSize = 2
  MaxRows = 2
  MaxProducerFaults = 1
  MaxConsumerFaults = 1
  MaxExpiries = 1
  QueueDeclared = FALSE
SYMMETRY Symmetry
PROPERTY ImplementsEventDelivery
INVARIANTS
  NoLoss
  OnlyCommittedLeave
  DuplicatesNeedFaults
CHECK_DEADLOCK FALSE
