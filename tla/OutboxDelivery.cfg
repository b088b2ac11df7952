SPECIFICATION FairSpec
CONSTANTS
  Event = {1, 2, 3}
  Tx = {t1, t2}
  Worker = {w1}
  Consumer = {c1}
  BatchSize = 2
  MaxRows = 2
  MaxProducerFaults = 1
  MaxConsumerFaults = 1
  MaxExpiries = 0
  QueueDeclared = TRUE
INVARIANTS
  DuplicatesAbsorbed
  CausalOrder
PROPERTIES
  DeliveredWhenConnected
CHECK_DEADLOCK FALSE
