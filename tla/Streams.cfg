SPECIFICATION FairSpec
CONSTANTS
  Messages = {m1}
  Instances = {i1, i2}
  MaxRetries = 1
  MaxFaults = 2
INVARIANTS
  HandledInOrder
PROPERTIES
  ImplementsAtLeastOnce
  PendingIsRecovered
  StoredIsDelivered
CHECK_DEADLOCK FALSE
