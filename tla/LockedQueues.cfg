SPECIFICATION FairSpec
CONSTANTS
  Messages = {m1}
  Instances = {i1, i2}
  Kinds = {"topic", "unmanaged", "queue", "sqs", "gcp"}
  MaxDelivery = 2
  MaxOutstanding = 2
  MaxFaults = 3
INVARIANTS
  SubscribedIsReal
PROPERTIES
  ImplementsAtLeastOnce
  StoredIsServed
CHECK_DEADLOCK FALSE
