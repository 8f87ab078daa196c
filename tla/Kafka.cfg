SPECIFICATION FairSpec
CONSTANTS
  Writes = {w1}
  Instances = {i1, i2}
  Nobody = Nobody
  Metadata <- MCMetadata
  MaxRetry = 1
  MaxFaults = 1
INVARIANTS
  OfferedBeforeCommitted
PROPERTIES
  CommitNeverGoesBack
  StopReturns
  ReadyIsSeen
  StoredIsOffered
CHECK_DEADLOCK FALSE
