SPECIFICATION FairSpec
CONSTANTS
  Components <- MCComponents
  Instances = {i1, i2}
  Writers = {i1}
  Messages = {m1, m2}
  None = None
  Group = Group
  Metadata <- MCMetadata
  MaxFaults = 1
INVARIANTS
  WriteEndsTheClient
PROPERTIES
  
  CutOffAfterAccept
  SubscriptionSurvives
  TakenIsHandled
CHECK_DEADLOCK FALSE
