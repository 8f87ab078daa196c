SPECIFICATION Spec
CONSTANTS
  Calls = {c1, c2}
  k1 = k1
  k2 = k2
  Keys = {k1, k2}
  Foreign = Foreign
  InitialVersions = {0}
  SetRequests <- BlindSets
  DeleteRequests <- BlindDeletes
  BulkSetRequests <- BlindBulks
  BulkDeleteRequests = {}
INVARIANT MissingKeysAreCreated
