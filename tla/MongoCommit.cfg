SPECIFICATION MongoSpec
CONSTANTS
  Calls = {c1, c2}
  k1 = k1
  k2 = k2
  Keys = {k1, k2}
  Nothing = Nothing
  Foreign = Foreign
  MultiRequests <- MCRequests
INVARIANT MultiSucceedsOnlyIfDone
