SPECIFICATION StoresFairSpec
CONSTANTS
  Calls = {c1, c2}
  k1 = k1
  k2 = k2
  Keys = {k1, k2}
  Foreign = Foreign
  Nothing = Nothing
  Stores = {"etcd", "consul", "memcached", "firestore", "cosmosdb", "cassandra"}
  SetLists <- MCSets
  DeleteLists <- MCDeletes
  MultiRequests <- MCRequests
INVARIANT TypeOK
INVARIANT AnswersAreTrue
INVARIANT FirstWriteWins
INVARIANT MongoTypeOK
INVARIANT AppliedAtMostOnce
PROPERTY EveryCallReturns
PROPERTY EveryMongoCallReturns
