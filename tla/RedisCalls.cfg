SPECIFICATION FairSpec
CONSTANTS
  Calls = {c1, c2}
  k1 = k1
  k2 = k2
  Keys = {k1, k2}
  Foreign = Foreign
  Replicas = 1
  InitialEntries <- MCInitial
  SetRequests <- AllSets
  DeleteRequests <- AllDeletes
  Transactions <- AllMultis
  GetKeys = {k1}
  BindingKeys = {k1, k2}
INVARIANTS
  FirstWriteWins
  AnswersAreTrue
  GetAnswersWhatWasHeld
PROPERTIES
  ImplementsVersionedStore
  EveryCallReturns
