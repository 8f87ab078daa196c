SPECIFICATION Spec
SYMMETRY Symmetry
CONSTANTS
  Calls = {c1}
  k1 = k1
  k2 = k2
  Keys = {k1}
  Foreign = Foreign
  Replicas = 1
  InitialEntries <- MCInitial
  SetRequests <- MCSets
  DeleteRequests <- MCDeletes
  Transactions <- MCMultis
  GetKeys = {k1}
  BindingKeys = {k1}
INVARIANT StrongIsReplicated
