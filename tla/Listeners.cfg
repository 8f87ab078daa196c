\* Two partitions, three events, two broken links; three results; three
\* replicas, two of them with the id.
SPECIFICATION FairSpec
CONSTANTS
  Partitions = {1, 2}
  MaxEvents = 3
  MaxBreaks = 2
  MaxResults = 3
  Replicas = {r1, r2, r3}
  Matching = {r1, r2}
  NoPort = NoPort
  MaxEntries = 3
INVARIANTS
  TypeOK
  NoEventPassedOver
  AnswerIsFirstMatch
PROPERTIES
  CheckpointNeverGoesBack
  StoredReachesBinding
  EndTogether
  BrowserEndsUnlessMatched
\* A Read that has returned, and a process that was killed, do nothing more.
CHECK_DEADLOCK FALSE
