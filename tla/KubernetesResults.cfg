\* The constants of Listeners.cfg.
SPECIFICATION FairSpec
CONSTANTS
  Partitions = {1, 2}
  MaxEvents = 3
  MaxBreaks = 2
  MaxResults = 3
  Replicas = {r1, r2, r3}
  Matching = {r1, r2}
  NoPort = NoPort
  MaxEntries = 3
INVARIANT EveryResultIsShown
CHECK_DEADLOCK FALSE
