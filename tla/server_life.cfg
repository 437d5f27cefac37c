SPECIFICATION FairSpec
CONSTANTS
  PoolSize = 2
  MaxErrors = 2
  Careful = TRUE
INVARIANTS TypeOK QueueIsThere ServerIsThere PublisherAlive
PROPERTIES NetServerStops ChainsEnd
CHECK_DEADLOCK FALSE
