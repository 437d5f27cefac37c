SPECIFICATION FairSpec
CONSTANTS
  a = a
  c = c
  NoJob = NoJob
  control = control
  Jobs = {a, c}
  Urgent = {c}
  Follow <- PairFollow
  Callers = {c1}
  Workers = {1, 2, 3, 4}
  MaxWorkers = 1
  MinWorkers = 0
INVARIANTS TypeOK PoolBounded NothingOutlives
PROPERTIES ImplementsJobPool EveryJobServed DestructorReturns
CHECK_DEADLOCK FALSE
