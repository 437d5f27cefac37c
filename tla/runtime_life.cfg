SPECIFICATION FairSpec
CONSTANTS
  main = main
  watcher = watcher
  None = None
  Workers = {w1, w2}
  ThreadCount = 2
  Hosts = {main, watcher}
  Calls <- WatchedCalls
  WritersFirst = FALSE
INVARIANTS TypeOK CycleRunsAlone JoinedOnce NothingOutlivesRuntime
PROPERTIES CallsReturnUnlessDeadlocked
CHECK_DEADLOCK FALSE
