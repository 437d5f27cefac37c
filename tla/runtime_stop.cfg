SPECIFICATION FairSpec
CONSTANTS
  main = main
  watcher = watcher
  None = None
  Workers = {w1, w2}
  ThreadCount = 2
  Hosts = {main}
  Calls <- SimpleCalls
  WritersFirst = FALSE
PROPERTIES StopReturns
CHECK_DEADLOCK FALSE
