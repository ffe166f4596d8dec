CONSTANTS
  t1 = t1
  t2 = t2
  t3 = t3
  w1 = w1
  w2 = w2
  NoTask = NoTask
  Tasks <- Pair
  Workers <- TwoWorkers
  Mode <- BothRun
  Maxsizes <- Limit1
  MaxTime = 1
  ConcurrentReset = FALSE
  DropReposts = TRUE
SPECIFICATION FairSpec
CHECK_DEADLOCK FALSE
PROPERTIES MutexComesBack
