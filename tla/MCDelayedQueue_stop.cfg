CONSTANTS
  t1 = t1
  t2 = t2
  t3 = t3
  w1 = w1
  w2 = w2
  NoTask = NoTask
  Tasks <- Single
  Workers <- TwoWorkers
  Mode <- BothRun
  Maxsizes <- NoLimit
  MaxTime = 1
  ConcurrentReset = FALSE
  DropReposts = FALSE
SPECIFICATION FairSpec
PROPERTIES StopEndsEveryWorker
