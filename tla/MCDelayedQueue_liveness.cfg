CONSTANTS
  t1 = t1
  t2 = t2
  t3 = t3
  w1 = w1
  w2 = w2
  NoTask = NoTask
  Tasks <- Pair
  Workers <- TwoWorkers
  Mode <- RunAndPoll
  Maxsizes <- Limit1
  MaxTime = 2
  ConcurrentReset = FALSE
  DropReposts = FALSE
SPECIFICATION FairSpec
PROPERTIES ImplementsTaskQueue TaskServed StoppedWorkersEnd
