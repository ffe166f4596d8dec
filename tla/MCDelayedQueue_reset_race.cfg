CONSTANTS
  t1 = t1
  t2 = t2
  t3 = t3
  w1 = w1
  w2 = w2
  NoTask = NoTask
  Tasks <- Pair
  Workers <- TwoWorkers
  Mode <- BothRun
  Maxsizes <- NoLimit
  MaxTime = 1
  ConcurrentReset = TRUE
  DropReposts = FALSE
SPECIFICATION Spec
INVARIANTS ResetIsSafe
