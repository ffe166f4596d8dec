CONSTANTS
  t1 = t1
  t2 = t2
  t3 = t3
  w1 = w1
  w2 = w2
  NoTask = NoTask
  Tasks <- Pair
  Workers <- TwoWorkers
  Mode <- RunAndRunOne
  Maxsizes <- Limit1
  Callers = 2
  MaxTime = 1
SPECIFICATION Spec
INVARIANTS LimitHolds
