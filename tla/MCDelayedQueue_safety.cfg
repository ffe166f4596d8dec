CONSTANTS
  t1 = t1
  t2 = t2
  t3 = t3
  w1 = w1
  w2 = w2
  NoTask = NoTask
  Tasks <- Triple
  Workers <- TwoWorkers
  Mode <- RunAndRunOne
  Maxsizes <- Limits
  MaxTime = 1
  ConcurrentReset = FALSE
  DropReposts = FALSE
SPECIFICATION Spec
SYMMETRY AnyTask
INVARIANTS TypeOK OnePlace NotEarly Accounting UnsafeBound NoLostWakeup
