\* Clients may stop posting, but time goes on: no deadlock to be expected.
SPECIFICATION FairSpec
CONSTANTS
  t1 = t1
  t2 = t2
  t3 = t3
  t4 = t4
  Tasks <- FourTasks
  Uses <- AllUses
  Delays = {1}
  Second = 1
INVARIANTS RateKept CrashNeedsSwitch
PROPERTIES ResetAfterProgress PostsEnd
