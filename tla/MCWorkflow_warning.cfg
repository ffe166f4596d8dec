\* The owner may stop calling: no deadlock to be expected.
SPECIFICATION Spec
CONSTANTS
  t1 = t1
  t2 = t2
  w1 = w1
  w2 = w2
  w3 = w3
  NoTask = NoTask
  Tasks <- TwoTasks
  Threads <- TwoThreads
  Uses <- JustWatched
  MaxCalls = 2
  Controls = {"self", "control"}
SYMMETRY Alike
CHECK_DEADLOCK FALSE
PROPERTY ClientTimersStay
