CONSTANTS
  r1 = r1
  r2 = r2
  r3 = r3
  r4 = r4
  NoRun = NoRun
  Runs <- ThreeRuns
  MaxTimers = 1
  Threads = 2
  Kinds <- AnyHandler
  Expires <- BothExpires
SPECIFICATION FairReqSpec
CHECK_DEADLOCK FALSE
INVARIANTS OneChain
PROPERTIES CutIsFinal RefusalObeyed IsAsyncHandler TimerGoesOn
