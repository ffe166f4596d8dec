CONSTANTS
  p1 = p1
  p2 = p2
  p3 = p3
  c1 = c1
  c2 = c2
  NoClient = NoClient
  Threads <- ThreeThreads
  Clients <- OneClient
  Calls <- EveryCall
  Sizes <- OneOrTwo
  Mode = "run_for_ms"
  UseAsio = FALSE
  HandlersThrow = FALSE
  MaxCalls = 1
SPECIFICATION FairSpec
PROPERTIES JoinReturns
