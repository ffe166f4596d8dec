CONSTANTS
  p1 = p1
  p2 = p2
  p3 = p3
  c1 = c1
  c2 = c2
  NoClient = NoClient
  Threads <- TwoThreads
  Clients <- TwoClients
  Calls <- EveryCall
  Sizes <- NoneToTwo
  Mode = "run_for_ms"
  UseAsio = TRUE
  HandlersThrow = TRUE
  MaxCalls = 1
SPECIFICATION FairSpec
INVARIANTS TypeOK PoolShape NoneDropped SurplusDismissed FlagsMatch
PROPERTIES JoinReturns SurplusEnds
