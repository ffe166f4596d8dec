CONSTANTS
  p1 = p1
  p2 = p2
  p3 = p3
  c1 = c1
  c2 = c2
  NoClient = NoClient
  Threads <- ThreeThreads
  Clients <- OneClient
  Calls <- AllButStop
  Sizes <- OneOrTwo
  Mode = "run_for_ms"
  UseAsio = TRUE
  HandlersThrow = FALSE
  MaxCalls = 1
SPECIFICATION Spec
PROPERTIES KeptThreadsServe
