CONSTANTS
  t1 = t1
  t2 = t2
  t3 = t3
  h1 = h1
  h2 = h2
  i1 = i1
  c1 = c1
  c2 = c2
  c3 = c3
  Threads <- ThreeThreads
  Handlers <- TwoHandlers
  Ids <- OneId
  Copies <- ThreeCopies
  MaxTokens = 3
  Uses <- EachUse
SPECIFICATION Spec
SYMMETRY Alike
CHECK_DEADLOCK FALSE
INVARIANTS Exclusion NobodyForgotten CallbackSettled
PROPERTIES CutOff
