SPECIFICATION Spec
CONSTANTS
  a = a
  b = b
  c = c
  x = x
  Nodes = {a, b, c}
  Inputs = {x}
  StoreWorks = FALSE
  Workflows <- MCWorkflows
  LayersOf <- MCLayersOf
INVARIANTS
  OutputsStableWhileRunning
  RunTellsWhatHappened
  AttemptsAccounted
PROPERTIES
  ImplementsDagRun
  RunEnds
CHECK_DEADLOCK FALSE
