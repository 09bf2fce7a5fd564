SPECIFICATION Spec
CONSTANTS
  a = a
  b = b
  c = c
  x = x
  Nodes = {a, b, c}
  Inputs = {x}
  StoreWorks = TRUE
  Workflows <- MCWorkflows
  LayersOf <- MCLayersOf
INVARIANT
  PersistsEveryCompletedRun
CHECK_DEADLOCK FALSE
