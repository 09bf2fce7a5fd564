SPECIFICATION KahnSpec
CONSTANTS
  Nodes = {1, 2, 3, 4}
  Graphs <- MCGraphs
INVARIANTS
  LayersRespectDependencies
  CycleIsReal
  LayersAreEarliest
PROPERTY
  LayersTerminates
CHECK_DEADLOCK FALSE
