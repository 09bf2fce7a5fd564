SPECIFICATION Spec
CONSTANTS
  j1 = j1
  j2 = j2
  Jobs = {j1, j2}
  Incomplete = {j2}
  MaxTime = 4
  Schedules <- MCSchedules
INVARIANTS
  NoOverlap
  FireForward
  EveryInstantAnswered
PROPERTIES
  JobsComeFree
  ShutdownQuiesces
CHECK_DEADLOCK FALSE
