SPECIFICATION Spec
CONSTANTS
  p1 = p1
  p2 = p2
  gone = gone
  Names = {p1, p2, gone}
  Providers = {p1, p2}
  Usages = {0, 1}
  AttemptTimeout = 2
  SaveTimeout = 1
  Grace = 1
  Deadlines = {2}
  Routes <- MCRoutes
INVARIANT
  FailsOverOnTimeout
CHECK_DEADLOCK FALSE
