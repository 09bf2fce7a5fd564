SPECIFICATION Spec
CONSTANTS
  p1 = p1
  p2 = p2
  gone = gone
  Names = {p1, p2, gone}
  Providers = {p1, p2}
  Usages = {0, 2}
  MaxChunks = 3
  Routes <- MCRoutes
INVARIANTS
  RecordedBeforeTheEnd
  OneProviderPerStream
  SuccessDeliversAll
  UsageMatchesDelivery
PROPERTIES
  ImplementsFallback
  NoGoroutineLeft
CHECK_DEADLOCK FALSE
