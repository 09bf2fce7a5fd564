SPECIFICATION Spec
CONSTANTS
  pooled = pooled
  router = router
  store = store
  chat = chat
  run = run
  fired = fired
  Modules <- MCModules
  CleanerUppers <- MCCleanerUppers
  Store <- store
  Handlers <- MCHandlers
  Runs <- MCRuns
  Fires <- MCFires
INVARIANTS
  LeaksOnlyTheFailedModule
  LostOnlyWithCause
PROPERTY
  KernelExits
CHECK_DEADLOCK FALSE
