SPECIFICATION Spec
CONSTANTS
  p1 = p1
  p2 = p2
  p3 = p3
  local = local
  given = given
  mock = mock
  Var = Var
  Names = {p1, p2, p3}
  Texts <- MCTexts
  Files <- MCFiles
  Envs <- MCEnvs
  Orders <- MCOrders
INVARIANTS
  StartsAsConfigured
PROPERTIES
  NobodyLeftOut
  PriorityRespected
CHECK_DEADLOCK FALSE
