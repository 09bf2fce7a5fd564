SPECIFICATION Spec
CONSTANTS
  x1 = x1
  x2 = x2
  Exchanges = {x1, x2}
  MaxChunks = 2
INVARIANTS
  AccountsAgree
  EndOfStreamIsHonest
PROPERTY
  HandlersEnd
CHECK_DEADLOCK FALSE
