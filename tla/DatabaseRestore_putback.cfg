\* One restore whose rename fails is enough.
SPECIFICATION Spec
CONSTANTS
  Requests = {r1}
  Names = {n1}
  Writes = {w1}
  MaxExits = 1
  None = None
INVARIANTS RollbackIsComplete
CHECK_DEADLOCK FALSE
