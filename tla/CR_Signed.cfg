SPECIFICATION Spec
CONSTANTS
  A = A
  B = B
  X = X
  Y = Y
  Blocks = {A, B, X, Y}
  Start = A
  Order <- Source4
  WordBytes = 2
  Base = 2
  Half = 1
  MaxSize = 2
  Functions <- SignedFunctions
  Joins = {}
  Shared = FALSE
PROPERTY SameBranch
CHECK_DEADLOCK FALSE
