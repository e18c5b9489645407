SPECIFICATION Spec
CONSTANTS
  A = A
  B = B
  X = X
  Y = Y
  Blocks = {A, B, X, Y}
  Start = A
  Order <- Source4
  WordBytes = 2
  Base = 2
  Half = 1
  MaxSize = 3
  Functions <- RoughFunctions
  Joins = {}
  Shared = TRUE
INVARIANT IInv
PROPERTY DecisionsAreSeen
CHECK_DEADLOCK FALSE
