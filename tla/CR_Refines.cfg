SPECIFICATION FairSpec
CONSTANTS
  A = A
  B = B
  X = X
  Y = Y
  Blocks = {A, B, X, Y}
  Start = A
  Order <- Source4
  WordBytes = 2
  Base = 3
  Half = 2
  MaxSize = 2
  Functions <- PlainFunctions
  Joins = {X, Y}
  Shared = FALSE
INVARIANT Reduced
INVARIANT PhisFollowSplits
PROPERTY SameBranch
PROPERTY Refines
CHECK_DEADLOCK FALSE
