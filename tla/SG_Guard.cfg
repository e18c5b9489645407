SPECIFICATION Spec
CONSTANTS
  fun = fun
  gun = gun
  k = k
  l = l
  Functions = {fun, gun}
  Layouts <- MCLayouts
  Words = {k, l}
  Depth = 2
INVARIANT IInv
INVARIANT LastReturnIsChecked
INVARIANT AlarmIsTrue
PROPERTY GuardedReturn
PROPERTY GuardsFrames
CHECK_DEADLOCK FALSE
