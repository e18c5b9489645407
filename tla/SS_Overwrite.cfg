SPECIFICATION Spec
CONSTANTS
  m = m
  w = w
  a1 = a1
  a2 = a2
  Threads = {m}
  MainThread = m
  Addr = {a1, a2}
  Zero = zero
  PageWords = 32
  MaxDepth = 5
  Env <- OverwritesNoMap
INVARIANT NoFalseAlarm
INVARIANT GuardedReturn
INVARIANT Recorded
PROPERTY GuardsCalls
