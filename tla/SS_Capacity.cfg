SPECIFICATION Spec
CONSTANTS
  m = m
  w = w
  a1 = a1
  a2 = a2
  Threads = {m}
  MainThread = m
  Addr = {a1, a2}
  Zero = zero
  PageWords = 10
  MaxDepth = 12
  Env = {}
INVARIANT WordPerFrame
