SPECIFICATION Spec
CONSTANTS
  m = m
  w = w
  a1 = a1
  a2 = a2
  Threads = {m, w}
  MainThread = m
  Addr = {a1, a2}
  Zero = zero
  PageWords = 32
  MaxDepth = 3
  Env <- Rough
SYMMETRY Symmetry
INVARIANT FaultsAreEarly
PROPERTY WordsAreKept
PROPERTY OnlyLongjmpUnlinks
