SPECIFICATION Spec
CONSTANTS
  t1 = t1
  t2 = t2
  A = A
  B = B
  Threads = {t1, t2}
  Blocks = {A, B}
  Entry = entry
  Bits = 2
  WordBits = 1
  Wrap = 2
  Assignments <- AllAssignments
  MaxVisits = 2
PROPERTY AreaIsGlobal
