SPECIFICATION FairSpec
CONSTANTS
  t1 = t1
  t2 = t2
  A = A
  B = B
  Threads = {t1, t2}
  Blocks = {A, B}
  Entry = entry
  Bits = 2
  WordBits = 1
  Wrap = 2
  Assignments <- AllAssignments
  MaxVisits = 4
INVARIANT TypeOK
INVARIANT OwnEdges
INVARIANT DirectedEdges
INVARIANT CountsEdges
INVARIANT SetUpOnce
INVARIANT NeverCrashes
PROPERTY Returns
