CONSTANTS
  Users = {p1, p2}
  Bufs = {b1, b2, b3}
  Blocks = {n1, n2, n3, n4}
  Vals = {v1, v2}
  MAXPINNED = 1
  NoProc = NoProc
  NoBlock = NoBlock
SPECIFICATION CacheSpec
SYMMETRY Symm
INVARIANTS OneBufferPerBlock RefsCounted
PROPERTIES ImplementsStore
CHECK_DEADLOCK TRUE
