CONSTANTS
  p1 = p1
  p2 = p2
  p3 = p3
  b1 = b1
  b2 = b2
  b3 = b3
  n1 = n1
  n2 = n2
  Callers = {p1, p2, p3}
  Bufs = {b1, b2, b3}
  Blocks = {n1, n2}
  Vals = {v1, v2}
  NUM = 7
  NoDesc = NoDesc
  Requests <- MCRequests
SPECIFICATION FairDisk
INVARIANTS DescriptorsOwned CompletionComes
PROPERTIES ImplementsDevice RequestsReturn DescriptorsComeBack
CHECK_DEADLOCK TRUE
